----------------------- MODULE MCInstallTransaction -----------------------
EXTENDS InstallTransaction

MCVersion == {1, 2}

=============================================================================
