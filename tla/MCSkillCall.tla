---------------------------- MODULE MCSkillCall ----------------------------
EXTENDS SkillCall

MCVersion == {2022, 2026}

=============================================================================
