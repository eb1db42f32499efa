--------------------------- MODULE MCConfigStore ---------------------------
EXTENDS ConfigStore

CONSTANTS standard, chosen, other

MCOptions == {standard, chosen, other}
MCLevels  == {50, 255}
=============================================================================
