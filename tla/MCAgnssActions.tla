---------------------------- MODULE MCAgnssActions ----------------------------
EXTENDS AgnssActions
=============================================================================
