------------------------------ MODULE MCClient ------------------------------
EXTENDS Client

CONSTANTS viewer, editor, k, d
MCNames == {k}
MCContents == {d}
MCRoles == {viewer, editor}
=============================================================================
