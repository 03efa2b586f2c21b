---------------------------- MODULE MCMigrations ----------------------------
(* Migrations on rows of two versions of one model.                          *)
EXTENDS Migrations

CONSTANTS m1, i1, i2

MCLabels == {<<m1, 1>>, <<m1, 2>>}
=============================================================================
