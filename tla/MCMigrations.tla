---------------------------- MODULE MCMigrations ----------------------------
(* Model checking of Migrations.                                           *)
EXTENDS Migrations, TLC

TenantSymmetry == Permutations(Tenant)
=============================================================================
