---------------------------- MODULE MCBanManager ----------------------------
(* Small instances of the ban manager for TLC. *)
EXTENDS BanManager

\* An ordinary address and one that reads the same in both byte orders.
TwoV4 == {<<10, 0, 0, 1>>, <<7, 7, 7, 7>>}
OneV4 == {<<7, 7, 7, 7>>}

=============================================================================
