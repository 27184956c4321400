---------------------------- MODULE MCSleepBeacon ----------------------------
(* TLC instances of SleepBeacon. *)
EXTENDS SleepBeacon

Beacon == <<"imp", "beacon">>
\* Names with and without dots of their own, none a continuation of another.
ApartStores == {<<"imp", "orders">>, <<"users">>}
\* Different names, one a continuation of the other.
NestedStores == {<<"imp">>, <<"imp", "orders">>}
Some == {<<"e">>, <<"orders", "e">>}
TwoClocks == {-1, 0}
ASSUME ApartHere == Stores = ApartStores => NamesApart
=============================================================================
