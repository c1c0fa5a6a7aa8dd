--------------------------- MODULE MCAddressSymbols ---------------------------
(* An instance of AddressSymbols for TLC. *)
EXTENDS AddressSymbols

CONSTANTS x, y

\* One transaction pays both addresses, the others one or one twice.
SomePayees == {<<x>>, <<x, y>>, <<y, y>>}
==============================================================================
