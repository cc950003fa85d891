--------------------------- MODULE MCConfigLookup ---------------------------
(* A user's directory, then the two of the system, with two drop-ins each. *)
EXTENDS ConfigLookup

UserAndSystem == <<<<"user">>, <<"etc", "usr">>>>
TwoDropIns == <<"a.conf", "b.conf">>

MCSections == {"s1", "s2"}
MCKeys == {"key", "secret"}

\* An empty file, a whole pair, and a half of one after another section.
MCContents ==
  {<<>>, <<<<"s1", "key">>, <<"s1", "secret">>>>,
   <<<<"s2", "key">>, <<"s1", "secret">>>>}

=============================================================================
