--------------------------- MODULE MCResponseBody ---------------------------
(* Content types for TLC: one of each kind, and the near misses of each.   *)
EXTENDS ResponseBody

Media(type, subtype) == [type |-> type, subtype |-> subtype, plusJson |-> FALSE]
PlusJson(type) == [type |-> type, subtype |-> "problem", plusJson |-> TRUE]

MCMediaTypes ==
  {NoMediaType, Media("application", "json"), PlusJson("application"),
   Media("text", "yaml"), Media("application", "yaml"),
   Media("text", "html"), Media("text", "json"), PlusJson("text"),
   Media("application", "octet-stream")}

MCLengths == 0..8

=============================================================================
