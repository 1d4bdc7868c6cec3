--------------------------- MODULE ErrorCollection --------------------------
(***************************************************************************)
(* The errors that a caller collects over any number of calls              *)
(* (error_collection.h, error_collection.cc) and what they say (error.cc). *)
(* Each is of a kind and a level, has the place it is about, <<>> when it  *)
(* has none, and a message: the text of a kind, with its gaps filled.  How *)
(* often an error is there, and in which order, is left out.               *)
(***************************************************************************)
EXTENDS Naturals, Sequences

\* kDefaultMessages, counted by MessageInfo: the gaps in the text of a kind.
FormatCount(kind) ==
    CASE kind \in {"CannotOpen", "IoError", "ShadowingType", "ShadowingMember",
                   "UnknownType", "OptionMustBeStringTyped",
                   "UnknownOptionValue", "AmbiguousOption", "DuplicateOption",
                   "OptionInvalidForType", "UnknownOptionType"} -> 1
      [] kind = "UnknownOptionValueTyped" -> 2
      [] OTHER -> 0

\* FormatHelper: a missing argument is empty, a further one is left out.
FormatMessage(kind, args) ==
    [text |-> kind,
     gaps |-> [i \in 1 .. FormatCount(kind) |->
                  IF i <= Len(args) THEN args[i] ELSE ""]]

\* An ErrorInfo with the default message of its kind, and with one of its own.
ErrorInfo(place, kind, args, level) ==
    [place |-> place, kind |-> kind, level |-> level,
     message |-> FormatMessage(kind, args)]

OwnMessage(place, kind, message) ==
    [place |-> place, kind |-> kind, level |-> "Error",
     message |-> [text |-> message, gaps |-> <<>>]]

Error(place, kind, args) == ErrorInfo(place, kind, args, "Error")
Warning(place, kind, args) == ErrorInfo(place, kind, args, "Warning")

\* operator<<: the kind itself is not written.
Line(info) ==
    [place |-> info.place, level |-> info.level, message |-> info.message]
-----------------------------------------------------------------------------
\* clear, and a new collection.
NoErrors == [errors |-> {}, has_error |-> FALSE]

\* Bug: a warning counts as an error.
AddAllLevels(collection, infos) ==
    [errors    |-> collection.errors \cup infos,
     has_error |-> collection.has_error \/ infos # {}]

\* Add, of each of the infos.
Add(collection, infos) ==
    [errors    |-> collection.errors \cup infos,
     has_error |-> collection.has_error \/ \E info \in infos : info.level = "Error"]
=============================================================================
