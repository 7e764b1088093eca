---------------------------- MODULE HostHandler ----------------------------
(***************************************************************************)
(* Host::handle of host.rs: a request is routed (Routing), and if it is a  *)
(* GET of a static file its If-Modified-Since, if it has one, is parsed    *)
(* (HttpDate) before files.rs is asked.  A date that is refused is         *)
(* answered 400; no other request has its date looked at.                  *)
(***************************************************************************)
EXTENDS Routing

CONSTANTS Values, Damaged,  \* of the dates, see HttpDate
          DatedRequests     \* requests that may have an If-Modified-Since

ASSUME DatedAssumption == DatedRequests \subseteq Requests

\* The numbers that fit the fields of a text.
TwoDigits == 0..99
MonthNumbers == 1..12
Years == 0..9999

ASSUME ValuesAssumption ==
    Values \subseteq [day : TwoDigits, month : MonthNumbers, year : Years,
                     hour : TwoDigits, minute : TwoDigits, second : TwoDigits]

VARIABLES value, wkday, padding, damage, at, read, outcome
date == <<value, wkday, padding, damage, at, read, outcome>>

Dates == INSTANCE HttpDate

HandlerInit ==
    /\ Init
    /\ \/ Dates!NoHeader
       \/ request \in DatedRequests /\ Dates!Header

\* handle_get has a static file's path.
AtFile == answer.status = "file"

HandlerNext == \/ Next /\ UNCHANGED date
               \/ AtFile /\ Dates!Next /\ UNCHANGED vars

HandlerSpec == HandlerInit /\ [][HandlerNext]_<<vars, date>>

\* What becomes of the request: "file" if files.rs is asked for it.
Outcome == IF AtFile
           THEN CASE outcome \in {"absent", "date"} -> "file"
                  [] outcome = "err" -> "400"
                  [] outcome = "panic" -> "panic"
                  [] outcome = "reading" -> "none"
           ELSE answer.status
-----------------------------------------------------------------------------
(* Properties.                                                             *)

\* All fields are there, under the name of any weekday, before any text.
FieldsSpelt == damage \in {Dates!NoDamage, Dates!TextBehind} /\ wkday \in Dates!Weekdays

\* A date since 1970: what the server may have written, but for that.
Spelt == /\ outcome # "absent" /\ FieldsSpelt
         /\ Dates!DateExists(value) /\ Dates!TimeExists(value)
         /\ value.year >= 1970

(* A request for a file with a Last-Modified the server wrote, sent back   *)
(* unchanged, never panics, and files.rs is asked about that very date; it *)
(* is refused only if to_rfc2822 writes days of one digit with a blank.    *)
(* The same goes for that date under the name of another weekday, and with *)
(* more text behind it, which are not looked at.  With anything else it    *)
(* goes no further: no date that does not exist, or before 1970, and no    *)
(* text with a field missing or misspelt, gets to files.rs (time.rs:16-92, *)
(* host.rs:77).                                                            *)
ReadBackOrRefused ==
    AtFile =>
        IF Spelt
        THEN /\ Outcome = "file" => read = value
             /\ Outcome # "panic"
             /\ Outcome = "400" => padding = "blank" /\ value.day < 10
        ELSE outcome # "absent" => Outcome # "file"
=============================================================================
