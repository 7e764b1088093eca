------------------------------ MODULE HttpDate ------------------------------
(***************************************************************************)
(* Dates: to_1123 of time.rs writes Last-Modified, parse_date_1123 reads   *)
(* If-Modified-Since field by field and handle_get (host.rs:77-78) uses    *)
(* the result.  Every slice, every date that does not exist and every date *)
(* before 1970 is a place where the code panics instead of returning Err.  *)
(***************************************************************************)
EXTENDS Naturals, Sequences

CONSTANTS Values,   \* the numbers a text may hold: [day, month, ...] records
          Damaged,  \* those of them whose text may be damaged
          None      \* no header

VARIABLES value,    \* the numbers the text was written from
          wkday,    \* the weekday the text names, or "other"
          padding,  \* what to_rfc2822 writes before a day of one digit
          damage,   \* [at, how]: the first field that is not as written, or 0
          at,       \* the field to be read next
          read,     \* the numbers read
          outcome   \* "absent", "reading", "date", "err", "panic"

\* The fields in their order; a literal is its own field.
Layout == <<"wkday", ",", " ", "day", " ", "month", " ", "year", " ",
            "hour", ":", "minute", ":", "second", " ", "GMT">>
Numbers == {"day", "month", "year", "hour", "minute", "second"}
Field == Layout[at]

(***************************************************************************)
(* "other": a text of the same length; "short": the text ends before the   *)
(* field does; "wide": a character of several bytes lies across its end;   *)
(* "more": there is text behind the last field.  (Three letters that name  *)
(* no weekday are in wkday.)                                               *)
(***************************************************************************)
NoDamage == [at |-> 0, how |-> "none"]
TextBehind == [at |-> Len(Layout) + 1, how |-> "more"]
Damages == [at : 2..Len(Layout), how : {"other", "short", "wide"}]
           \cup [at : {1}, how : {"short", "wide"}] \cup {TextBehind}

Weekdays == {"Mon", "Tue", "Wed", "Thu", "Fri", "Sat", "Sun"}

\* The request has no If-Modified-Since.
NoHeader ==
    /\ value = None /\ wkday = "Mon" /\ padding = "zero" /\ damage = NoDamage
    /\ at = 1 /\ read = [f \in {} |-> 0]
    /\ outcome = "absent"

\* Any weekday for the damaged texts, one for all the others.
Header ==
    /\ value \in Values
    /\ wkday \in IF value \in Damaged THEN Weekdays \cup {"other"} ELSE {"Mon"}
    /\ padding \in {"zero", "blank"}
    /\ damage \in {NoDamage} \cup IF value \in Damaged THEN Damages ELSE {}
    /\ at = 1
    /\ read = [f \in {} |-> 0]
    /\ outcome = "reading"
-----------------------------------------------------------------------------
(* The calendar of the chrono library.                                     *)

Leap(y) == y % 4 = 0 /\ (y % 100 # 0 \/ y % 400 = 0)
DaysIn(m, y) == CASE m \in {4, 6, 9, 11} -> 30
                  [] m = 2 -> IF Leap(y) THEN 29 ELSE 28
                  [] OTHER -> 31

\* NaiveDate::from_ymd and NaiveTime::from_hms panic on anything else.
DateExists(v) == v.month \in 1..12 /\ v.day \in 1..DaysIn(v.month, v.year)
TimeExists(v) == v.hour < 24 /\ v.minute < 60 /\ v.second < 60
-----------------------------------------------------------------------------
(* The text.                                                               *)

\* The decimal digits of n, as the server writes them.
Digits(n, len) == [i \in 1..len |-> (n \div 10^(len - i)) % 10]

Months == <<"Jan", "Feb", "Mar", "Apr", "May", "Jun",
            "Jul", "Aug", "Sep", "Oct", "Nov", "Dec">>

Written(f) == CASE f = "month" -> Months[value.month]
                [] f = "year" -> Digits(value.year, 4)
                [] OTHER -> Digits(value[f], 2)

Good == damage.at # at
Blank == Field = "day" /\ padding = "blank" /\ value.day < 10
-----------------------------------------------------------------------------
(* parse_date_1123.                                                        *)

\* Mutant: the digits are taken from the last to the first.
ParseReversed(s) ==
    LET running[i \in 0..Len(s)] ==
            IF i = 0 THEN 0 ELSE running[i - 1] + s[i] * 10^(i - 1)
    IN  running[Len(s)]

\* parse_digits: running += d * 10^(n - i - 1), for i from 0.
ParseDigits(s) ==
    LET running[i \in 0..Len(s)] ==
            IF i = 0 THEN 0 ELSE running[i - 1] + s[i] * 10^(Len(s) - i)
    IN  running[Len(s)]

\* parse_month: 1 for "Jan".
ParseMonth(s) == CHOOSE m \in 1..12 : Months[m] = s

End(how) == outcome' = how /\ UNCHANGED <<value, wkday, padding, damage, at, read>>
Advance == at' = at + 1 /\ UNCHANGED <<value, wkday, padding, damage>>

\* discard_char, discard_string: starts_with, so nothing panics.
Literal ==
    /\ Field \notin Numbers \cup {"wkday"}
    /\ IF Good THEN Advance /\ UNCHANGED <<read, outcome>> ELSE End("err")

\* parse_wkday: &s[3..] panics on less than three bytes or across a character;
\* any weekday will do, as it is not compared with the date.
Wkday ==
    /\ Field = "wkday"
    /\ CASE ~Good -> End("panic")
         [] Good /\ wkday \notin Weekdays -> End("err")
         [] Good /\ wkday \in Weekdays -> Advance /\ UNCHANGED <<read, outcome>>

\* parse_month slices like parse_wkday; parse_digit does so for every digit.
\* from_ymd is called before the time is read, from_hms after it.
Number ==
    LET n == IF Field = "month" THEN ParseMonth(Written(Field)) ELSE ParseDigits(Written(Field))
        now == [f \in DOMAIN read \cup {Field} |-> IF f = Field THEN n ELSE read[f]]
        exists == CASE Field = "year" -> DateExists(now)
                    [] Field = "second" -> TimeExists(now)
                    [] OTHER -> TRUE
    IN  /\ Field \in Numbers
        /\ CASE ~Good -> End(IF damage.how = "other" THEN "err" ELSE "panic")
             [] Good /\ Blank -> End("err")
             [] Good /\ ~Blank /\ ~exists -> End("panic")
             [] Good /\ ~Blank /\ exists ->
                    Advance /\ read' = now /\ UNCHANGED outcome

\* since.timestamp().try_into().unwrap(); what follows "GMT" is not looked at.
Use == End(IF read.year < 1970 THEN "panic" ELSE "date")

Next == /\ outcome = "reading"
        /\ \/ at <= Len(Layout) /\ (Literal \/ Wkday \/ Number)
           \/ at > Len(Layout) /\ Use
=============================================================================
