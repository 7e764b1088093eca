------------------------------- MODULE Config -------------------------------
(***************************************************************************)
(* Reading the configuration and starting: parse_server_config of          *)
(* config.rs, one line after the other, and what main.rs, pool.rs and      *)
(* Files::new do with the directives before the first request.             *)
(***************************************************************************)
EXTENDS Naturals, Sequences, FiniteSets, SequencesExt, FiniteSetsExt

CONSTANTS
    Texts,      \* the files: sequences of lines
    Models,     \* the concurrency models asked for
    None        \* no directive, no block

(***************************************************************************)
(* A line is [kind, field, value].  "directive": one of Fields and a value *)
(* behind a space, indented or not; "blank": nothing; "spaces": nothing    *)
(* but white space; "open" and "close": the tags of VirtualHost at the     *)
(* first column; "indented": a tag behind white space; "other": anything   *)
(* else, a comment or an unknown directive.                                *)
(***************************************************************************)
LineKinds == {"directive", "blank", "spaces", "open", "close", "indentedOpen",
              "indentedClose", "other"}
Fields == {"Listen", "CacheSize", "ThreadPoolSize", "DocumentRoot", "ServerName"}

\* "good" and "better" can be used; "bad" does not parse; "zero" is 0;
\* "huge" is a u32 that overflows when multiplied with 1024, and no port.
Values == {"good", "better", "bad", "zero", "huge"}

Lines == [kind : LineKinds, field : Fields \cup {""}, value : Values \cup {""}]
Directives == [Fields -> Values \cup {None}]

ASSUME TextsAssumption ==
    /\ Texts \subseteq Seq(Lines)
    /\ \A s \in Texts : \A i \in 1..Len(s) :
          s[i].kind = "directive" => s[i].field \in Fields /\ s[i].value \in Values
    /\ Models \subseteq {"single", "pool", "select"}
    /\ None \notin Directives \cup Values

VARIABLES
    text,         \* the lines of the file
    terminated,   \* the last line ends with a newline
    model,        \* the concurrency model chosen, None before
    at,           \* the line that `s` begins with
    directives,   \* of the server
    block,        \* directives of the block being read, None outside
    hosts,        \* virtual_hosts
    phase         \* "parse", "start", "serving", "idle", "refused", "panicked"
vars == <<text, terminated, model, at, directives, block, hosts, phase>>

Unset == [f \in Fields |-> None]

Init ==
    /\ text \in Texts
    /\ terminated \in BOOLEAN
    /\ ~terminated => text # <<>> /\ Last(text).kind # "blank"
    /\ model = None
    /\ at = 1
    /\ directives = Unset /\ block = None /\ hosts = <<>>
    /\ phase = "parse"
-----------------------------------------------------------------------------
(* parse_server_config.                                                    *)

Unread == at <= Len(text)
Kind == text[at].kind
Set(d) == [d EXCEPT ![text[at].field] = text[at].value]
NextLine == at' = at + 1 /\ UNCHANGED <<text, terminated, model, phase>>

\* split_once('\n') finds the end of the line.
Ended == at < Len(text) \/ terminated

\* Mutant: blank lines are passed over in blocks too.
BlankLineAnywhere == /\ Kind = "blank" /\ Ended
                     /\ NextLine
                     /\ UNCHANGED <<directives, block, hosts>>

BlankLine == /\ Kind = "blank" /\ Ended /\ block = None
             /\ NextLine
             /\ UNCHANGED <<directives, block, hosts>>

\* HashMap::insert: the last directive of a name stays.
Directive == /\ Kind = "directive" /\ Ended
             /\ IF block = None
                THEN directives' = Set(directives) /\ UNCHANGED block
                ELSE block' = Set(block) /\ UNCHANGED directives
             /\ NextLine
             /\ UNCHANGED hosts

Open == /\ Kind = "open" /\ Ended /\ block = None
        /\ block' = Unset
        /\ NextLine
        /\ UNCHANGED <<directives, hosts>>

\* Mutant: the directives of a host are found by the next one too.
CloseKeeps == /\ Kind = "close" /\ Ended /\ block # None
              /\ hosts' = Append(hosts, [f \in Fields |->
                     IF block[f] = None /\ hosts # <<>> THEN Last(hosts)[f] ELSE block[f]])
              /\ block' = None
              /\ NextLine
              /\ UNCHANGED directives

Close == /\ Kind = "close" /\ Ended /\ block # None
         /\ hosts' = Append(hosts, block)
         /\ block' = None
         /\ NextLine
         /\ UNCHANGED directives

Enter(p) == /\ phase' = p
            /\ UNCHANGED <<text, terminated, at, directives, block, hosts>>

\* What can be read at the beginning of `s`.
Known == BlankLine \/ Directive \/ Open \/ Close

\* Nothing of it: parse_server_config returns Err, whatever has been read.
Unparsable == \/ ~Ended
              \/ Kind \in {"blank", "open"} /\ block # None
              \/ Kind = "close" /\ block = None
              \/ Kind \notin {"directive", "blank", "open", "close"}

\* parse_close_block finds no line.
BlockOpen == block # None

Parse ==
    /\ phase = "parse"
    /\ \/ Unread /\ Known
       \/ Unread /\ Unparsable /\ Enter("refused") /\ UNCHANGED model
       \/ ~Unread /\ Enter(IF BlockOpen THEN "refused" ELSE "start") /\ UNCHANGED model
-----------------------------------------------------------------------------
(* Starting.                                                               *)

\* cache_size * BYTES_PER_KILOBYTE: what does not parse is 1024; overflow
\* panics in a debug build and wraps in a release build.
CachePanics == directives["CacheSize"] = "huge"

\* usize::from_str, 1 if there is no directive.
Workers == CASE directives["ThreadPoolSize"] = "zero" -> 0
             [] directives["ThreadPoolSize"] = None -> 1
             [] OTHER -> 8

PoolSizeBad == directives["ThreadPoolSize"] = "bad"

\* single: bind, then Host::new.
StartSingle ==
    /\ model' = "single"
    /\ Enter("serving") \/ (CachePanics /\ Enter("panicked"))

\* pool: a Host in every worker's thread; main goes on without them.
StartPool ==
    /\ model' = "pool"
    /\ IF PoolSizeBad THEN Enter("refused")
       ELSE \/ Workers > 0 /\ Enter("serving")
            \/ (Workers = 0 \/ CachePanics) /\ Enter("idle")

\* select: a Host for every connection.
StartSelect == model' = "select" /\ Enter("serving")

Start ==
    /\ phase = "start"
    /\ model' \in Models
    /\ IF directives["Listen"] \notin {"good", "better", "zero"}
       THEN Enter("refused")
       ELSE StartSingle \/ StartPool \/ StartSelect

Next == Parse \/ Start

-----------------------------------------------------------------------------
(* Properties.                                                             *)

\* A reference for the text: line i is in a block, and blocks are closed, not
\* nested, and hold nothing but directives.
Inside(i) == Cardinality({j \in 1..(i - 1) : text[j].kind = "open"})
                 > Cardinality({j \in 1..(i - 1) : text[j].kind = "close"})

WellFormed ==
    /\ \A i \in 1..Len(text) : text[i].kind \in
          IF Inside(i) THEN {"directive", "close"} ELSE {"directive", "blank", "open"}
    /\ ~Inside(Len(text) + 1)
    /\ terminated

\* The value the lines set, if they set any, give a field: the last one's.
LastOf(lines, f) ==
    LET set == {i \in lines : text[i].kind = "directive" /\ text[i].field = f}
    IN  IF set = {} THEN None ELSE text[Max(set)].value

BlockLines(i) == {j \in (i + 1)..Len(text) :
                     Inside(j) /\ \A k \in (i + 1)..j : text[k].kind # "open"}
OuterLines == {i \in 1..Len(text) : ~Inside(i)}

(* A file is read as a whole or refused as a whole, and it is read exactly *)
(* if its blocks are closed, hold nothing but directives, and every line   *)
(* ends in a newline (config.rs:43-106).                                   *)
ReadIffWellFormed ==
    /\ phase \notin {"parse", "refused"} => WellFormed
    /\ phase = "refused" => ~WellFormed \/ at > Len(text)

(* Every virtual host has the directives of its own block and the server   *)
(* those outside: none is lost, or taken over by the next block, and of    *)
(* two of a name the last one counts (config.rs:48-80).                    *)
DirectivesOfOwnBlock ==
    phase \in {"start", "serving", "idle"} =>
        /\ \A f \in Fields :
              directives[f] = LastOf(OuterLines, f)
        /\ Len(hosts) = Cardinality({i \in 1..Len(text) : text[i].kind = "open"})
        /\ \A i \in 1..Len(text) : text[i].kind = "open" =>
              LET n == Cardinality({j \in 1..i : text[j].kind = "open"})
              IN  \A f \in Fields : hosts[n][f] = LastOf(BlockLines(i), f)
=============================================================================
