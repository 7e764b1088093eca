----------------------------- MODULE CgiScript -----------------------------
(***************************************************************************)
(* One request handled by a script: Cgi::handle of cgi.rs, the script's    *)
(* process, and the two pipes of bounded size between them.  The server    *)
(* writes the whole body before it reads any output, and never waits for   *)
(* the process.                                                            *)
(*                                                                         *)
(* The output is a sequence of symbols: "field" a header line "Field: v"   *)
(* of a field ResponseHeaderField knows, "nl" a newline, "text" anything   *)
(* else without a colon, "byte" a byte that is not UTF-8.                  *)
(***************************************************************************)
EXTENDS Naturals, Sequences, SequencesExt, FiniteSetsExt

CONSTANTS
    Bodies,    \* request bodies, of "text" and "nl"
    Headers,   \* what scripts print before anything else
    Styles,    \* how scripts treat their input, a subset of AllStyles
    PipeSize,  \* symbols a pipe holds
    MayDie     \* scripts may be killed at any moment

(***************************************************************************)
(* "slurp" prints the header and its input, in upper case, once it has     *)
(* read all of it (www/cgi-bin/uppercase.pl); "filter" prints each symbol  *)
(* as it reads it; "ignore" never reads (www/cgi-bin/printenv.pl); "hang"  *)
(* neither reads nor prints nor ends.                                      *)
(***************************************************************************)
AllStyles == {"slurp", "filter", "ignore", "hang"}

Symbols == {"field", "nl", "text", "byte"}

ASSUME ConstantsAssumption ==
    /\ Bodies \subseteq Seq({"text", "nl"})
    /\ Headers \subseteq Seq(Symbols)
    /\ Styles \subseteq AllStyles
    /\ PipeSize \in Nat \ {0}
    /\ MayDie \in BOOLEAN

VARIABLES
    body,      \* request.body
    style,     \* of the script
    output,    \* what the script prints if it is left alone
    alive,     \* the script has not ended
    died,      \* it ended before its time
    taken,     \* symbols the script has read
    printed,   \* symbols the script has printed
    stdin,     \* symbols in the pipe to the script
    stdinOpen, \* the server's end of it is open
    stdout,    \* the pipe from the script
    pc,        \* where the server is
    left,      \* symbols of the body write_all has not written
    collected, \* the String `s`
    response   \* the body of the 200, once there is one
script == <<alive, died, taken, printed>>
choice == <<body, style, output>>
server == <<pc, left, collected, response>>
vars == <<choice, script, stdin, stdinOpen, stdout, server>>

NoResponse == <<"none">>

Init ==
    /\ body \in Bodies
    /\ style \in Styles
    /\ \E h \in Headers : output = IF style \in {"slurp", "filter"}
                                   THEN h \o body ELSE h \o <<"text">>
    /\ alive = FALSE /\ died = FALSE /\ taken = 0 /\ printed = 0
    /\ stdin = 0 /\ stdinOpen = TRUE /\ stdout = <<>>
    /\ pc = "spawn" /\ left = Len(body) /\ collected = <<>>
    /\ response = NoResponse
-----------------------------------------------------------------------------
(* The script.                                                             *)

Header == Len(output) - Len(body)
AtEnd == stdin = 0 /\ ~stdinOpen

\* The script may print its next symbol.
CanPrint ==
    /\ printed < Len(output)
    /\ CASE style = "ignore" -> TRUE
         [] style = "slurp" -> taken = Len(body) /\ AtEnd
         [] style = "filter" -> printed < Header + taken
         [] style = "hang" -> FALSE

ScriptReads ==
    /\ alive /\ style \in {"slurp", "filter"} /\ ~CanPrint
    /\ stdin > 0
    /\ stdin' = stdin - 1
    /\ taken' = taken + 1
    /\ UNCHANGED <<choice, alive, died, printed, stdinOpen, stdout, server>>

ScriptPrints ==
    /\ alive /\ CanPrint /\ Len(stdout) < PipeSize
    /\ stdout' = Append(stdout, output[printed + 1])
    /\ printed' = printed + 1
    /\ UNCHANGED <<choice, alive, died, taken, stdin, stdinOpen, server>>

ScriptEnds ==
    /\ alive /\ printed = Len(output)
    /\ style \in {"slurp", "filter"} => AtEnd
    /\ alive' = FALSE
    /\ UNCHANGED <<choice, died, taken, printed, stdin, stdinOpen, stdout, server>>

ScriptDies ==
    /\ MayDie /\ alive
    /\ alive' = FALSE /\ died' = TRUE
    /\ UNCHANGED <<choice, taken, printed, stdin, stdinOpen, stdout, server>>
-----------------------------------------------------------------------------
(* What the server makes of the output.                                    *)

\* The first blank line of s: its second newline, 0 if there is none.
Break(s) ==
    LET ends == {i \in 2..Len(s) : s[i - 1] = "nl" /\ s[i] = "nl"}
    IN  IF ends = {} THEN 0 ELSE Min(ends)

\* s.split("\n\n"): the first section, and what is behind the separator.
Section(s) == IF Break(s) = 0 THEN s ELSE SubSeq(s, 1, Break(s) - 2)
Behind(s) == IF Break(s) = 0 THEN <<>> ELSE SubSeq(s, Break(s) + 1, Len(s))

\* Every line of s begins with a field that ResponseHeaderField::from_str knows.
LinesAreFields(s) ==
    /\ s # <<>> /\ s[1] = "field" /\ Last(s) # "nl"
    /\ \A i \in 2..Len(s) : s[i - 1] = "nl" => s[i] = "field"

\* Mutant: the third section.
SecondBehind(s) == Section(Behind(Behind(s)))

\* sections.next() a second time.
BodySection(s) == Section(Behind(s))
-----------------------------------------------------------------------------
(* The server.                                                             *)

\* ListenPort or ServerName is missing, or spawn returns Err.
SpawnFails ==
    /\ pc = "spawn"
    /\ pc' = "error"
    /\ UNCHANGED <<choice, script, stdin, stdinOpen, stdout, left, collected, response>>

Spawn ==
    /\ pc = "spawn"
    /\ pc' = "write"
    /\ alive' = TRUE
    /\ UNCHANGED <<choice, died, taken, printed, stdin, stdinOpen, stdout,
                   left, collected, response>>

\* write_all blocks while the pipe is full.
WriteBody ==
    /\ pc = "write" /\ left > 0 /\ alive /\ stdin < PipeSize
    /\ stdin' = stdin + 1
    /\ left' = left - 1
    /\ UNCHANGED <<choice, script, stdinOpen, stdout, pc, collected, response>>

\* Mutant: the output is read as soon as write_all would block.
WriteFailsWhenFull ==
    /\ pc = "write" /\ left > 0
    /\ ~alive \/ stdin = PipeSize
    /\ pc' = "error"
    /\ UNCHANGED <<choice, script, stdin, stdinOpen, stdout, left, collected, response>>

\* Nobody reads the pipe any more: write_all returns Err (EPIPE).
WriteFails ==
    /\ pc = "write" /\ left > 0 /\ ~alive
    /\ pc' = "error"
    /\ UNCHANGED <<choice, script, stdin, stdinOpen, stdout, left, collected, response>>

\* Mutant: the script's stdin is kept in `child` while its output is read.
EndOfBodyKept ==
    /\ pc = "write" /\ left = 0
    /\ pc' = "read"
    /\ UNCHANGED <<choice, script, stdin, stdinOpen, stdout, left, collected, response>>

\* The body is written and the ChildStdin dropped.
EndOfBody ==
    /\ pc = "write" /\ left = 0
    /\ stdinOpen' = FALSE
    /\ pc' = "read"
    /\ UNCHANGED <<choice, script, stdin, stdout, left, collected, response>>

\* read_to_string takes what is in the pipe.
ReadOutput ==
    /\ pc = "read" /\ stdout # <<>>
    /\ collected' = collected \o stdout
    /\ stdout' = <<>>
    /\ UNCHANGED <<choice, script, stdin, stdinOpen, pc, left, response>>

\* The end of the output: it is parsed, whatever the script's exit status is.
EndOfOutput ==
    /\ pc = "read" /\ stdout = <<>> /\ ~alive
    /\ IF Contains(collected, "byte") \/ ~LinesAreFields(Section(collected))
       THEN pc' = "error" /\ UNCHANGED response
       ELSE pc' = "ok" /\ response' = BodySection(collected)
    /\ UNCHANGED <<choice, script, stdin, stdinOpen, stdout, left, collected>>

Server == SpawnFails \/ Spawn \/ WriteBody \/ WriteFails \/ EndOfBody
          \/ ReadOutput \/ EndOfOutput
Script == ScriptReads \/ ScriptPrints \/ ScriptEnds

-----------------------------------------------------------------------------
(* Properties.                                                             *)

Done == pc \in {"ok", "error"}

\* The script ends if left alone, and the pipes hold what server and script
\* have written when neither has read all it should.
PipesSuffice ==
    CASE style = "slurp" -> TRUE
      [] style = "filter" -> Len(body) <= PipeSize \/ Len(output) <= 2 * PipeSize + 1
      [] style = "ignore" -> Len(body) <= PipeSize \/ Len(output) <= PipeSize
      [] style = "hang" -> FALSE

(* A script that prints as it reads a body that does not fit in the two    *)
(* pipes, and one that does not read, for a body and an output that each   *)
(* fill a pipe, are never answered: no timeout and no error ends the wait, *)
(* unless the script is killed or was never started (cgi.rs:43-60).        *)
StallsWhenPipesFull ==
    ~PipesSuffice /\ ~died /\ Done =>
        pc = "error" /\ printed = 0 /\ left = Len(body) /\ stdinOpen

\* A reference for a text: the lines before its first blank one all begin
\* with a field, and there is one.
GoodHeader(s) == \E n \in 1..(Len(s) - 1) :
    /\ s[n] = "nl" /\ s[n + 1] = "nl"
    /\ \A i \in 1..n : i = 1 \/ s[i - 1] = "nl" => s[i] = "field"

NoBlankLine(s) == \A i \in 2..Len(s) : s[i - 1] # "nl" \/ s[i] # "nl"

(* A script that was started, reads its input, is not killed and prints a  *)
(* header and text is never answered "500": the pipes break only on a      *)
(* script that ends with its input unread (cgi.rs:43-53).                  *)
GoodScriptAnswered ==
    pc = "error" => \/ ~GoodHeader(output) \/ Contains(output, "byte")
                    \/ died
                    \/ style = "ignore" /\ left > 0
                    \/ left = Len(body) /\ stdinOpen

\* What the script printed.
PrintedText == SubSeq(output, 1, printed)

(* The body of a 200 is all the script printed behind its header, up to    *)
(* the next blank line; output without a blank line is answered with no    *)
(* body.  That holds for a killed script as well: what it printed up to    *)
(* its end is taken for the whole, and nothing but a kill can cut it       *)
(* (cgi.rs:55-60, 85-108).                                                 *)
AnswerIsOutput ==
    LET out == PrintedText
        printedBody == IF NoBlankLine(out) THEN <<>>
                       ELSE SubSeq(out, Break(out) + 1, Len(out))
    IN  pc = "ok" =>
            /\ printed < Len(output) => died
            /\ GoodHeader(out) \/ NoBlankLine(out)
            /\ IsPrefix(response, printedBody)
            /\ \/ response = printedBody
               \/ IsPrefix(response \o <<"nl", "nl">>, printedBody)
=============================================================================
