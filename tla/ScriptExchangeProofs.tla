------------------------ MODULE ScriptExchangeProofs ------------------------
(***************************************************************************)
(* Proofs about the exchange between server, script and client             *)
(* (ScriptExchange), for bodies, outputs, pipes and chunks of any size.    *)
(* The first invariant counts symbols: what of the body is where, what of  *)
(* the output is where, and how far a script of each style can be ahead.   *)
(* The second counts items of the response: what is read, on its way and   *)
(* unsent, and where in it the client is.                                  *)
(***************************************************************************)
EXTENDS ScriptExchange, SequenceTheorems, WellFoundedInduction, TLAPS

Reads == style \in {"slurp", "filter"}

HandlerTyped ==
    /\ body \in Seq({"text", "nl"}) /\ style \in AllStyles /\ output \in Seq(Symbols)
    /\ alive \in BOOLEAN /\ died \in BOOLEAN /\ stdinOpen \in BOOLEAN
    /\ taken \in Nat /\ printed \in Nat /\ stdin \in Nat /\ left \in Nat
    /\ stdout \in Seq(Symbols) /\ collected \in Seq(Symbols)
    /\ pc \in {"spawn", "write", "read", "ok", "error"}

OutputOfStyle == /\ Reads => Len(output) >= Len(body)
                 /\ style = "hang" => Len(output) >= 1

(* Every symbol of the body is in one place, and so is every one printed.  *)
Flow == /\ taken + stdin + left = Len(body)
        /\ stdin <= PipeSize /\ Len(stdout) <= PipeSize
        /\ printed <= Len(output)
        /\ collected \o stdout = SubSeq(output, 1, printed)

NotStarted == stdinOpen /\ printed = 0 /\ taken = 0 /\ stdin = 0 /\ left = Len(body)

(* The server writes first and reads then.                                 *)
WritesThenReads ==
    /\ pc = "spawn" => NotStarted /\ ~alive /\ ~died
    /\ pc = "write" => stdinOpen
    /\ pc \in {"read", "ok"} => ~stdinOpen
    /\ stdinOpen => collected = <<>>
    /\ ~stdinOpen => left = 0
    /\ Done => ~alive

(* How a script treats its input.                                          *)
StyleKept ==
    /\ ~Reads => taken = 0
    /\ style = "hang" => printed = 0
    /\ style = "filter" /\ taken >= 1 => printed >= Header + taken - 1

(* A script that is not killed ends when it has printed all, and one that  *)
(* reads its input not before the end of it.                               *)
EndsAtItsEnd ==
    ~alive /\ ~died /\ pc # "spawn" =>
        \/ pc = "error" /\ NotStarted
        \/ printed = Len(output) /\ (Reads => stdin = 0 /\ ~stdinOpen)

(* With the pipes full the server is never done writing.                   *)
StuckWriting == ~PipesSuffice /\ style # "hang" => stdinOpen

(* What the server made of the output is made of all that was printed.     *)
Parsed ==
    /\ pc = "error" /\ ~stdinOpen /\ ~died =>
          Contains(output, "byte") \/ ~LinesAreFields(Section(output))
    /\ pc = "error" /\ stdinOpen => NotStarted \/ left > 0
    /\ pc = "ok" => /\ LinesAreFields(Section(PrintedText))
                    /\ response = BodySection(PrintedText)

HandlerInv == /\ HandlerTyped /\ OutputOfStyle /\ Flow /\ WritesThenReads
              /\ StyleKept /\ EndsAtItsEnd /\ StuckWriting /\ Parsed

Handle == Server \/ Script \/ ScriptDies

(* The counts the invariant is about are numbers.                          *)
LEMMA Counts ==
    ASSUME HandlerTyped, Flow
    PROVE  /\ Len(body) \in Nat /\ Len(output) \in Nat
           /\ Len(stdout) \in Nat /\ Len(collected) \in Nat
           /\ SubSeq(output, 1, printed) \in Seq(Symbols)
           /\ Len(SubSeq(output, 1, printed)) = printed
           /\ Len(collected) + Len(stdout) = printed
<1>1. /\ Len(body) \in Nat /\ Len(output) \in Nat
      /\ Len(stdout) \in Nat /\ Len(collected) \in Nat
  BY LenProperties DEF HandlerTyped
<1>2. \A i \in 1..printed : output[i] \in Symbols
  BY <1>1, ElementOfSeq DEF HandlerTyped, Flow
<1>3. /\ SubSeq(output, 1, printed) \in Seq(Symbols)
      /\ Len(SubSeq(output, 1, printed)) = IF 1 <= printed THEN printed - 1 + 1 ELSE 0
  BY <1>1, <1>2, SubSeqProperties DEF HandlerTyped
<1>4. Len(collected \o stdout) = Len(collected) + Len(stdout)
  BY ConcatProperties DEF HandlerTyped
<1> QED BY <1>1, <1>3, <1>4 DEF Flow, HandlerTyped

(* The script reads a symbol of its input.                                 *)
LEMMA ReadsKept == ASSUME HandlerInv, ScriptReads PROVE HandlerInv'
<1>1. /\ alive /\ Reads /\ ~CanPrint /\ stdin > 0
      /\ stdin' = stdin - 1 /\ taken' = taken + 1
      /\ UNCHANGED <<choice, alive, died, printed, stdinOpen, stdout, server>>
  BY DEF ScriptReads, Reads
<1>2. /\ HandlerTyped /\ Flow
      /\ Len(body) \in Nat /\ Len(output) \in Nat /\ Len(stdout) \in Nat
  BY Counts DEF HandlerInv
<1>3. HandlerTyped'
  BY <1>1, <1>2 DEF HandlerTyped, choice, server
<1>4. OutputOfStyle' /\ Flow'
  <2>1. OutputOfStyle'
    BY <1>1 DEF HandlerInv, OutputOfStyle, Reads, choice, server
  <2>2. (taken + stdin + left = Len(body))' /\ (stdin <= PipeSize)'
    <3>1. taken \in Nat /\ stdin \in Nat /\ left \in Nat /\ PipeSize \in Nat
          /\ taken + stdin + left = Len(body) /\ stdin <= PipeSize
      BY <1>2, ConstantsAssumption DEF HandlerTyped, Flow
    <3>2. body' = body /\ left' = left
      BY <1>1 DEF choice, server
    <3> QED BY <1>1, <3>1, <3>2
  <2>3. /\ (Len(stdout) <= PipeSize)' /\ (printed <= Len(output))'
        /\ (collected \o stdout = SubSeq(output, 1, printed))'
    BY <1>1, <1>2 DEF Flow, choice, server
  <2> QED BY <2>1, <2>2, <2>3 DEF Flow
<1>5. WritesThenReads' /\ EndsAtItsEnd' /\ StuckWriting' /\ Parsed'
  BY <1>1
  DEF HandlerInv, WritesThenReads, EndsAtItsEnd, StuckWriting, PrintedText, Parsed, PipesSuffice,
      NotStarted, Reads, Done, choice, server
<1>6. StyleKept'
  <2>1. style = "filter" => printed >= Header + taken
    BY <1>1, <1>2 DEF CanPrint, Header, Flow, HandlerTyped, HandlerInv, OutputOfStyle, Reads
  <2> QED BY <1>1, <1>2, <2>1
          DEF HandlerInv, HandlerTyped, StyleKept, Reads, Header, choice
<1> QED BY <1>3, <1>4, <1>5, <1>6 DEF HandlerInv

(* The script prints a symbol.                                             *)
LEMMA PrintsKept == ASSUME HandlerInv, ScriptPrints PROVE HandlerInv'
<1>1. /\ alive /\ CanPrint /\ Len(stdout) < PipeSize /\ printed < Len(output)
      /\ stdout' = Append(stdout, output[printed + 1])
      /\ printed' = printed + 1
      /\ UNCHANGED <<choice, alive, died, taken, stdin, stdinOpen, server>>
  BY DEF ScriptPrints, CanPrint
<1>2. /\ HandlerTyped /\ Flow /\ printed \in Nat /\ Len(output) \in Nat
      /\ Len(body) \in Nat /\ Len(stdout) \in Nat /\ Len(collected) \in Nat
      /\ Len(collected) + Len(stdout) = printed
      /\ output \in Seq(Symbols) /\ stdout \in Seq(Symbols) /\ collected \in Seq(Symbols)
  BY Counts DEF HandlerInv, HandlerTyped
<1>3. printed + 1 \in 1..Len(output) /\ output[printed + 1] \in Symbols
  <2>1. printed + 1 \in 1..Len(output)
    BY <1>1, <1>2
  <2> QED BY <1>2, <2>1, ElementOfSeq
<1>4. HandlerTyped'
  BY <1>1, <1>2, <1>3, AppendProperties DEF HandlerTyped, choice, server
<1>5. collected \o stdout' = SubSeq(output, 1, printed + 1)
  <2>1. SubSeq(output, 1, printed + 1) = SubSeq(output, 1, printed) \o <<output[printed + 1]>>
    <3>1. 1 \in 1..Len(output) /\ printed + 1 \in 1..Len(output) /\ (printed + 1) - 1 = printed
      BY <1>2, <1>3
    <3> QED BY <1>2, <3>1, SubSeqRecursiveSecond
  <2>2. stdout' = stdout \o <<output[printed + 1]>>
    BY <1>1, <1>2, <1>3, AppendIsConcat
  <2>3. (collected \o stdout) \o <<output[printed + 1]>>
           = collected \o (stdout \o <<output[printed + 1]>>)
    <3>1. <<output[printed + 1]>> \in Seq(Symbols)
      BY <1>3
    <3>2. collected \in Seq(Symbols) /\ stdout \in Seq(Symbols)
      BY <1>2 DEF HandlerTyped
    <3> QED BY <3>1, <3>2, ConcatAssociative
  <2> QED BY <2>1, <2>2, <2>3 DEF HandlerInv, Flow
<1>6. OutputOfStyle' /\ Flow'
  <2>1. Len(stdout') = Len(stdout) + 1
    BY <1>1, <1>2, <1>3, AppendProperties
  <2>2. PipeSize \in Nat
    BY ConstantsAssumption
  <2> QED BY <1>1, <1>2, <1>5, <2>1, <2>2
          DEF HandlerInv, OutputOfStyle, Flow, Reads, choice, server
<1>7. pc # "spawn" /\ ~Done
  BY <1>1 DEF HandlerInv, WritesThenReads
<1>8. WritesThenReads' /\ EndsAtItsEnd' /\ StuckWriting' /\ Parsed'
  BY <1>1, <1>7
  DEF HandlerInv, WritesThenReads, EndsAtItsEnd, StuckWriting, PrintedText, Parsed, PipesSuffice,
      Done, choice, server
<1>9. StyleKept'
  <2>1. style # "hang"
    BY <1>1 DEF CanPrint
  <2>2. Header \in Int
    BY <1>2 DEF Header
  <2>3. Header' = Header /\ style' = style /\ Reads' = Reads
    BY <1>1 DEF Header, Reads, choice
  <2>4. taken' = taken /\ taken \in Nat
    BY <1>1, <1>2 DEF HandlerTyped
  <2> QED BY <1>1, <1>2, <2>1, <2>2, <2>3, <2>4 DEF HandlerInv, StyleKept
<1> QED BY <1>4, <1>6, <1>8, <1>9 DEF HandlerInv

(* The script ends by itself, or is killed.                                *)
LEMMA EndsKept == ASSUME HandlerInv, ScriptEnds \/ ScriptDies PROVE HandlerInv'
<1>1. /\ alive /\ alive' = FALSE /\ died' \in BOOLEAN
      /\ UNCHANGED <<choice, taken, printed, stdin, stdinOpen, stdout, server>>
  BY DEF ScriptEnds, ScriptDies, HandlerInv, HandlerTyped
<1>2. pc # "spawn" /\ ~Done
  BY <1>1 DEF HandlerInv, WritesThenReads
<1>3. HandlerTyped' /\ OutputOfStyle' /\ Flow' /\ StyleKept'
  BY <1>1
  DEF HandlerInv, HandlerTyped, OutputOfStyle, Flow, StyleKept, Reads, Header,
      choice, server
<1>4. WritesThenReads' /\ StuckWriting' /\ Parsed'
  BY <1>1, <1>2
  DEF HandlerInv, WritesThenReads, StuckWriting, PrintedText, Parsed, PipesSuffice, Done,
      choice, server
<1>5. EndsAtItsEnd'
  BY <1>1 DEF ScriptEnds, ScriptDies, EndsAtItsEnd, AtEnd, Reads, choice, HandlerInv
<1> QED BY <1>3, <1>4, <1>5 DEF HandlerInv

(* The script is started, or not.                                          *)
LEMMA SpawnKept == ASSUME HandlerInv, Spawn \/ SpawnFails PROVE HandlerInv'
<1>1. /\ pc = "spawn" /\ pc' \in {"write", "error"}
      /\ alive' \in BOOLEAN /\ (pc' = "write" <=> alive')
      /\ UNCHANGED <<choice, died, taken, printed, stdin, stdinOpen, stdout,
                     left, collected, response>>
  <2>1. CASE Spawn
    BY <2>1 DEF Spawn
  <2>2. CASE SpawnFails
    BY <2>2 DEF SpawnFails, script, HandlerInv, HandlerTyped, WritesThenReads
  <2> QED BY <2>1, <2>2
<1>2. NotStarted
  BY <1>1 DEF HandlerInv, WritesThenReads
<1>3. HandlerTyped' /\ OutputOfStyle' /\ Flow' /\ StyleKept'
  BY <1>1
  DEF HandlerInv, HandlerTyped, OutputOfStyle, Flow, StyleKept, Reads, Header, choice
<1>4. NotStarted' /\ stdinOpen' /\ collected' = <<>>
  BY <1>1, <1>2 DEF NotStarted, HandlerInv, WritesThenReads, choice
<1>5. WritesThenReads' /\ StuckWriting' /\ Parsed' /\ EndsAtItsEnd'
  BY <1>1, <1>4
  DEF WritesThenReads, StuckWriting, PrintedText, Parsed, EndsAtItsEnd, Done
<1> QED BY <1>3, <1>5 DEF HandlerInv

(* A symbol of the body is written.                                        *)
LEMMA WriteKept == ASSUME HandlerInv, WriteBody PROVE HandlerInv'
<1>1. /\ pc = "write" /\ left > 0 /\ alive /\ stdin < PipeSize
      /\ stdin' = stdin + 1 /\ left' = left - 1
      /\ UNCHANGED <<choice, script, stdinOpen, stdout, pc, collected, response>>
  BY DEF WriteBody
<1>2. /\ HandlerTyped /\ Flow /\ Len(body) \in Nat
  BY Counts DEF HandlerInv
<1>3. HandlerTyped' /\ OutputOfStyle' /\ StyleKept'
  BY <1>1
  DEF HandlerInv, HandlerTyped, OutputOfStyle, StyleKept, Reads, Header,
      choice, script
<1>4. Flow'
  <2>1. /\ taken + stdin + left = Len(body) /\ taken \in Nat /\ stdin \in Nat
        /\ left \in Nat /\ PipeSize \in Nat
    BY <1>2, ConstantsAssumption DEF HandlerTyped, Flow
  <2>2. taken + (stdin + 1) + (left - 1) = Len(body) /\ stdin + 1 <= PipeSize
    BY <1>1, <2>1
  <2> QED BY <1>1, <1>2, <2>2 DEF Flow, choice, script
<1>5. WritesThenReads' /\ StuckWriting' /\ Parsed' /\ EndsAtItsEnd'
  BY <1>1
  DEF HandlerInv, WritesThenReads, StuckWriting, PrintedText, Parsed, EndsAtItsEnd, PipesSuffice,
      Done, choice, script
<1> QED BY <1>3, <1>4, <1>5 DEF HandlerInv

(* The pipe is broken: the script has ended, and if by itself unread.      *)
LEMMA WriteFailsKept == ASSUME HandlerInv, WriteFails PROVE HandlerInv'
<1>1. /\ pc = "write" /\ left > 0 /\ ~alive /\ pc' = "error"
      /\ UNCHANGED <<choice, script, stdin, stdinOpen, stdout, left, collected, response>>
  BY DEF WriteFails
<1>2. HandlerTyped' /\ OutputOfStyle' /\ Flow' /\ StyleKept'
  BY <1>1
  DEF HandlerInv, HandlerTyped, OutputOfStyle, Flow, StyleKept, Reads, Header,
      choice, script
<1>3. WritesThenReads' /\ StuckWriting' /\ Parsed' /\ EndsAtItsEnd'
  BY <1>1
  DEF HandlerInv, WritesThenReads, StuckWriting, PrintedText, Parsed, EndsAtItsEnd, PipesSuffice,
      Reads, Done, choice, script
<1> QED BY <1>2, <1>3 DEF HandlerInv

(* The body is written: not while the pipes are full.                      *)
LEMMA EndOfBodyKeeps == ASSUME HandlerInv, EndOfBody PROVE HandlerInv'
<1>1. /\ pc = "write" /\ left = 0 /\ stdinOpen' = FALSE /\ pc' = "read" /\ stdinOpen
      /\ UNCHANGED <<choice, script, stdin, stdout, left, collected, response>>
  BY DEF EndOfBody, HandlerInv, WritesThenReads
<1>2. HandlerTyped' /\ OutputOfStyle' /\ Flow' /\ StyleKept'
  BY <1>1
  DEF HandlerInv, HandlerTyped, OutputOfStyle, Flow, StyleKept, Reads, Header,
      choice, script
<1>3. WritesThenReads' /\ Parsed' /\ EndsAtItsEnd'
  BY <1>1
  DEF HandlerInv, WritesThenReads, PrintedText, Parsed, EndsAtItsEnd, Reads, Done, choice, script
<1>4. StuckWriting'
  <2>1. PipesSuffice' <=> PipesSuffice
    BY <1>1 DEF PipesSuffice, choice
  <2> SUFFICES ASSUME ~PipesSuffice, style # "hang" PROVE FALSE
    BY <1>1, <2>1 DEF StuckWriting, choice
  <2>2. /\ taken \in Nat /\ stdin \in Nat /\ printed \in Nat /\ PipeSize \in Nat
        /\ taken + stdin = Len(body) /\ stdin <= PipeSize
        /\ Len(body) \in Nat /\ Len(output) \in Nat
    BY <1>1, Counts, ConstantsAssumption DEF HandlerInv, HandlerTyped, Flow
  <2>3. printed <= PipeSize
    <3>1. collected = <<>> /\ Len(collected) = 0
      BY <1>1, EmptySeq DEF HandlerInv, WritesThenReads
    <3> QED BY <2>2, <3>1, Counts DEF HandlerInv, Flow
  <2>4. style \in {"filter", "ignore"} /\ Len(body) > PipeSize
    <3>1. style \in AllStyles
      BY DEF HandlerInv, HandlerTyped
    <3>2. style # "slurp"
      BY DEF PipesSuffice
    <3>3. style \in {"filter", "ignore"}
      BY <3>1, <3>2 DEF AllStyles
    <3>4. ~(Len(body) <= PipeSize)
      BY <3>3 DEF PipesSuffice
    <3> QED BY <2>2, <3>3, <3>4
  <2>5. CASE style = "ignore"
    BY <2>2, <2>4, <2>5 DEF HandlerInv, StyleKept, Reads
  <2>6. CASE style = "filter"
    <3>1. taken >= 1
      BY <2>2, <2>4
    <3>2. printed >= Len(output) - Len(body) + taken - 1
      BY <2>6, <3>1 DEF HandlerInv, StyleKept, Header
    <3>3. Len(output) > 2 * PipeSize + 1
      BY <2>2, <2>6 DEF PipesSuffice
    <3> QED BY <2>2, <2>3, <3>2, <3>3
  <2> QED BY <2>4, <2>5, <2>6
<1> QED BY <1>2, <1>3, <1>4 DEF HandlerInv

(* What is in the pipe is read.                                            *)
LEMMA ReadKept == ASSUME HandlerInv, ReadOutput PROVE HandlerInv'
<1>1. /\ pc = "read" /\ collected' = collected \o stdout /\ stdout' = <<>>
      /\ UNCHANGED <<choice, script, stdin, stdinOpen, pc, left, response>>
  BY DEF ReadOutput
<1>2. /\ collected' \in Seq(Symbols) /\ stdout' \in Seq(Symbols)
      /\ Len(stdout') = 0 /\ collected' \o stdout' = collected'
  BY <1>1, ConcatProperties, ConcatEmptySeq, EmptySeq DEF HandlerInv, HandlerTyped
<1>3. HandlerTyped' /\ OutputOfStyle' /\ StyleKept'
  BY <1>1, <1>2
  DEF HandlerInv, HandlerTyped, OutputOfStyle, StyleKept, Reads, Header, choice, script
<1>4. Flow'
  BY <1>1, <1>2, ConstantsAssumption DEF HandlerInv, Flow, choice, script
<1>5. WritesThenReads' /\ StuckWriting' /\ Parsed' /\ EndsAtItsEnd'
  BY <1>1
  DEF HandlerInv, WritesThenReads, StuckWriting, PrintedText, Parsed, EndsAtItsEnd, PipesSuffice,
      Reads, Done, choice, script
<1> QED BY <1>3, <1>4, <1>5 DEF HandlerInv

(* The output is parsed: all of it, unless the script was killed.          *)
LEMMA EndOfOutputKeeps == ASSUME HandlerInv, EndOfOutput PROVE HandlerInv'
<1>1. /\ pc = "read" /\ stdout = <<>> /\ ~alive /\ pc' \in {"ok", "error"}
      /\ pc' = "error" => Contains(collected, "byte") \/ ~LinesAreFields(Section(collected))
      /\ pc' = "ok" => /\ LinesAreFields(Section(collected))
                       /\ response' = BodySection(collected)
      /\ UNCHANGED <<choice, script, stdin, stdinOpen, stdout, left, collected>>
  BY DEF EndOfOutput
<1>2. collected = PrintedText /\ (~died => collected = output)
  <2>1. collected \o stdout = collected
    BY <1>1, ConcatEmptySeq DEF HandlerInv, HandlerTyped
  <2>2. collected = PrintedText
    BY <2>1 DEF HandlerInv, Flow, PrintedText
  <2>3. ASSUME ~died PROVE collected = output
    <3>1. printed = Len(output)
      BY <1>1, <2>3 DEF HandlerInv, EndsAtItsEnd
    <3> QED BY <2>2, <3>1, SubSeqFull DEF HandlerInv, HandlerTyped, PrintedText
  <2> QED BY <2>2, <2>3
<1>3. HandlerTyped' /\ OutputOfStyle' /\ Flow' /\ StyleKept'
  BY <1>1
  DEF HandlerInv, HandlerTyped, OutputOfStyle, Flow, StyleKept, Reads, Header,
      choice, script
<1>4. WritesThenReads' /\ StuckWriting' /\ EndsAtItsEnd'
  BY <1>1
  DEF HandlerInv, WritesThenReads, StuckWriting, EndsAtItsEnd, PipesSuffice,
      NotStarted, Reads, Done, choice, script
<1>5. Parsed'
  <2>1. ~stdinOpen'
    BY <1>1 DEF HandlerInv, WritesThenReads
  <2>2. died' = died /\ output' = output /\ PrintedText' = PrintedText
    BY <1>1 DEF script, choice, PrintedText
  <2> QED BY <1>1, <1>2, <2>1, <2>2 DEF Parsed
<1> QED BY <1>3, <1>4, <1>5 DEF HandlerInv

(* Nothing has happened at the beginning.                                  *)
LEMMA HandlerStarts == ASSUME Init PROVE HandlerInv
<1>1. PICK h \in Headers : output = IF style \in {"slurp", "filter"}
                                    THEN h \o body ELSE h \o <<"text">>
  BY DEF Init
<1>2. /\ body \in Seq({"text", "nl"}) /\ body \in Seq(Symbols) /\ h \in Seq(Symbols)
      /\ <<"text">> \in Seq(Symbols) /\ Len(<<"text">>) = 1
  <2>1. body \in Seq({"text", "nl"}) /\ h \in Seq(Symbols)
    BY ConstantsAssumption DEF Init
  <2>2. body \in Seq(Symbols)
    BY <2>1, SeqMonotonic DEF Symbols
  <2> QED BY <2>1, <2>2 DEF Symbols
<1>3. /\ output \in Seq(Symbols) /\ Len(output) \in Nat /\ Len(body) \in Nat
      /\ OutputOfStyle
  BY <1>1, <1>2, ConcatProperties, LenProperties DEF OutputOfStyle, Reads
<1>4. /\ HandlerTyped
  BY <1>2, <1>3, ConstantsAssumption, EmptySeq DEF Init, HandlerTyped
<1>5. Flow
  <2>1. SubSeq(output, 1, 0) = <<>>
    BY SubSeqEmpty
  <2>2. \A s, t : s = <<>> /\ t = <<>> => s \o t = <<>> /\ Len(s) = 0
    BY ConcatEmptySeq, EmptySeq
  <2> QED BY <1>3, <2>1, <2>2, ConstantsAssumption DEF Init, Flow
<1>6. WritesThenReads /\ StyleKept /\ EndsAtItsEnd /\ StuckWriting /\ Parsed
  BY DEF Init, WritesThenReads, StyleKept, EndsAtItsEnd, StuckWriting, PrintedText, Parsed,
         NotStarted, Done
<1> QED BY <1>3, <1>4, <1>5, <1>6 DEF HandlerInv

(* Every step of server and script keeps the invariant, and so does what   *)
(* happens after: the response is sent, the handler's state stays.         *)
LEMMA HandlerAlways == ExchangeSpec => []HandlerInv
<1>1. ExchangeInit => HandlerInv
  BY HandlerStarts DEF ExchangeInit
<1>2. HandlerInv /\ [ExchangeNext]_exchange => HandlerInv'
  <2> SUFFICES ASSUME HandlerInv, [ExchangeNext]_exchange PROVE HandlerInv'
    OBVIOUS
  <2>1. CASE UNCHANGED vars
    BY <2>1
    DEF vars, choice, script, server, HandlerInv, HandlerTyped, OutputOfStyle, Flow,
        WritesThenReads, StyleKept, EndsAtItsEnd, StuckWriting, PrintedText, Parsed, PipesSuffice,
        NotStarted, Reads, Header, Done
  <2>2. CASE Handle
    BY <2>2, ReadsKept, PrintsKept, EndsKept, SpawnKept, WriteKept, WriteFailsKept,
       EndOfBodyKeeps, ReadKept, EndOfOutputKeeps
    DEF Handle, Server, Script
  <2> QED BY <2>1, <2>2
          DEF ExchangeNext, ServerThread, ScriptProcess, Client, Handle, ScriptHandled,
              OtherHandled, Write, Writing, exchange
<1> QED BY <1>1, <1>2, PTL DEF ExchangeSpec

(* Bodies and outputs of any length, pipes of any size: what does not fit  *)
(* is never answered, without a timeout and without an error (cgi.rs).     *)
THEOREM PipesStall == ExchangeSpec => []StallsWhenPipesFull
<1>1. HandlerInv => StallsWhenPipesFull
  <2> SUFFICES ASSUME HandlerInv, ~PipesSuffice, ~died, Done
               PROVE  pc = "error" /\ NotStarted
    BY DEF StallsWhenPipesFull, NotStarted
  <2> SUFFICES ASSUME printed = Len(output), Reads => stdin = 0 /\ ~stdinOpen
               PROVE  FALSE
    BY DEF HandlerInv, WritesThenReads, EndsAtItsEnd, Done
  <2>1. style \in AllStyles /\ PipeSize \in Nat /\ printed \in Nat
    BY ConstantsAssumption DEF HandlerInv, HandlerTyped
  <2>2. style # "hang"
    BY <2>1, Counts DEF HandlerInv, StyleKept, OutputOfStyle
  <2>3. style = "ignore"
    BY <2>1, <2>2 DEF HandlerInv, StuckWriting, Reads, AllStyles, PipesSuffice
  <2>4. ~(Len(output) <= PipeSize) /\ stdinOpen
    BY <2>3 DEF PipesSuffice, HandlerInv, StuckWriting
  <2>5. printed <= PipeSize
    <3>1. collected = <<>> /\ Len(collected) = 0
      BY <2>4, EmptySeq DEF HandlerInv, WritesThenReads
    <3> QED BY <2>1, <3>1, Counts DEF HandlerInv, Flow
  <2> QED BY <2>4, <2>5
<1> QED BY <1>1, HandlerAlways, PTL
-----------------------------------------------------------------------------
(* What the server makes of the output.                                    *)

(* Some natural number of a set is the least.                              *)
LEMMA LeastNatural ==
    ASSUME NEW S \in SUBSET Nat, S # {}
    PROVE  \E m \in S : \A n \in S : m <= n
<1> DEFINE Below == OpToRel(<, Nat)
<1>1. IsWellFoundedOn(Below, Nat)
  BY NatLessThanWellFounded
<1>2. \A m, n \in Nat : <<m, n>> \in Below <=> m < n
  BY DEF OpToRel
<1> HIDE DEF Below
<1>3. PICK m \in S : \A n \in S : ~(<<n, m>> \in Below)
  BY <1>1, WFMin
<1>4. ASSUME NEW n \in S PROVE m <= n
  <2>1. m \in Nat /\ n \in Nat
    OBVIOUS
  <2>2. ~(n < m)
    BY <1>2, <1>3, <2>1
  <2> QED BY <2>1, <2>2
<1> QED BY <1>4

BlankAt(s, i) == s[i - 1] = "nl" /\ s[i] = "nl"

(* Break finds the first blank line.                                       *)
LEMMA BreakIsFirst ==
    ASSUME NEW s \in Seq(Symbols)
    PROVE  \/ Break(s) = 0 /\ \A i \in 2..Len(s) : ~BlankAt(s, i)
           \/ /\ Break(s) \in 2..Len(s) /\ BlankAt(s, Break(s))
              /\ \A i \in 2..(Break(s) - 1) : ~BlankAt(s, i)
<1> DEFINE ends == {i \in 2..Len(s) : BlankAt(s, i)}
<1>1. Break(s) = IF ends = {} THEN 0 ELSE Min(ends)
  BY DEF Break, BlankAt
<1>2. Len(s) \in Nat
  BY LenProperties
<1>3. CASE ends = {}
  BY <1>1, <1>3
<1>4. CASE ends # {}
  <2>1. ends \in SUBSET Nat
    BY <1>2
  <2>2. Min(ends) \in ends /\ \A i \in ends : Min(ends) <= i
    <3> HIDE DEF ends
    <3> QED BY <1>4, <2>1, LeastNatural DEF Min
  <2>3. Break(s) \in 2..Len(s) /\ BlankAt(s, Break(s))
    BY <1>1, <1>4, <2>2
  <2>4. ASSUME NEW i \in 2..(Break(s) - 1), BlankAt(s, i) PROVE FALSE
    <3>1. i \in ends
      BY <1>2, <2>3, <2>4
    <3> QED BY <1>1, <1>4, <2>2, <2>3, <3>1
  <2> QED BY <2>3, <2>4
<1> QED BY <1>3, <1>4

(* A section is the beginning of the text, all of it or up to two newlines.*)
LEMMA SectionBegins ==
    ASSUME NEW s \in Seq(Symbols)
    PROVE  /\ Section(s) \in Seq(Symbols) /\ Behind(s) \in Seq(Symbols)
           /\ IsPrefix(Section(s), s)
           /\ Section(s) = s \/ IsPrefix(Section(s) \o <<"nl", "nl">>, s)
<1>1. /\ Len(s) \in Nat /\ \A i \in 1..Len(s) : s[i] \in Symbols
      /\ SubSeq(s, 1, Len(s)) = s /\ <<>> \in Seq(Symbols)
  BY LenProperties, ElementOfSeq, SubSeqFull, EmptySeq
<1>2. CASE Break(s) = 0
  BY <1>1, <1>2 DEF Section, Behind, IsPrefix
<1>3. CASE Break(s) # 0
  <2> DEFINE b == Break(s)
             t == SubSeq(s, 1, b - 2)
  <2>1. b \in 2..Len(s) /\ s[b - 1] = "nl" /\ s[b] = "nl"
    BY <1>3, BreakIsFirst DEF BlankAt
  <2>2. /\ Section(s) = t /\ Behind(s) = SubSeq(s, b + 1, Len(s))
    BY <1>3 DEF Section, Behind
  <2> HIDE DEF b
  <2>3. /\ t \in Seq(Symbols) /\ Len(t) = b - 2 /\ b - 2 \in Nat /\ b - 2 <= Len(s)
        /\ \A i \in 1..(b - 2) : t[i] = s[i]
    <3>1. /\ t \in Seq(Symbols)
          /\ Len(t) = IF 1 <= b - 2 THEN (b - 2) - 1 + 1 ELSE 0
          /\ \A i \in 1..((b - 2) - 1 + 1) : t[i] = s[1 + i - 1]
      <4>1. \A i \in 1..(b - 2) : s[i] \in Symbols
        BY <1>1, <2>1
      <4> QED BY <2>1, <4>1, SubSeqProperties
    <3> QED BY <1>1, <2>1, <3>1
  <2>4. Behind(s) \in Seq(Symbols)
    <3>1. \A i \in (b + 1)..Len(s) : s[i] \in Symbols
      BY <1>1, <2>1
    <3> QED BY <1>1, <2>1, <2>2, <3>1, SubSeqProperties
  <2> HIDE DEF t
  <2>5. IsPrefix(t, s)
    <3>1. SubSeq(t, 1, Len(t)) = t /\ SubSeq(s, 1, Len(t)) = t
      BY <2>3, SubSeqFull DEF t
    <3> QED BY <2>3, <3>1 DEF IsPrefix
  <2>6. IsPrefix(t \o <<"nl", "nl">>, s)
    <3> DEFINE u == t \o <<"nl", "nl">>
    <3>1. /\ u \in Seq(Symbols) /\ Len(u) = b
          /\ \A i \in 1..b : u[i] = IF i <= b - 2 THEN t[i] ELSE "nl"
      <4>1. /\ <<"nl", "nl">> \in Seq(Symbols) /\ Len(<<"nl", "nl">>) = 2
            /\ <<"nl", "nl">>[1] = "nl" /\ <<"nl", "nl">>[2] = "nl"
        BY DEF Symbols
      <4>2. /\ u \in Seq(Symbols) /\ Len(u) = Len(t) + 2
            /\ \A i \in 1..(Len(t) + 2) :
                  u[i] = IF i <= Len(t) THEN t[i] ELSE <<"nl", "nl">>[i - Len(t)]
        BY <2>3, <4>1, ConcatProperties
      <4> HIDE DEF u
      <4>3. ASSUME NEW i \in 1..b, ~(i <= b - 2) PROVE u[i] = "nl"
        <5>1. u[i] = <<"nl", "nl">>[i - (b - 2)]
          BY <1>1, <2>1, <2>3, <4>2, <4>3
        <5>2. i - (b - 2) = 1 \/ i - (b - 2) = 2
          BY <2>1, <4>3
        <5> QED BY <4>1, <5>1, <5>2
      <4>4. ASSUME NEW i \in 1..b, i <= b - 2 PROVE u[i] = t[i]
        BY <1>1, <2>1, <2>3, <4>2, <4>4
      <4> QED BY <1>1, <2>1, <2>3, <4>2, <4>3, <4>4
    <3>2. /\ SubSeq(s, 1, b) \in Seq(Symbols) /\ Len(SubSeq(s, 1, b)) = b
          /\ \A i \in 1..b : SubSeq(s, 1, b)[i] = s[i]
      <4>1. \A i \in 1..b : s[i] \in Symbols
        BY <1>1, <2>1
      <4>2. /\ SubSeq(s, 1, b) \in Seq(Symbols)
            /\ Len(SubSeq(s, 1, b)) = IF 1 <= b THEN b - 1 + 1 ELSE 0
            /\ \A i \in 1..(b - 1 + 1) : SubSeq(s, 1, b)[i] = s[1 + i - 1]
        BY <2>1, <4>1, SubSeqProperties
      <4> QED BY <1>1, <2>1, <4>2
    <3> HIDE DEF u
    <3>3. \A i \in 1..b : u[i] = SubSeq(s, 1, b)[i]
      <4>1. \A i \in 1..b : i <= b - 2 \/ i = b - 1 \/ i = b
        BY <2>1
      <4> QED BY <2>1, <2>3, <3>1, <3>2, <4>1
    <3>4. u = SubSeq(s, 1, b)
      BY <3>1, <3>2, <3>3, SeqEqual
    <3>5. SubSeq(u, 1, Len(u)) = u
      BY <3>1, SubSeqFull
    <3> QED BY <1>1, <2>1, <3>1, <3>4, <3>5 DEF IsPrefix, u
  <2> QED BY <2>2, <2>3, <2>4, <2>5, <2>6
<1> QED BY <1>2, <1>3

(* The sections of a text tell whether its header is good: that every line *)
(* of the first one begins with a field says the same of the text.         *)
LEMMA SectionsShowHeader ==
    ASSUME NEW s \in Seq(Symbols)
    PROVE  /\ NoBlankLine(s) <=> Break(s) = 0
           /\ GoodHeader(s) => LinesAreFields(Section(s))
           /\ LinesAreFields(Section(s)) => GoodHeader(s) \/ NoBlankLine(s)
<1> DEFINE b == Break(s)
           t == Section(s)
<1>1. Len(s) \in Nat /\ \A i \in 1..Len(s) : s[i] \in Symbols
  BY LenProperties, ElementOfSeq
<1>2. NoBlankLine(s) <=> b = 0
  BY BreakIsFirst DEF NoBlankLine, BlankAt
<1>3. ASSUME b # 0
      PROVE  /\ b \in 2..Len(s) /\ BlankAt(s, b)
             /\ \A i \in 2..(b - 1) : ~BlankAt(s, i)
             /\ t \in Seq(Symbols) /\ Len(t) = b - 2
             /\ \A i \in 1..(b - 2) : t[i] = s[i]
  <2>1. /\ b \in 2..Len(s) /\ BlankAt(s, b)
        /\ \A i \in 2..(b - 1) : ~BlankAt(s, i)
    BY <1>3, BreakIsFirst
  <2>2. t = SubSeq(s, 1, b - 2)
    BY <1>3 DEF Section
  <2> HIDE DEF b, t
  <2>3. \A i \in 1..(b - 2) : s[i] \in Symbols
    BY <1>1, <2>1
  <2>4. /\ t \in Seq(Symbols) /\ Len(t) = IF 1 <= b - 2 THEN (b - 2) - 1 + 1 ELSE 0
        /\ \A i \in 1..((b - 2) - 1 + 1) : t[i] = s[1 + i - 1]
    BY <2>1, <2>2, <2>3, SubSeqProperties
  <2> QED BY <1>1, <2>1, <2>4
<1> HIDE DEF b, t
<1>4. GoodHeader(s) => LinesAreFields(t)
  <2> SUFFICES ASSUME NEW n \in 1..(Len(s) - 1),
                      s[n] = "nl" /\ s[n + 1] = "nl",
                      \A i \in 1..n : i = 1 \/ s[i - 1] = "nl" => s[i] = "field"
               PROVE  LinesAreFields(t)
    BY DEF GoodHeader
  <2>1. n \in Nat /\ n + 1 \in 2..Len(s) /\ s[(n + 1) - 1] = "nl"
    BY <1>1
  <2>2. b # 0
    BY <1>2, <2>1 DEF NoBlankLine
  <2>3. b = n + 1
    <3>1. ~(b > n + 1)
      <4>1. b > n + 1 => n + 1 \in 2..(b - 1)
        BY <1>3, <2>1, <2>2
      <4> QED BY <1>3, <2>1, <2>2, <4>1 DEF BlankAt
    <3>2. ~(b < n + 1)
      <4>1. b < n + 1 => b \in 1..n /\ b # 1
        BY <1>3, <2>1, <2>2
      <4> QED BY <1>3, <2>2, <4>1 DEF BlankAt
    <3> QED BY <1>3, <2>1, <2>2, <3>1, <3>2
  <2>4. n >= 2
    <3>1. n # 1
      <4>1. 1 \in 1..n
        BY <2>1
      <4> QED BY <4>1
    <3> QED BY <2>1, <3>1
  <2>5. t \in Seq(Symbols) /\ Len(t) = n - 1 /\ \A i \in 1..(n - 1) : t[i] = s[i]
    BY <1>3, <2>1, <2>2, <2>3
  <2>6. t # <<>> /\ t[1] = "field"
    BY <2>1, <2>4, <2>5, EmptySeq
  <2>7. Last(t) # "nl"
    <3>1. Last(t) = s[n - 1] /\ n \in 1..n /\ n # 1
      BY <2>1, <2>4, <2>5 DEF Last
    <3> QED BY <3>1
  <2>8. ASSUME NEW i \in 2..Len(t), t[i - 1] = "nl" PROVE t[i] = "field"
    <3>1. i \in 1..n /\ i # 1 /\ t[i] = s[i] /\ t[i - 1] = s[i - 1]
      BY <2>1, <2>4, <2>5
    <3> QED BY <2>8, <3>1
  <2> QED BY <2>6, <2>7, <2>8 DEF LinesAreFields
<1>5. ASSUME LinesAreFields(t), b # 0 PROVE GoodHeader(s)
  <2> DEFINE n == b - 1
  <2>1. /\ t # <<>> /\ t[1] = "field" /\ Last(t) # "nl"
        /\ \A i \in 2..Len(t) : t[i - 1] = "nl" => t[i] = "field"
    BY <1>5 DEF LinesAreFields
  <2>2. Len(t) \in Nat \ {0}
    BY <1>3, <1>5, <2>1, EmptySeq
  <2>3. n \in 1..(Len(s) - 1) /\ s[n] = "nl" /\ s[n + 1] = "nl" /\ n >= 2
    BY <1>1, <1>3, <1>5, <2>2 DEF BlankAt
  <2>4. ASSUME NEW i \in 1..n, i = 1 \/ s[i - 1] = "nl"
        PROVE  s[i] = "field"
    <3>1. CASE i = 1
      BY <1>3, <1>5, <2>1, <2>2, <3>1
    <3>2. CASE i \in 2..(n - 1)
      <4>1. i \in 2..Len(t) /\ t[i - 1] = s[i - 1] /\ t[i] = s[i]
        BY <1>3, <1>5, <3>2
      <4>2. s[i - 1] = "nl"
        BY <2>4, <3>2
      <4> QED BY <2>1, <4>1, <4>2
    <3>3. i # n \/ n = 1
      <4>1. Last(t) = s[n - 1]
        BY <1>3, <1>5, <2>2 DEF Last
      <4> QED BY <2>1, <2>3, <2>4, <4>1
    <3> QED BY <2>3, <3>1, <3>2, <3>3
  <2> QED BY <2>3, <2>4 DEF GoodHeader
<1> QED BY <1>2, <1>4, <1>5 DEF b, t

(* Scripts that read their input and print a header in fields are never    *)
(* answered "500" for their output, whatever its length (Cgi::handle).     *)
THEOREM GoodScripts == ExchangeSpec => []GoodScriptAnswered
<1>1. HandlerInv => GoodScriptAnswered
  <2> SUFFICES ASSUME HandlerInv, pc = "error", GoodHeader(output), ~Contains(output, "byte"),
                      ~died, ~NotStarted
               PROVE  style = "ignore" /\ left > 0
    BY DEF GoodScriptAnswered, HandlerInv, HandlerTyped, Flow, WritesThenReads,
           NotStarted, Parsed
  <2>1. LinesAreFields(Section(output))
    BY SectionsShowHeader DEF HandlerInv, HandlerTyped
  <2>2. stdinOpen /\ left > 0
    BY <2>1 DEF HandlerInv, Parsed
  <2>3. printed = Len(output) /\ (Reads => stdin = 0 /\ ~stdinOpen)
    BY DEF HandlerInv, EndsAtItsEnd, WritesThenReads, Done
  <2>4. ~Reads /\ style # "hang"
    BY <2>2, <2>3, Counts DEF HandlerInv, OutputOfStyle, StyleKept
  <2> QED BY <2>2, <2>4 DEF Reads, HandlerInv, HandlerTyped, AllStyles
<1> QED BY <1>1, HandlerAlways, PTL

(* The body of an answer is what the script printed behind its header, up  *)
(* to the next blank line, for output of any length, cut where a kill cut  *)
(* it and nowhere else (process_cgi_output).                               *)
THEOREM AnswersAreOutput == ExchangeSpec => []AnswerIsOutput
<1>1. HandlerInv => AnswerIsOutput
  <2> SUFFICES ASSUME HandlerInv, pc = "ok" PROVE AnswerIsOutput
    BY DEF AnswerIsOutput
  <2> DEFINE out == PrintedText
             rest == Behind(out)
  <2>1. /\ out \in Seq(Symbols) /\ LinesAreFields(Section(out))
        /\ response = Section(rest)
    BY Counts DEF HandlerInv, Parsed, BodySection, PrintedText
  <2>2. printed < Len(output) => died
    BY Counts DEF HandlerInv, HandlerTyped, WritesThenReads, EndsAtItsEnd, Done
  <2> HIDE DEF out
  <2>3. GoodHeader(out) \/ NoBlankLine(out)
    BY <2>1, SectionsShowHeader
  <2>4. rest = IF NoBlankLine(out) THEN <<>>
               ELSE SubSeq(out, Break(out) + 1, Len(out))
    BY <2>1, SectionsShowHeader DEF Behind
  <2>5. rest \in Seq(Symbols)
    BY <2>1, SectionBegins
  <2> HIDE DEF rest
  <2>6. /\ IsPrefix(response, rest)
        /\ response = rest \/ IsPrefix(response \o <<"nl", "nl">>, rest)
    BY <2>1, <2>5, SectionBegins
  <2> QED BY <2>2, <2>3, <2>4, <2>6 DEF AnswerIsOutput, out
<1> QED BY <1>1, HandlerAlways, PTL
-----------------------------------------------------------------------------
(* How a response is laid out.                                             *)

(* What is in front, and what is behind, in a concatenation.               *)
LEMMA FrontItem ==
    ASSUME NEW S, NEW s \in Seq(S), NEW t \in Seq(S), NEW i \in 1..Len(s)
    PROVE  (s \o t)[i] = s[i]
<1>1. Len(s) \in Nat /\ Len(t) \in Nat
  BY LenProperties
<1>2. i \in 1..(Len(s) + Len(t)) /\ i <= Len(s)
  BY <1>1
<1> QED BY <1>2, ConcatProperties

(* ... and behind.                                                         *)
LEMMA BackItem ==
    ASSUME NEW S, NEW s \in Seq(S), NEW t \in Seq(S), NEW i \in 1..Len(t)
    PROVE  (s \o t)[Len(s) + i] = t[i]
<1>1. Len(s) \in Nat /\ Len(t) \in Nat
  BY LenProperties
<1>2. /\ Len(s) + i \in 1..(Len(s) + Len(t))
      /\ ~(Len(s) + i <= Len(s)) /\ (Len(s) + i) - Len(s) = i
  BY <1>1
<1> QED BY <1>2, ConcatProperties

(* What is concatenated grows from one piece to the next.                  *)
Grows(pre, s) == /\ pre[0] = <<>>
                 /\ \A i \in 1..Len(s) : pre[i] = pre[i - 1] \o s[i]

(* There are such beginnings.                                              *)
LEMMA PrefixesExist ==
    ASSUME NEW S, NEW s \in Seq(Seq(S))
    PROVE  \E pre \in [0..Len(s) -> Seq(S)] : Grows(pre, s)
<1> DEFINE Upto(n) == \E pre \in [0..n -> Seq(S)] :
                          /\ pre[0] = <<>>
                          /\ \A i \in 1..n : pre[i] = pre[i - 1] \o s[i]
           bad == {n \in 0..Len(s) : ~Upto(n)}
<1>1. Len(s) \in Nat /\ \A i \in 1..Len(s) : s[i] \in Seq(S)
  BY LenProperties, ElementOfSeq
<1>2. Upto(0)
  <2> DEFINE none == [i \in 0..0 |-> <<>>]
  <2>1. none \in [0..0 -> Seq(S)] /\ none[0] = <<>> /\ 1..0 = {}
    BY EmptySeq
  <2> HIDE DEF none
  <2> QED BY <2>1
<1>3. ASSUME NEW n \in 1..Len(s), Upto(n - 1) PROVE Upto(n)
  <2>1. PICK pre \in [0..(n - 1) -> Seq(S)] :
           /\ pre[0] = <<>>
           /\ \A i \in 1..(n - 1) : pre[i] = pre[i - 1] \o s[i]
    BY <1>3
  <2> DEFINE more == [i \in 0..n |-> IF i = n THEN pre[n - 1] \o s[n] ELSE pre[i]]
  <2>2. n \in Nat \ {0} /\ n - 1 \in 0..(n - 1)
    BY <1>1
  <2>3. pre[n - 1] \o s[n] \in Seq(S)
    BY <1>1, <2>1, <2>2, ConcatProperties
  <2>4. more \in [0..n -> Seq(S)]
    BY <2>1, <2>2, <2>3
  <2>5. more[0] = <<>>
    BY <2>1, <2>2
  <2>6. ASSUME NEW i \in 1..n PROVE more[i] = more[i - 1] \o s[i]
    <3>1. i - 1 \in 0..(n - 1) /\ more[i - 1] = pre[i - 1]
      BY <2>2
    <3>2. CASE i = n
      <4>1. more[n] = pre[n - 1] \o s[n]
        <5>1. n \in 0..n
          BY <2>2
        <5> QED BY <5>1
      <4> HIDE DEF more
      <4> QED BY <3>1, <3>2, <4>1
    <3>3. CASE i # n
      <4>1. i \in 1..(n - 1) /\ more[i] = pre[i]
        BY <2>2, <3>3
      <4> QED BY <2>1, <3>1, <4>1
    <3> QED BY <3>2, <3>3
  <2> HIDE DEF more
  <2> QED BY <2>4, <2>5, <2>6
<1> HIDE DEF Upto
<1>4. CASE bad # {}
  <2>1. PICK m \in bad : \A n \in bad : m <= n
    <3>1. bad \in SUBSET Nat
      BY <1>1
    <3> HIDE DEF bad
    <3> QED BY <1>4, <3>1, LeastNatural
  <2>2. m # 0 /\ m - 1 \in 0..Len(s) /\ m - 1 \notin bad
    BY <1>1, <1>2, <2>1
  <2> QED BY <1>1, <1>3, <2>1, <2>2
<1>5. CASE bad = {}
  <2>1. Upto(Len(s))
    BY <1>1, <1>5
  <2> QED BY <2>1 DEF Upto, Grows
<1> QED BY <1>4, <1>5

(* FlattenSeq is the last of them.                                         *)
LEMMA FlattenIsLast ==
    ASSUME NEW S, NEW s \in Seq(Seq(S)), NEW pre \in [0..Len(s) -> Seq(S)], Grows(pre, s)
    PROVE  Writer!FlattenSeq(s) = pre[Len(s)]
<1>1. Len(s) \in Nat /\ \A i \in 1..Len(s) : s[i] \in Seq(S)
  BY LenProperties, ElementOfSeq
<1>2. Len(s) # 0 => s[1] = pre[1] /\ 1 \in 1..Len(s)
  <2> SUFFICES ASSUME Len(s) # 0 PROVE s[1] = pre[1] /\ 1 \in 1..Len(s)
    OBVIOUS
  <2>1. 1 \in 1..Len(s) /\ 1 - 1 = 0
    BY <1>1
  <2>2. pre[1] = <<>> \o s[1] /\ s[1] \in Seq(S)
    BY <1>1, <2>1 DEF Grows
  <2> QED BY <2>1, <2>2, ConcatEmptySeq
<1>3. CASE Len(s) = 0
  BY <1>3, EmptySeq, LenProperties DEF Writer!FlattenSeq, Grows
<1>4. CASE Len(s) # 0
  <2> DEFINE Flattens(f) == f = [i \in 1..Len(s) |-> IF i = 1 THEN s[i] ELSE f[i - 1] \o s[i]]
             f == CHOOSE g : Flattens(g)
             good == [i \in 1..Len(s) |-> pre[i]]
             bad == {i \in 1..Len(s) : f[i] # pre[i]}
  <2>1. Writer!FlattenSeq(s) = f[Len(s)]
    BY <1>4 DEF Writer!FlattenSeq
  <2>2. Flattens(good)
    <3>1. ASSUME NEW i \in 1..Len(s)
          PROVE  pre[i] = IF i = 1 THEN s[i] ELSE good[i - 1] \o s[i]
      <4>1. CASE i = 1
        BY <1>4, <1>2, <4>1
      <4>2. CASE i # 1
        <5>1. i - 1 \in 1..Len(s) /\ good[i - 1] = pre[i - 1]
          BY <1>1, <4>2
        <5> QED BY <4>2, <5>1 DEF Grows
      <4> QED BY <4>1, <4>2
    <3> QED BY <3>1
  <2>3. Flattens(f)
    <3> HIDE DEF Flattens
    <3> QED BY <2>2
  <2>4. CASE bad # {}
    <3>1. PICK m \in bad : \A n \in bad : m <= n
      <4>1. bad \in SUBSET Nat
        BY <1>1
      <4> HIDE DEF bad
      <4> QED BY <2>4, <4>1, LeastNatural
    <3>2. f[m] = IF m = 1 THEN s[m] ELSE f[m - 1] \o s[m]
      <4> HIDE DEF f
      <4> QED BY <2>3, <3>1
    <3>3. m = 1 => s[m] = pre[m]
      BY <1>4, <1>2
    <3>4. m # 1 => f[m - 1] = pre[m - 1]
      <4> HIDE DEF f
      <4> QED BY <1>1, <3>1
    <3>5. pre[m] = pre[m - 1] \o s[m]
      BY <3>1 DEF Grows
    <3> QED BY <3>1, <3>2, <3>3, <3>4, <3>5
  <2>5. CASE bad = {}
    <3>1. Len(s) \in 1..Len(s)
      BY <1>1, <1>4
    <3> HIDE DEF f
    <3> QED BY <2>1, <2>5, <3>1
  <2> QED BY <2>4, <2>5
<1> QED BY <1>3, <1>4

(* Each begins with those before it.                                       *)
Longer(pre, s) ==
    \A i \in 0..Len(s) : \A h \in 0..i :
        /\ Len(pre[h]) \in Nat /\ Len(pre[i]) \in Nat /\ Len(pre[h]) <= Len(pre[i])
        /\ \A x \in 1..Len(pre[h]) : pre[i][x] = pre[h][x]

(* They do.                                                                *)
LEMMA PrefixesGrow ==
    ASSUME NEW S, NEW s \in Seq(Seq(S)), NEW pre \in [0..Len(s) -> Seq(S)], Grows(pre, s)
    PROVE  Longer(pre, s)
<1> USE DEF Longer
<1> TAKE i \in 0..Len(s)
<1> TAKE h \in 0..i
<1> DEFINE Begins(n) == /\ Len(pre[h]) <= Len(pre[n])
                        /\ \A x \in 1..Len(pre[h]) : pre[n][x] = pre[h][x]
           bad == {n \in h..Len(s) : ~Begins(n)}
<1>1. /\ Len(s) \in Nat /\ \A n \in 1..Len(s) : s[n] \in Seq(S)
      /\ \A n \in 0..Len(s) : pre[n] \in Seq(S) /\ Len(pre[n]) \in Nat
      /\ h \in Nat /\ i \in h..Len(s) /\ h \in 0..Len(s)
  BY LenProperties, ElementOfSeq
<1>2. ASSUME NEW n \in (h + 1)..Len(s), Begins(n - 1) PROVE Begins(n)
  <2>1. /\ n \in 1..Len(s) /\ n - 1 \in 0..Len(s) /\ pre[n] = pre[n - 1] \o s[n]
        /\ pre[n - 1] \in Seq(S) /\ s[n] \in Seq(S)
        /\ Len(pre[n - 1]) \in Nat /\ Len(s[n]) \in Nat /\ Len(pre[h]) \in Nat
    <3>1. n \in 1..Len(s) /\ n - 1 \in 0..Len(s)
      BY <1>1
    <3> QED BY <1>1, <3>1, LenProperties DEF Grows
  <2>2. /\ Len(pre[n]) = Len(pre[n - 1]) + Len(s[n])
        /\ \A x \in 1..Len(pre[n - 1]) : pre[n][x] = pre[n - 1][x]
    BY <2>1, ConcatProperties
  <2>3. Len(pre[h]) <= Len(pre[n])
    <3>1. Len(pre[h]) <= Len(pre[n - 1])
      BY <1>2
    <3>2. Len(pre[n]) = Len(pre[n - 1]) + Len(s[n])
      BY <2>2
    <3>3. Len(pre[n - 1]) \in Nat /\ Len(s[n]) \in Nat /\ Len(pre[h]) \in Nat
      BY <2>1
    <3>4. \A a, b, c \in Nat : a <= b => a <= b + c
      OBVIOUS
    <3> QED BY <3>1, <3>2, <3>3, <3>4, Zenon
  <2>4. ASSUME NEW x \in 1..Len(pre[h]) PROVE pre[n][x] = pre[h][x]
    <3>1. x \in 1..Len(pre[n - 1])
      BY <1>2, <2>1
    <3> QED BY <1>2, <2>2, <3>1
  <2> QED BY <2>3, <2>4
<1>3. CASE bad # {}
  <2>1. PICK m \in bad : \A n \in bad : m <= n
    <3>1. bad \in SUBSET Nat
      BY <1>1
    <3> HIDE DEF bad
    <3> QED BY <1>3, <3>1, LeastNatural
  <2>2. m \in h..Len(s) /\ ~Begins(m) /\ m # h
    BY <1>1, <2>1
  <2>3. m \in (h + 1)..Len(s) /\ m - 1 \in h..Len(s) /\ m - 1 \notin bad
    BY <1>1, <2>1, <2>2
  <2>4. Begins(m - 1)
    BY <2>3
  <2> HIDE DEF Begins
  <2> QED BY <1>2, <2>2, <2>3, <2>4
<1>4. CASE bad = {}
  <2>1. Begins(i)
    BY <1>1, <1>4
  <2> QED BY <1>1, <2>1
<1> QED BY <1>3, <1>4

-----------------------------------------------------------------------------
(* An encoded response is items at positions.                              *)

Pieces == {"crlf", "size", "data"} \X Nat
Heads == {Writer!Header(l, TRUE) : l \in Nat} \cup {Writer!Header(l, FALSE) : l \in Nat}
Items == Pieces \cup Heads
ChunkedHead == Writer!Header(0, TRUE)
Break2 == <<"crlf", 0>>

(* Behind position p lies a chunk of z bytes, those behind byte o.         *)
ChunkAt(e, p, z, o) ==
    /\ p + z + 3 <= Len(e)
    /\ e[p + 1] = Writer!Size(z) /\ e[p + 2] = Break2
    /\ \A j \in 1..z : e[p + 2 + j] = Writer!Byte(o + j)
    /\ e[p + z + 3] = Break2

(* The items that are encoded.                                             *)
LEMMA ItemsAre ==
    /\ Break2 \in Items /\ \A n \in Nat : Writer!Size(n) \in Items /\ Writer!Byte(n) \in Items
    /\ \A n \in Nat : Writer!Header(n, TRUE) \in Items /\ Writer!Header(n, FALSE) \in Items
    /\ ChunkedHead \in Items
<1>1. Break2 \in Pieces /\ \A n \in Nat : Writer!Size(n) \in Pieces /\ Writer!Byte(n) \in Pieces
  BY DEF Pieces, Break2, Writer!Size, Writer!Byte
<1>2. \A n \in Nat : Writer!Header(n, TRUE) \in Heads /\ Writer!Header(n, FALSE) \in Heads
  BY Zenon DEF Heads
<1>3. ChunkedHead \in Heads
  <2>1. 0 \in Nat
    OBVIOUS
  <2> QED BY <1>2, <2>1, Zenon DEF ChunkedHead
<1> QED BY <1>1, <1>2, <1>3 DEF Items

(* The CRLF of the code is one item.                                       *)
LEMMA CRLFIsBreak == Writer!CRLF = <<Break2>> /\ Break2 \in Items /\ <<Break2>> \in Seq(Items)
<1>1. Writer!CRLF = <<Break2>>
  BY DEF Writer!CRLF, Break2
<1> QED BY <1>1, ItemsAre

(* Bytes as a sequence.                                                    *)
LEMMA BytesRun ==
    ASSUME NEW o \in Nat, NEW z \in Nat
    PROVE  /\ Writer!Bytes(o + 1, o + z) \in Seq(Items)
           /\ Len(Writer!Bytes(o + 1, o + z)) = z
           /\ \A j \in 1..z : Writer!Bytes(o + 1, o + z)[j] = Writer!Byte(o + j)
<1> DEFINE run == [i \in 1..z |-> Writer!Byte(o + i)]
<1>1. Writer!Bytes(o + 1, o + z) = run
  <2>1. (o + z) - (o + 1) + 1 = z
    OBVIOUS
  <2>2. \A i \in 1..z : Writer!Byte((o + 1) + i - 1) = Writer!Byte(o + i)
    OBVIOUS
  <2> QED BY <2>1, <2>2 DEF Writer!Bytes
<1>2. \A i \in 1..z : Writer!Byte(o + i) \in Items
  BY ItemsAre
<1>3. run \in Seq(Items) /\ Len(run) = z /\ \A j \in 1..z : run[j] = Writer!Byte(o + j)
  BY <1>2, IsASeq
<1> HIDE DEF run
<1> QED BY <1>1, <1>3

(* A chunk is its size, its bytes and two line breaks.                     *)
LEMMA ChunkItems ==
    ASSUME NEW o \in Nat, NEW z \in Nat
    PROVE  /\ Writer!Chunk(o + 1, o + z) \in Seq(Items)
           /\ Len(Writer!Chunk(o + 1, o + z)) = z + 3
           /\ ChunkAt(Writer!Chunk(o + 1, o + z), 0, z, o)
<1> DEFINE run == Writer!Bytes(o + 1, o + z)
           a == <<Writer!Size(z)>> \o <<Break2>>
           b == a \o run
           c == b \o <<Break2>>
<1>1. Writer!Chunk(o + 1, o + z) = c
  <2>1. (o + z) - (o + 1) + 1 = z
    OBVIOUS
  <2> QED BY <2>1, CRLFIsBreak DEF Writer!Chunk
<1>2. run \in Seq(Items) /\ Len(run) = z /\ \A j \in 1..z : run[j] = Writer!Byte(o + j)
  BY BytesRun
<1>3. Writer!Size(z) \in Items /\ <<Writer!Size(z)>> \in Seq(Items)
  BY ItemsAre
<1>4. a \in Seq(Items) /\ Len(a) = 2 /\ a[1] = Writer!Size(z) /\ a[2] = Break2
  BY <1>3, CRLFIsBreak
<1> HIDE DEF run, a
<1>5. /\ b \in Seq(Items) /\ Len(b) = z + 2
      /\ \A j \in 1..(z + 2) : b[j] = IF j <= 2 THEN a[j] ELSE run[j - 2]
  <2>1. Len(a) + Len(run) = z + 2
    BY <1>2, <1>4
  <2>2. /\ b \in Seq(Items) /\ Len(b) = Len(a) + Len(run)
        /\ \A j \in 1..(Len(a) + Len(run)) :
              b[j] = IF j <= Len(a) THEN a[j] ELSE run[j - Len(a)]
    BY <1>2, <1>4, ConcatProperties
  <2> HIDE DEF b
  <2> QED BY <1>4, <2>1, <2>2
<1> HIDE DEF b
<1>6. /\ c \in Seq(Items) /\ Len(c) = z + 3
      /\ \A j \in 1..(z + 3) : c[j] = IF j <= z + 2 THEN b[j] ELSE <<Break2>>[j - (z + 2)]
  <2>1. (z + 2) + 1 = z + 3 /\ Len(<<Break2>>) = 1
    OBVIOUS
  <2> QED BY <1>5, <2>1, CRLFIsBreak, ConcatProperties
<1> HIDE DEF c
<1>7. c[1] = Writer!Size(z) /\ c[2] = Break2 /\ c[z + 3] = Break2
  BY <1>4, <1>5, <1>6
<1>8. ASSUME NEW j \in 1..z PROVE c[2 + j] = Writer!Byte(o + j)
  <2>1. 2 + j \in 1..(z + 3) /\ 2 + j \in 1..(z + 2) /\ (2 + j) - 2 = j
    OBVIOUS
  <2> QED BY <1>2, <1>5, <1>6, <2>1
<1> QED BY <1>1, <1>6, <1>7, <1>8 DEF ChunkAt

(* A chunk stays a chunk with something behind it, or before it.           *)
LEMMA ChunkInFront ==
    ASSUME NEW s \in Seq(Items), NEW t \in Seq(Items),
           NEW p \in Nat, NEW z \in Nat, NEW o \in Nat, ChunkAt(s, p, z, o)
    PROVE  ChunkAt(s \o t, p, z, o)
<1>1. Len(s) \in Nat /\ Len(t) \in Nat /\ Len(s \o t) = Len(s) + Len(t)
  BY LenProperties, ConcatProperties
<1>2. \A i \in 1..Len(s) : (s \o t)[i] = s[i]
  BY <1>1, ConcatProperties
<1>3. /\ p + 1 \in 1..Len(s) /\ p + 2 \in 1..Len(s) /\ p + z + 3 \in 1..Len(s)
      /\ \A j \in 1..z : p + 2 + j \in 1..Len(s)
      /\ p + z + 3 <= Len(s) + Len(t)
  BY <1>1 DEF ChunkAt
<1> DEFINE u == s \o t
<1> HIDE DEF u
<1>4. Len(u) = Len(s) + Len(t) /\ \A i \in 1..Len(s) : u[i] = s[i]
  BY <1>1, <1>2 DEF u
<1> QED BY <1>3, <1>4 DEF ChunkAt, u

(* ... and before it.                                                      *)
LEMMA ChunkBehind ==
    ASSUME NEW s \in Seq(Items), NEW t \in Seq(Items),
           NEW p \in Nat, NEW z \in Nat, NEW o \in Nat, ChunkAt(t, p, z, o)
    PROVE  ChunkAt(s \o t, Len(s) + p, z, o)
<1> DEFINE u == s \o t
           l == Len(s)
<1>1. l \in Nat /\ Len(t) \in Nat /\ Len(u) = l + Len(t)
  BY LenProperties, ConcatProperties
<1>2. \A i \in 1..Len(t) : u[l + i] = t[i]
  BY BackItem
<1> HIDE DEF u, l
<1>3. /\ p + 1 \in 1..Len(t) /\ p + 2 \in 1..Len(t) /\ p + z + 3 \in 1..Len(t)
      /\ \A j \in 1..z : p + 2 + j \in 1..Len(t)
      /\ (l + p) + z + 3 <= l + Len(t)
  BY <1>1 DEF ChunkAt
<1>4. /\ (l + p) + 1 = l + (p + 1) /\ (l + p) + 2 = l + (p + 2)
      /\ (l + p) + z + 3 = l + (p + z + 3)
      /\ \A j \in 1..z : (l + p) + 2 + j = l + (p + 2 + j)
  BY <1>1
<1>5. ChunkAt(u, l + p, z, o)
  BY <1>1, <1>2, <1>3, <1>4 DEF ChunkAt
<1> QED BY <1>5 DEF u, l

(* From a boundary <<position, bytes before it>> of b a chunk of z bytes   *)
(* leads to the next, an empty one to the end of e.                        *)
ChunkFrom(e, n, b, p, o, z) ==
    /\ <<p, o>> \in b /\ z \in Nat
    /\ ChunkAt(e, p, z, o)
    /\ z = 0 => o = n /\ p + 3 = Len(e)
    /\ z # 0 => <<p + z + 3, o + z>> \in b

LaidOut(e, n, b) ==
    /\ e \in Seq(Items) /\ Len(e) >= 2
    /\ e[1] = ChunkedHead /\ e[2] = Break2
    /\ b \subseteq Nat \X Nat /\ <<2, 0>> \in b
    /\ \A p, o \in Nat : <<p, o>> \in b => \E z \in Nat : ChunkFrom(e, n, b, p, o, z)

(* Dividing by the length of a chunk.                                      *)
LEMMA ChunksDivide ==
    ASSUME NEW n \in Nat
    PROVE  /\ n \div ChunkLen \in Nat /\ n % ChunkLen \in Nat
           /\ n = (n \div ChunkLen) * ChunkLen + (n % ChunkLen)
<1>1. ChunkLen \in Nat /\ ChunkLen > 0
  BY WriterAssumption
<1>2. n \div ChunkLen \in Nat
  BY <1>1, Z3
<1>3. n % ChunkLen \in Nat
  BY <1>1, Z3
<1>4. n = (n \div ChunkLen) * ChunkLen + (n % ChunkLen)
  BY <1>1, Z3
<1> QED BY <1>2, <1>3, <1>4

(* The full chunks of a body, one behind the other.                        *)
LEMMA FullChunks ==
    ASSUME NEW q \in Nat
    PROVE  LET s == [i \in 1..q |-> Writer!Chunk((i - 1) * ChunkLen + 1, i * ChunkLen)]
               f == Writer!FlattenSeq(s)
           IN  /\ f \in Seq(Items)
               /\ \E at \in [0..q -> Nat] :
                     /\ at[0] = 0 /\ at[q] = Len(f)
                     /\ \A i \in 0..(q - 1) :
                           /\ at[i + 1] = at[i] + ChunkLen + 3
                           /\ ChunkAt(f, at[i], ChunkLen, i * ChunkLen)
<1> DEFINE s == [i \in 1..q |-> Writer!Chunk((i - 1) * ChunkLen + 1, i * ChunkLen)]
           f == Writer!FlattenSeq(s)
<1>1. ASSUME NEW i \in 0..(q - 1)
      PROVE  /\ i * ChunkLen \in Nat /\ ChunkLen \in Nat
             /\ Writer!Chunk((i + 1 - 1) * ChunkLen + 1, (i + 1) * ChunkLen)
                  = Writer!Chunk(i * ChunkLen + 1, i * ChunkLen + ChunkLen)
  <2>1. i \in Nat /\ ChunkLen \in Nat
    BY WriterAssumption
  <2>2. i * ChunkLen \in Nat /\ (i + 1) * ChunkLen = i * ChunkLen + ChunkLen /\ i + 1 - 1 = i
    BY <2>1
  <2> QED BY <2>1, <2>2
<1>2. \A i \in 0..(q - 1) :
         /\ s[i + 1] = Writer!Chunk(i * ChunkLen + 1, i * ChunkLen + ChunkLen)
         /\ s[i + 1] \in Seq(Items) /\ Len(s[i + 1]) = ChunkLen + 3
         /\ ChunkAt(s[i + 1], 0, ChunkLen, i * ChunkLen)
  <2> TAKE i \in 0..(q - 1)
  <2>1. i + 1 \in 1..q
    OBVIOUS
  <2>2. s[i + 1] = Writer!Chunk((i + 1 - 1) * ChunkLen + 1, (i + 1) * ChunkLen)
    BY <2>1
  <2>3. s[i + 1] = Writer!Chunk(i * ChunkLen + 1, i * ChunkLen + ChunkLen)
    BY <1>1, <2>2
  <2> HIDE DEF s
  <2> QED BY <1>1, <2>3, ChunkItems
<1>3. s \in Seq(Seq(Items)) /\ Len(s) = q
  <2>1. \A i \in 1..q : s[i] \in Seq(Items)
    <3> TAKE i \in 1..q
    <3>1. i - 1 \in 0..(q - 1) /\ (i - 1) + 1 = i
      OBVIOUS
    <3> HIDE DEF s
    <3> QED BY <1>2, <3>1
  <2>2. s = [i \in 1..q |-> s[i]]
    OBVIOUS
  <2> HIDE DEF s
  <2> QED BY <2>1, <2>2, IsASeq
<1> HIDE DEF s
<1>4. PICK pre \in [0..q -> Seq(Items)] : Grows(pre, s)
  BY <1>3, PrefixesExist
<1>5. \A i \in 1..Len(s) : pre[i] = pre[i - 1] \o s[i]
  BY <1>4 DEF Grows
<1>6. Longer(pre, s)
  BY <1>3, <1>4, PrefixesGrow
<1>7. f = pre[q]
  BY <1>3, <1>4, FlattenIsLast
<1> HIDE DEF f
<1>8. \A i \in 0..q : pre[i] \in Seq(Items) /\ Len(pre[i]) \in Nat
  BY <1>4, LenProperties
<1> DEFINE at == [i \in 0..q |-> Len(pre[i])]
<1>9. at \in [0..q -> Nat] /\ at[0] = 0 /\ at[q] = Len(f)
  <2>1. 0 \in 0..q /\ q \in 0..q /\ pre[0] = <<>>
    BY <1>4 DEF Grows
  <2> QED BY <1>7, <1>8, <2>1
<1>10. ASSUME NEW i \in 0..(q - 1)
      PROVE  /\ at[i + 1] = at[i] + ChunkLen + 3
             /\ ChunkAt(f, at[i], ChunkLen, i * ChunkLen)
  <2>1. i \in 0..q /\ i + 1 \in 0..q /\ i + 1 \in 1..q /\ q \in 0..q /\ i + 1 - 1 = i
    OBVIOUS
  <2>2. /\ pre[i + 1] = pre[i] \o s[i + 1]
        /\ pre[i] \in Seq(Items) /\ s[i + 1] \in Seq(Items)
        /\ Len(s[i + 1]) = ChunkLen + 3
    <3>1. pre[i + 1] = pre[(i + 1) - 1] \o s[i + 1]
      <4>1. i + 1 \in 1..Len(s)
        BY <1>3, <2>1
      <4> QED BY <1>5, <4>1, Zenon
    <3> QED BY <1>2, <1>8, <2>1, <3>1
  <2>3. Len(pre[i + 1]) = Len(pre[i]) + (ChunkLen + 3)
    <3>1. Len(pre[i] \o s[i + 1]) = Len(pre[i]) + Len(s[i + 1])
      BY <2>2, ConcatProperties
    <3> QED BY <2>2, <3>1
  <2>4. at[i + 1] = at[i] + ChunkLen + 3
    <3>1. Len(pre[i]) \in Nat /\ ChunkLen \in Nat
      BY <1>1, <1>8, <2>1
    <3>2. at[i + 1] = Len(pre[i + 1]) /\ at[i] = Len(pre[i])
      BY <2>1
    <3>3. \A a, b \in Nat : a + (b + 3) = a + b + 3
      OBVIOUS
    <3> HIDE DEF at
    <3>4. at[i + 1] = Len(pre[i]) + ChunkLen + 3
      BY <2>3, <3>1, <3>2, <3>3, Zenon
    <3> QED BY <3>2, <3>4, Zenon
  <2>5. ChunkAt(pre[i + 1], Len(pre[i]) + 0, ChunkLen, i * ChunkLen)
    BY <1>1, <1>2, <2>2, ChunkBehind
  <2>6. /\ Len(pre[i + 1]) <= Len(f) /\ Len(f) \in Nat /\ Len(pre[i + 1]) \in Nat
        /\ \A x \in 1..Len(pre[i + 1]) : f[x] = pre[i + 1][x]
    <3>1. /\ Len(s) = q /\ i + 1 \in 0..q /\ q \in 0..Len(s)
          /\ s \in Seq(Seq(Items)) /\ pre \in [0..Len(s) -> Seq(Items)]
      BY <1>3, <1>4, <2>1
    <3>2. q \in 0..Len(s) /\ i + 1 \in 0..q
      BY <3>1
    <3>3. /\ Len(pre[i + 1]) \in Nat /\ Len(pre[q]) \in Nat
          /\ Len(pre[i + 1]) <= Len(pre[q])
          /\ \A x \in 1..Len(pre[i + 1]) : pre[q][x] = pre[i + 1][x]
      BY <1>6, <3>2 DEF Longer
    <3> QED BY <1>7, <3>3
  <2>7. ChunkAt(f, Len(pre[i]), ChunkLen, i * ChunkLen)
    <3>1. Len(pre[i]) \in Nat /\ ChunkLen \in Nat
      BY <1>1, <1>8, <2>1
    <3>2. Len(pre[i]) + 0 = Len(pre[i])
      BY <3>1
    <3> DEFINE p == Len(pre[i])
               c == pre[i + 1]
    <3>3. ChunkAt(c, p, ChunkLen, i * ChunkLen)
      BY <2>5, <3>2
    <3>4. p \in Nat /\ Len(c) = p + (ChunkLen + 3) /\ Len(c) <= Len(f)
          /\ Len(f) \in Nat /\ \A x \in 1..Len(c) : f[x] = c[x]
      BY <2>3, <2>6, <3>1
    <3> HIDE DEF p, c
    <3>5. ChunkAt(f, p, ChunkLen, i * ChunkLen)
      <4>1. /\ p + 1 \in 1..Len(c) /\ p + 2 \in 1..Len(c) /\ p + ChunkLen + 3 \in 1..Len(c)
            /\ \A j \in 1..ChunkLen : p + 2 + j \in 1..Len(c)
            /\ p + ChunkLen + 3 <= Len(f)
        BY <3>1, <3>4
      <4> QED BY <3>3, <3>4, <4>1 DEF ChunkAt
    <3> QED BY <3>5 DEF p
  <2>8. at[i] = Len(pre[i])
    BY <2>1
  <2> QED BY <2>4, <2>7, <2>8
<1>11. f \in Seq(Items)
  BY <1>7, <1>8
<1> HIDE DEF at
<1>12. \E a \in [0..q -> Nat] :
          /\ a[0] = 0 /\ a[q] = Len(f)
          /\ \A i \in 0..(q - 1) :
                /\ a[i + 1] = a[i] + ChunkLen + 3
                /\ ChunkAt(f, a[i], ChunkLen, i * ChunkLen)
  BY <1>9, <1>10
<1> QED BY <1>11, <1>12 DEF f, s

(* A chunked response is laid out in chunks, whatever the length of the body. *)
LEMMA ChunkedLaid ==
    ASSUME NEW r, Writer!BodyLen(r) \in Nat
    PROVE  \E b : LaidOut(Writer!Chunked(r), Writer!BodyLen(r), b)
<1> DEFINE n == Writer!BodyLen(r)
           q == n \div ChunkLen
           m == n % ChunkLen
           F == Writer!FlattenSeq([i \in 1..q |->
                    Writer!Chunk((i - 1) * ChunkLen + 1, i * ChunkLen)])
           R == IF m = 0 THEN <<>> ELSE Writer!Chunk(n - m + 1, n)
           A == <<ChunkedHead>> \o <<Break2>>
           T == Writer!Chunk(1, 0)
           D == F \o R
           G == A \o D
           e == G \o T
<1>1. Writer!Chunked(r) = e
  BY CRLFIsBreak, Zenon DEF Writer!Chunked, Writer!Chunks, ChunkedHead
<1>2. /\ n \in Nat /\ q \in Nat /\ m \in Nat /\ ChunkLen \in Nat \ {0}
      /\ n = q * ChunkLen + m /\ q * ChunkLen \in Nat
  <2>1. n \in Nat /\ q \in Nat /\ m \in Nat /\ ChunkLen \in Nat \ {0} /\ n = q * ChunkLen + m
    BY ChunksDivide, WriterAssumption
  <2> HIDE DEF n, q, m
  <2> QED BY <2>1
<1>3. A \in Seq(Items) /\ Len(A) = 2 /\ A[1] = ChunkedHead /\ A[2] = Break2
  <2>1. ChunkedHead \in Items /\ <<ChunkedHead>> \in Seq(Items)
    BY ItemsAre
  <2> QED BY <2>1, CRLFIsBreak
<1>4. /\ F \in Seq(Items)
      /\ \E at \in [0..q -> Nat] :
            /\ at[0] = 0 /\ at[q] = Len(F)
            /\ \A i \in 0..(q - 1) :
                  /\ at[i + 1] = at[i] + ChunkLen + 3
                  /\ ChunkAt(F, at[i], ChunkLen, i * ChunkLen)
  <2> HIDE DEF q
  <2> QED BY <1>2, FullChunks
<1>5. T \in Seq(Items) /\ Len(T) = 3 /\ ChunkAt(T, 0, 0, n)
  <2>1. /\ Writer!Chunk(0 + 1, 0 + 0) \in Seq(Items)
        /\ Len(Writer!Chunk(0 + 1, 0 + 0)) = 0 + 3
        /\ ChunkAt(Writer!Chunk(0 + 1, 0 + 0), 0, 0, 0)
    BY ChunkItems
  <2>2. 0 + 1 = 1 /\ 0 + 0 = 0 /\ 0 + 3 = 3
    OBVIOUS
  <2>3. T \in Seq(Items) /\ Len(T) = 3 /\ ChunkAt(T, 0, 0, 0)
    BY <2>1, <2>2
  <2> HIDE DEF T, n
  <2> QED BY <2>3 DEF ChunkAt
<1> HIDE DEF n, q, F, A, T
<1>6. /\ R \in Seq(Items) /\ Len(R) \in Nat
      /\ m = 0 => Len(R) = 0
      /\ m # 0 => Len(R) = m + 3 /\ ChunkAt(R, 0, m, q * ChunkLen)
  <2>1. CASE m = 0
    BY <2>1, EmptySeq
  <2>2. CASE m # 0
    <3>1. n - m + 1 = q * ChunkLen + 1 /\ n = q * ChunkLen + m
      <4> HIDE DEF m
      <4> QED BY <1>2
    <3>2. R = Writer!Chunk(q * ChunkLen + 1, q * ChunkLen + m)
      BY <2>2, <3>1
    <3> HIDE DEF R, m
    <3>3. m + 3 \in Nat
      BY <1>2
    <3> QED BY <1>2, <2>2, <3>2, <3>3, ChunkItems
  <2> QED BY <2>1, <2>2
<1> HIDE DEF R, m
<1>7. PICK at \in [0..q -> Nat] :
            /\ at[0] = 0 /\ at[q] = Len(F)
            /\ \A i \in 0..(q - 1) :
                  /\ at[i + 1] = at[i] + ChunkLen + 3
                  /\ ChunkAt(F, at[i], ChunkLen, i * ChunkLen)
  BY <1>4
<1>8. /\ D \in Seq(Items) /\ Len(F) \in Nat /\ Len(D) = Len(F) + Len(R)
  BY <1>4, <1>6, ConcatProperties, LenProperties
<1> HIDE DEF D
<1>9. /\ G \in Seq(Items) /\ Len(G) = 2 + (Len(F) + Len(R))
      /\ G[1] = ChunkedHead /\ G[2] = Break2
  <2>1. G \in Seq(Items) /\ Len(G) = Len(A) + Len(D)
    BY <1>3, <1>8, ConcatProperties
  <2>2. 1 \in 1..Len(A) /\ 2 \in 1..Len(A) /\ Len(A) + Len(D) = 2 + (Len(F) + Len(R))
    BY <1>3, <1>6, <1>8
  <2>3. G[1] = A[1] /\ G[2] = A[2]
    <3>1. A \in Seq(Items) /\ D \in Seq(Items)
      BY <1>3, <1>8
    <3>2. \A i \in 1..Len(A) : (A \o D)[i] = A[i]
      BY <3>1, FrontItem
    <3> QED BY <2>2, <3>2
  <2> QED BY <1>3, <2>1, <2>2, <2>3
<1> HIDE DEF G
<1>10. /\ e \in Seq(Items) /\ Len(e) = 2 + (Len(F) + Len(R)) + 3
       /\ e[1] = ChunkedHead /\ e[2] = Break2
  <2>1. e \in Seq(Items) /\ Len(e) = Len(G) + Len(T)
    BY <1>5, <1>9, ConcatProperties
  <2>2. 1 \in 1..Len(G) /\ 2 \in 1..Len(G)
    BY <1>5, <1>6, <1>8, <1>9
  <2>3. e[1] = G[1] /\ e[2] = G[2]
    BY <1>5, <1>9, <2>2, FrontItem
  <2> QED BY <1>5, <1>9, <2>1, <2>3
<1>11. \A p, z, o \in Nat : ChunkAt(D, p, z, o) => ChunkAt(e, 2 + p, z, o)
  <2> TAKE p, z, o \in Nat
  <2> HAVE ChunkAt(D, p, z, o)
  <2>1. ChunkAt(A \o D, Len(A) + p, z, o)
    BY <1>3, <1>8, ChunkBehind
  <2>2. ChunkAt(G, 2 + p, z, o) /\ 2 + p \in Nat
    BY <1>3, <2>1 DEF G
  <2> QED BY <1>5, <1>9, <2>2, ChunkInFront
<1>12. ASSUME NEW i \in 0..(q - 1)
       PROVE  ChunkAt(e, 2 + at[i], ChunkLen, i * ChunkLen)
  <2>1. at[i] \in Nat /\ i * ChunkLen \in Nat /\ ChunkAt(F, at[i], ChunkLen, i * ChunkLen)
    <3>1. i \in 0..q /\ i \in Nat
      BY <1>2
    <3>2. i * ChunkLen \in Nat
      BY <1>2, <3>1
    <3> QED BY <1>7, <3>1, <3>2
  <2>2. ChunkAt(D, at[i], ChunkLen, i * ChunkLen)
    BY <1>2, <1>4, <1>6, <2>1, ChunkInFront DEF D
  <2> HIDE DEF e
  <2> QED BY <1>2, <1>11, <2>1, <2>2
<1>13. m # 0 => ChunkAt(e, 2 + Len(F), m, q * ChunkLen)
  <2> SUFFICES ASSUME m # 0 PROVE ChunkAt(e, 2 + Len(F), m, q * ChunkLen)
    OBVIOUS
  <2>1. ChunkAt(F \o R, Len(F) + 0, m, q * ChunkLen)
    BY <1>2, <1>4, <1>6, ChunkBehind
  <2>2. ChunkAt(D, Len(F), m, q * ChunkLen)
    BY <1>8, <2>1 DEF D
  <2> HIDE DEF e
  <2> QED BY <1>2, <1>8, <1>11, <2>2
<1>14. ChunkAt(e, 2 + (Len(F) + Len(R)), 0, n)
  <2>1. ChunkAt(G \o T, Len(G) + 0, 0, n)
    BY <1>2, <1>5, <1>9, ChunkBehind
  <2>2. Len(G) + 0 = 2 + (Len(F) + Len(R))
    BY <1>6, <1>8, <1>9
  <2> QED BY <2>1, <2>2
<1> HIDE DEF e
<1> DEFINE end == <<2 + (Len(F) + Len(R)), n>>
           b == {<<2 + at[i], i * ChunkLen>> : i \in 0..q} \cup {end}
<1>15. b \subseteq Nat \X Nat /\ <<2, 0>> \in b
  <2>1. \A i \in 0..q : 2 + at[i] \in Nat /\ i * ChunkLen \in Nat
    <3> TAKE i \in 0..q
    <3>1. at[i] \in Nat /\ i \in Nat
      BY <1>7
    <3>2. i * ChunkLen \in Nat
      BY <1>2, <3>1
    <3> QED BY <3>1, <3>2
  <2>2. end \in Nat \X Nat
    BY <1>2, <1>6, <1>8
  <2>3. 0 \in 0..q /\ 2 + at[0] = 2 /\ 0 * ChunkLen = 0
    BY <1>2, <1>7
  <2>4. <<2 + at[0], 0 * ChunkLen>> \in b
    BY <2>3
  <2> QED BY <2>1, <2>2, <2>3, <2>4
<1>16. ASSUME NEW i \in 0..(q - 1)
       PROVE  ChunkFrom(e, n, b, 2 + at[i], i * ChunkLen, ChunkLen)
  <2>1. i \in 0..q /\ i + 1 \in 0..q /\ at[i] \in Nat /\ i \in Nat
    BY <1>2, <1>7
  <2>2. <<2 + at[i + 1], (i + 1) * ChunkLen>> \in b /\ <<2 + at[i], i * ChunkLen>> \in b
    BY <2>1
  <2>3. 2 + at[i + 1] = (2 + at[i]) + ChunkLen + 3
    BY <1>2, <1>7, <2>1
  <2>4. (i + 1) * ChunkLen = i * ChunkLen + ChunkLen
    BY <1>2, <2>1
  <2> HIDE DEF b
  <2> QED BY <1>2, <1>12, <2>2, <2>3, <2>4 DEF ChunkFrom
<1>17. ChunkFrom(e, n, b, 2 + (Len(F) + Len(R)), n, 0)
  <2>1. end \in b
    OBVIOUS
  <2> HIDE DEF b
  <2> QED BY <1>10, <1>14, <2>1 DEF ChunkFrom
<1>18. m # 0 => ChunkFrom(e, n, b, 2 + at[q], q * ChunkLen, m)
  <2> SUFFICES ASSUME m # 0 PROVE ChunkFrom(e, n, b, 2 + at[q], q * ChunkLen, m)
    OBVIOUS
  <2>1. q \in 0..q /\ at[q] = Len(F)
    BY <1>2, <1>7
  <2>2. <<2 + at[q], q * ChunkLen>> \in b /\ end \in b
    BY <2>1
  <2>3. 2 + (Len(F) + Len(R)) = (2 + at[q]) + m + 3
    <3>1. /\ Len(R) = m + 3 /\ at[q] = Len(F)
          /\ Len(F) \in Nat /\ m \in Nat
      BY <1>2, <1>6, <1>8, <2>1
    <3> QED BY <3>1
  <2> HIDE DEF b
  <2>4. <<(2 + at[q]) + m + 3, q * ChunkLen + m>> \in b
    BY <1>2, <2>2, <2>3
  <2> QED BY <1>2, <1>13, <2>1, <2>2, <2>4 DEF ChunkFrom
<1>19. ASSUME NEW p \in Nat, NEW o \in Nat, <<p, o>> \in b
       PROVE  \E z \in Nat : ChunkFrom(e, n, b, p, o, z)
  <2>1. CASE p = 2 + (Len(F) + Len(R)) /\ o = n
    BY <1>17, <2>1
  <2>2. ASSUME NEW i \in 0..q, p = 2 + at[i], o = i * ChunkLen
        PROVE  \E z \in Nat : ChunkFrom(e, n, b, p, o, z)
    <3>1. CASE i \in 0..(q - 1)
      <4> HIDE DEF b
      <4> QED BY <1>2, <1>16, <2>2, <3>1
    <3>2. CASE i = q /\ m # 0
      <4> HIDE DEF b
      <4> QED BY <1>2, <1>18, <2>2, <3>2
    <3>3. CASE i = q /\ m = 0
      <4>1. p = 2 + (Len(F) + Len(R)) /\ o = n
        BY <1>2, <1>6, <1>7, <1>8, <2>2, <3>3
      <4> QED BY <2>1, <4>1
    <3>4. i \in 0..(q - 1) \/ i = q
      BY <1>2
    <3> QED BY <3>1, <3>2, <3>3, <3>4
  <2>3. (p = 2 + (Len(F) + Len(R)) /\ o = n) \/ \E i \in 0..q : p = 2 + at[i] /\ o = i * ChunkLen
    BY <1>19
  <2> HIDE DEF b
  <2> QED BY <2>1, <2>2, <2>3
<1>20. LaidOut(e, n, b)
  <2>1. Len(e) >= 2
    BY <1>6, <1>8, <1>10
  <2> HIDE DEF b
  <2> QED BY <1>10, <1>15, <1>19, <2>1 DEF LaidOut
<1> HIDE DEF b
<1>21. \E c : LaidOut(e, n, c)
  BY <1>20
<1> QED BY <1>1, <1>21 DEF n

-----------------------------------------------------------------------------
(* The client.                                                             *)

Clients == [at : {"head", "headEnd", "size", "sizeEnd", "content", "contentEnd",
                  "done", "garbled", "cut"},
            left : Nat, chunked : BOOLEAN, last : BOOLEAN, got : Seq(Items)]

SameButAt(c) == /\ c.chunked = client.chunked /\ c.got = client.got
                /\ c.left = client.left /\ c.last = client.last

(* The header tells the client how to go on.                               *)
LEMMA StepHead ==
    ASSUME client \in Clients, client.at = "head", NEW b,
           b[1] = "head", b[2] \in Nat, b[3] \in BOOLEAN,
           NEW c, c = Writer!Step(b)
    PROVE  /\ c \in Clients /\ c.at = "headEnd" /\ c.left = b[2] /\ c.chunked = b[3]
           /\ c.got = client.got
<1>1. client.at \in DOMAIN Writer!Expected /\ Writer!Expected[client.at] = "head"
  BY DEF Writer!Expected
<1>2. c = [[client EXCEPT !.at = "headEnd"] EXCEPT !.left = b[2], !.chunked = b[3]]
  BY <1>1 DEF Writer!Step
<1> QED BY <1>2 DEF Clients

(* So does the size of a chunk.                                            *)
LEMMA StepSize ==
    ASSUME client \in Clients, client.at = "size", NEW n \in Nat,
           NEW c, c = Writer!Step(Writer!Size(n))
    PROVE  /\ c \in Clients /\ c.at = "sizeEnd" /\ c.left = n /\ (c.last <=> n = 0)
           /\ c.got = client.got /\ c.chunked = client.chunked
<1> DEFINE b == Writer!Size(n)
<1>1. b[1] = "size" /\ b[2] = n
  BY DEF Writer!Size
<1> HIDE DEF b
<1>2. client.at \in DOMAIN Writer!Expected /\ Writer!Expected[client.at] = "size"
  BY DEF Writer!Expected
<1>3. Writer!Step(b) = [client EXCEPT !.at = "sizeEnd", !.left = n, !.last = (n = 0)]
  BY <1>1, <1>2 DEF Writer!Step
<1> QED BY <1>3 DEF Clients, b

(* A line break where one is expected.                                     *)
LEMMA StepBreak ==
    ASSUME client \in Clients, NEW c, c = Writer!Step(Break2),
           client.at \in {"headEnd", "sizeEnd", "contentEnd"}
    PROVE  /\ c \in Clients /\ SameButAt(c)
           /\ client.at = "headEnd" =>
                 c.at = IF client.chunked THEN "size"
                        ELSE IF client.left = 0 THEN "done" ELSE "content"
           /\ client.at = "sizeEnd" =>
                 c.at = IF client.left = 0 THEN "contentEnd" ELSE "content"
           /\ client.at = "contentEnd" => c.at = IF client.last THEN "done" ELSE "size"
<1>1. Break2[1] = "crlf"
  BY DEF Break2
<1>2. client.at \in DOMAIN Writer!Expected /\ Writer!Expected[client.at] = "crlf"
  BY DEF Writer!Expected
<1>3. CASE client.at = "headEnd"
  <2>1. c = IF client.chunked THEN [client EXCEPT !.at = "size"]
            ELSE [client EXCEPT !.at = IF client.left = 0 THEN "done" ELSE "content"]
    BY <1>1, <1>2, <1>3 DEF Writer!Step
  <2> QED BY <1>3, <2>1 DEF Clients, SameButAt
<1>4. CASE client.at = "sizeEnd"
  <2>1. c = [client EXCEPT !.at = IF client.left = 0 THEN "contentEnd" ELSE "content"]
    BY <1>1, <1>2, <1>4 DEF Writer!Step
  <2> QED BY <1>4, <2>1 DEF Clients, SameButAt
<1>5. CASE client.at = "contentEnd"
  <2>1. c = [client EXCEPT !.at = IF client.last THEN "done" ELSE "size"]
    BY <1>1, <1>2, <1>5 DEF Writer!Step
  <2> QED BY <1>5, <2>1 DEF Clients, SameButAt
<1> QED BY <1>3, <1>4, <1>5

(* Content, as long as some is due.                                        *)
LEMMA StepContent ==
    ASSUME client \in Clients, client.at = "content", NEW b \in Items,
           Writer!Width(b) \in Nat, Writer!Width(b) <= client.left,
           NEW c, c = Writer!Step(b)
    PROVE  /\ c \in Clients /\ c.got = Append(client.got, b)
           /\ c.left = client.left - Writer!Width(b)
           /\ c.chunked = client.chunked /\ c.last = client.last
           /\ c.at = IF c.left # 0 THEN "content"
                     ELSE IF client.chunked THEN "contentEnd" ELSE "done"
<1> DEFINE rest == client.left - Writer!Width(b)
<1>1. client.left \in Nat /\ rest \in Nat
  BY DEF Clients
<1>2. client.at \notin DOMAIN Writer!Expected
  BY DEF Writer!Expected
<1>3. c = [client EXCEPT !.got = Append(@, b), !.left = rest,
              !.at = CASE rest > 0 -> "content"
                       [] rest = 0 /\ client.chunked -> "contentEnd"
                       [] rest = 0 /\ ~client.chunked -> "done"]
  <2>1. ~(rest < 0) /\ rest >= 0
    BY <1>1
  <2> QED BY <1>2, <2>1 DEF Writer!Step
<1>4. Append(client.got, b) \in Seq(Items)
  BY AppendProperties DEF Clients
<1> HIDE DEF rest
<1>5. /\ c = [client EXCEPT !.got = Append(client.got, b), !.left = rest, !.at = c.at]
      /\ c.at = IF rest # 0 THEN "content" ELSE IF client.chunked THEN "contentEnd" ELSE "done"
  <2> DEFINE over == CASE rest > 0 -> "content"
                       [] rest = 0 /\ client.chunked -> "contentEnd"
                       [] rest = 0 /\ ~client.chunked -> "done"
             g == Append(client.got, b)
  <2>1. over = IF rest # 0 THEN "content" ELSE IF client.chunked THEN "contentEnd" ELSE "done"
    BY <1>1
  <2>2. client.got = client.got
    OBVIOUS
  <2>3. c = [client EXCEPT !.got = g, !.left = rest, !.at = over]
    BY <1>3
  <2> HIDE DEF over, g
  <2>4. c.at = over
    BY <2>3 DEF Clients
  <2> QED BY <2>1, <2>3, <2>4 DEF g
<1>6. c.got = Append(client.got, b) /\ c.left = rest
  BY <1>5 DEF Clients
<1>7. c.chunked = client.chunked /\ c.last = client.last
  BY <1>5 DEF Clients
<1>8. c \in Clients
  <2> DEFINE g == Append(client.got, b)
  <2>1. g \in Seq(Items) /\ c = [client EXCEPT !.got = g, !.left = rest, !.at = c.at]
    BY <1>4, <1>5
  <2>2. c.at \in {"content", "contentEnd", "done"}
    BY <1>5
  <2> HIDE DEF g
  <2> QED BY <1>1, <2>1, <2>2 DEF Clients
<1> QED BY <1>5, <1>6, <1>7, <1>8 DEF rest

(* What is not expected spoils the response for good.                      *)
LEMMA StepWrong ==
    ASSUME client \in Clients, NEW b, NEW c, c = Writer!Step(b),
           \/ client.at = "size" /\ b[1] # "size"
           \/ client.at \in {"garbled", "cut"}
    PROVE  c \in Clients /\ c.at = "garbled"
<1>1. c = [client EXCEPT !.at = "garbled"]
  <2>1. CASE client.at = "size" /\ b[1] # "size"
    <3>1. client.at \in DOMAIN Writer!Expected /\ Writer!Expected[client.at] = "size"
      BY <2>1 DEF Writer!Expected
    <3> QED BY <2>1, <3>1 DEF Writer!Step
  <2>2. CASE client.at \in {"garbled", "cut"}
    <3>1. client.at \notin DOMAIN Writer!Expected
      BY <2>2 DEF Writer!Expected
    <3> QED BY <2>2, <3>1 DEF Writer!Step
  <2> QED BY <2>1, <2>2
<1> QED BY <1>1 DEF Clients

(* The first bytes of a body, byte by byte.                                *)
LEMMA FirstBytes ==
    ASSUME NEW n \in Nat
    PROVE  /\ Writer!Bytes(1, n) \in Seq(Items) /\ Len(Writer!Bytes(1, n)) = n
           /\ \A j \in 1..n : Writer!Bytes(1, n)[j] = Writer!Byte(j)
           /\ n = 0 => Writer!Bytes(1, n) = <<>>
           /\ Writer!Bytes(1, n + 1) = Append(Writer!Bytes(1, n), Writer!Byte(n + 1))
<1>1. ASSUME NEW m \in Nat
      PROVE  /\ Writer!Bytes(1, m) \in Seq(Items) /\ Len(Writer!Bytes(1, m)) = m
             /\ \A j \in 1..m : Writer!Bytes(1, m)[j] = Writer!Byte(j)
  <2>1. /\ Writer!Bytes(0 + 1, 0 + m) \in Seq(Items)
        /\ Len(Writer!Bytes(0 + 1, 0 + m)) = m
        /\ \A j \in 1..m : Writer!Bytes(0 + 1, 0 + m)[j] = Writer!Byte(0 + j)
    BY BytesRun
  <2>2. 0 + 1 = 1 /\ 0 + m = m /\ \A j \in 1..m : 0 + j = j
    OBVIOUS
  <2> QED BY <2>1, <2>2
<1> DEFINE s == Writer!Bytes(1, n)
           x == Writer!Byte(n + 1)
           t == Writer!Bytes(1, n + 1)
<1>2. /\ s \in Seq(Items) /\ Len(s) = n /\ \A j \in 1..n : s[j] = Writer!Byte(j)
      /\ t \in Seq(Items) /\ Len(t) = n + 1 /\ \A j \in 1..(n + 1) : t[j] = Writer!Byte(j)
      /\ x \in Items
  BY <1>1, ItemsAre
<1> HIDE DEF s, t
<1>3. /\ Append(s, x) \in Seq(Items) /\ Len(Append(s, x)) = n + 1
      /\ \A j \in 1..n : Append(s, x)[j] = s[j] /\ Append(s, x)[n + 1] = x
  BY <1>2, AppendProperties
<1>4. t = Append(s, x)
  <2>1. \A j \in 1..(n + 1) : t[j] = Append(s, x)[j]
    BY <1>2, <1>3
  <2> QED BY <1>2, <1>3, <2>1, SeqEqual
<1>5. n = 0 => s = <<>>
  BY <1>2, EmptySeq
<1> QED BY <1>2, <1>4, <1>5 DEF s, t

(* A response with a body of n bytes.                                      *)
Encodes(r, n) ==
    /\ r.length \in Nat /\ r.chunked \in BOOLEAN /\ n \in Nat /\ Writer!BodyLen(r) = n
    /\ (r.length = 0 /\ n = 0) \/ r.length = n + 2

(* Items sent plainly.                                                     *)
Plainly(e, r, n) ==
    /\ e \in Seq(Items) /\ e[1] = Writer!Header(r.length, r.chunked) /\ e[2] = Break2
    /\ n = 0 => Len(e) = 2
    /\ n # 0 => /\ Len(e) = n + 3 /\ e[n + 3] = Break2
                /\ \A j \in 1..n : e[2 + j] = Writer!Byte(j)

(* A response that is not chunked is sent so.                              *)
LEMMA PlainLaid ==
    ASSUME NEW r, NEW n, Encodes(r, n), NEW e, e = Writer!Plain(r)
    PROVE  Plainly(e, r, n)
<1> USE DEF Encodes, Plainly
<1> DEFINE h == Writer!Header(r.length, r.chunked)
           a == <<h>> \o <<Break2>>
           s == Writer!Bytes(1, n)
           t == s \o <<Break2>>
<1>1. h \in Items
  BY ItemsAre, Zenon
<1>2. e = a \o IF n = 0 THEN <<>> ELSE t
  BY CRLFIsBreak, Zenon DEF Writer!Plain
<1> HIDE DEF h
<1>3. a \in Seq(Items) /\ Len(a) = 2 /\ a[1] = h /\ a[2] = Break2
  BY <1>1, ItemsAre
<1>4. /\ s \in Seq(Items) /\ Len(s) = n /\ \A j \in 1..n : s[j] = Writer!Byte(j)
  BY FirstBytes
<1> HIDE DEF a, s
<1>5. /\ t \in Seq(Items) /\ Len(t) = n + 1
      /\ \A j \in 1..n : t[j] = s[j] /\ t[n + 1] = Break2
  <2>1. t = Append(s, Break2)
    BY <1>4, ItemsAre, AppendIsConcat
  <2> QED BY <1>4, <2>1, ItemsAre, AppendProperties
<1> HIDE DEF t
<1>6. CASE n = 0
  <2>1. e = a
    BY <1>2, <1>3, <1>6, ConcatEmptySeq
  <2> QED BY <1>3, <1>6, <2>1 DEF h
<1>7. CASE n # 0
  <2>1. e = a \o t
    BY <1>2, <1>7
  <2>2. e \in Seq(Items) /\ Len(e) = n + 3
    <3>1. Len(a \o t) = Len(a) + Len(t) /\ a \o t \in Seq(Items)
      BY <1>3, <1>5, ConcatProperties
    <3> QED BY <1>3, <1>5, <2>1, <3>1
  <2>3. e[1] = h /\ e[2] = Break2
    <3>1. \A i \in 1..Len(a) : (a \o t)[i] = a[i]
      BY <1>3, <1>5, FrontItem
    <3>2. 1 \in 1..Len(a) /\ 2 \in 1..Len(a)
      BY <1>3
    <3>3. e[1] = a[1] /\ e[2] = a[2]
      BY <2>1, <3>1, <3>2
    <3> QED BY <1>3, <3>3
  <2>4. ASSUME NEW j \in 1..(n + 1) PROVE e[2 + j] = t[j]
    <3>1. j \in 1..Len(t)
      BY <1>5
    <3>2. a \in Seq(Items) /\ t \in Seq(Items)
      BY <1>3, <1>5
    <3>3. \A i \in 1..Len(t) : (a \o t)[Len(a) + i] = t[i]
      BY <3>2, BackItem
    <3> QED BY <1>3, <2>1, <3>1, <3>3
  <2>5. n + 3 = 2 + (n + 1) /\ n + 1 \in 1..(n + 1) /\ \A j \in 1..n : j \in 1..(n + 1)
    OBVIOUS
  <2> QED BY <1>4, <1>5, <1>7, <2>2, <2>3, <2>4, <2>5 DEF h
<1> QED BY <1>6, <1>7

-----------------------------------------------------------------------------
(* Where the client is when it has read k items of what is sent.           *)

(* In the chunk of z bytes behind p, with o bytes before it.               *)
InChunk(e, n, b, k, c, p, o, z) ==
    /\ p \in Nat /\ o \in Nat /\ z \in Nat /\ ChunkFrom(e, n, b, p, o, z)
    /\ c.last <=> z = 0
    /\ c.at = "sizeEnd" => k = p + 1 /\ c.left = z /\ c.got = Writer!Bytes(1, o)
    /\ c.at = "content" =>
          /\ c.left \in 1..z /\ k = p + 2 + (z - c.left)
          /\ c.got = Writer!Bytes(1, o + (z - c.left))
    /\ c.at = "contentEnd" => k = p + 2 + z /\ c.got = Writer!Bytes(1, o + z)

(* A response in chunks.                                                   *)
ChunksRead(e, n, b, k, c) ==
    /\ c \in Clients /\ c.at \notin {"garbled", "cut"}
    /\ c.at = "head" => k = 0 /\ c.got = <<>>
    /\ c.at # "head" => c.chunked
    /\ c.at = "headEnd" => k = 1 /\ c.got = <<>>
    /\ c.at = "size" => \E o \in Nat : <<k, o>> \in b /\ c.got = Writer!Bytes(1, o)
    /\ c.at \in {"sizeEnd", "content", "contentEnd"} =>
          \E p, o, z \in Nat : InChunk(e, n, b, k, c, p, o, z)
    /\ c.at = "done" => k = Len(e) /\ c.got = Writer!Bytes(1, n)

(* The next item of a chunk, whichever it is.                              *)
LEMMA ChunksStep ==
    ASSUME NEW e, NEW n \in Nat, NEW b, LaidOut(e, n, b), NEW k \in Nat, k < Len(e),
           ChunksRead(e, n, b, k, client), NEW c, c = Writer!Step(e[k + 1])
    PROVE  ChunksRead(e, n, b, k + 1, c)
<1>1. client \in Clients /\ n \in Nat /\ Len(e) \in Nat
  BY LenProperties DEF ChunksRead, LaidOut
<1>2. CASE client.at = "head"
  <2>1. k = 0 /\ client.got = <<>> /\ e[k + 1] = ChunkedHead
    <3>1. k = 0 /\ client.got = <<>> /\ e[1] = ChunkedHead
      BY <1>2 DEF ChunksRead, LaidOut
    <3>2. k + 1 = 1
      BY <3>1
    <3> QED BY <3>1, <3>2
  <2>2. c.at = "headEnd" /\ c \in Clients /\ c.got = <<>> /\ c.chunked
    <3>1. c = Writer!Step(ChunkedHead)
      BY <2>1
    <3>2. ChunkedHead[1] = "head" /\ ChunkedHead[2] \in Nat /\ ChunkedHead[3] = TRUE
      BY DEF ChunkedHead, Writer!Header
    <3> QED BY <1>1, <1>2, <2>1, <3>1, <3>2, StepHead
  <2> QED BY <2>1, <2>2 DEF ChunksRead
<1>3. CASE client.at = "headEnd"
  <2>1. k = 1 /\ client.got = <<>> /\ e[k + 1] = Break2 /\ client.chunked /\ <<2, 0>> \in b
    BY <1>3 DEF ChunksRead, LaidOut
  <2>2. c.at = "size" /\ c \in Clients /\ c.got = <<>> /\ c.chunked
    BY <1>1, <1>3, <2>1, StepBreak DEF SameButAt
  <2>3. Writer!Bytes(1, 0) = <<>>
    BY FirstBytes
  <2>4. <<k + 1, 0>> \in b /\ c.got = Writer!Bytes(1, 0)
    BY <2>1, <2>2, <2>3
  <2> QED BY <2>2, <2>4 DEF ChunksRead
<1>4. CASE client.at = "size"
  <2>1. PICK o \in Nat : <<k, o>> \in b /\ client.got = Writer!Bytes(1, o)
    BY <1>4 DEF ChunksRead
  <2>2. PICK z \in Nat : ChunkFrom(e, n, b, k, o, z)
    BY <2>1 DEF LaidOut
  <2>3. e[k + 1] = Writer!Size(z) /\ client.chunked
    BY <1>4, <2>2 DEF ChunkFrom, ChunkAt, ChunksRead
  <2>4. /\ c \in Clients /\ c.at = "sizeEnd" /\ c.left = z /\ (c.last <=> z = 0)
        /\ c.got = Writer!Bytes(1, o) /\ c.chunked
    <3>1. c = Writer!Step(Writer!Size(z))
      BY <2>3
    <3>2. /\ c \in Clients /\ c.at = "sizeEnd" /\ c.left = z /\ (c.last <=> z = 0)
          /\ c.got = client.got /\ c.chunked = client.chunked
      BY <1>1, <1>4, <3>1, StepSize
    <3> QED BY <2>1, <2>3, <3>2
  <2>5. InChunk(e, n, b, k + 1, c, k, o, z)
    BY <2>2, <2>4 DEF InChunk
  <2> QED BY <2>4, <2>5 DEF ChunksRead
<1>5. ASSUME client.at \in {"sizeEnd", "content", "contentEnd"}
      PROVE  ChunksRead(e, n, b, k + 1, c)
  <2>1. PICK p, o, z \in Nat : InChunk(e, n, b, k, client, p, o, z)
    BY <1>5 DEF ChunksRead
  <2>2. client.chunked /\ (client.last <=> z = 0) /\ client.left \in Nat
    BY <1>1, <1>5, <2>1 DEF ChunksRead, InChunk, Clients
  <2>3. CASE client.at = "sizeEnd"
    <3>1. k = p + 1 /\ client.left = z /\ client.got = Writer!Bytes(1, o) /\ e[k + 1] = Break2
      <4>1. k = p + 1 /\ e[p + 2] = Break2
        BY <2>1, <2>3 DEF InChunk, ChunkFrom, ChunkAt
      <4>2. k + 1 = p + 2
        BY <4>1
      <4> QED BY <2>1, <2>3, <4>1, <4>2 DEF InChunk
    <3>2. /\ c \in Clients /\ c.chunked /\ c.left = z /\ (c.last <=> z = 0)
          /\ c.got = Writer!Bytes(1, o) /\ c.at = IF z = 0 THEN "contentEnd" ELSE "content"
      BY <1>1, <2>2, <2>3, <3>1, StepBreak DEF SameButAt
    <3>3. InChunk(e, n, b, k + 1, c, p, o, z)
      <4>1. z - z = 0 /\ o + 0 = o /\ k + 1 = p + 2 + 0 /\ (z # 0 => z \in 1..z)
        BY <3>1
      <4> QED BY <2>1, <3>2, <4>1 DEF InChunk
    <3> QED BY <3>2, <3>3 DEF ChunksRead
  <2>4. CASE client.at = "content"
    <3> DEFINE j == z - client.left
    <3>1. /\ client.left \in 1..z /\ j \in Nat /\ j + 1 \in 1..z
          /\ k + 1 = p + 2 + (j + 1) /\ client.got = Writer!Bytes(1, o + j)
          /\ e[p + 2 + (j + 1)] = Writer!Byte(o + (j + 1))
      <4>1. /\ client.left \in 1..z /\ k = p + 2 + j /\ client.got = Writer!Bytes(1, o + j)
            /\ \A i \in 1..z : e[p + 2 + i] = Writer!Byte(o + i)
        BY <2>1, <2>4 DEF InChunk, ChunkFrom, ChunkAt
      <4>2. j \in Nat /\ j + 1 \in 1..z
        <5>1. \A l \in 1..z : z - l \in Nat /\ (z - l) + 1 \in 1..z
          OBVIOUS
        <5> QED BY <4>1, <5>1
      <4>3. k + 1 = p + 2 + (j + 1)
        <5> HIDE DEF j
        <5> QED BY <4>1, <4>2
      <4> HIDE DEF j
      <4> QED BY <4>1, <4>2, <4>3
    <3> DEFINE x == Writer!Byte(o + (j + 1))
    <3>2. x \in Items /\ Writer!Width(x) = 1 /\ e[k + 1] = x
      <4> HIDE DEF j
      <4>1. o + (j + 1) \in Nat
        BY <3>1
      <4>2. Writer!Width(x) = 1
        BY DEF Writer!Width, Writer!Byte
      <4> QED BY <3>1, <4>1, <4>2, ItemsAre
    <3>3. /\ c \in Clients /\ c.got = Append(client.got, x) /\ c.left = client.left - 1
          /\ c.chunked /\ (c.last <=> z = 0)
          /\ c.at = IF c.left # 0 THEN "content" ELSE "contentEnd"
      <4> HIDE DEF x, j
      <4>1. 1 <= client.left
        BY <3>1
      <4>2. c = Writer!Step(x)
        BY <3>2
      <4>3. /\ c \in Clients /\ c.got = Append(client.got, x)
            /\ c.left = client.left - Writer!Width(x)
            /\ c.chunked = client.chunked /\ c.last = client.last
            /\ c.at = IF c.left # 0 THEN "content"
                      ELSE IF client.chunked THEN "contentEnd" ELSE "done"
        BY <1>1, <2>4, <3>2, <4>1, <4>2, StepContent
      <4> QED BY <2>2, <3>2, <4>3
    <3>4. c.got = Writer!Bytes(1, o + (j + 1))
      <4>1. o + j \in Nat /\ o + (j + 1) = (o + j) + 1
        <5>1. j \in Nat
          BY <3>1
        <5> HIDE DEF j
        <5> QED BY <5>1
      <4> HIDE DEF j
      <4> QED BY <3>1, <3>3, <4>1, FirstBytes
    <3>5. z - c.left = j + 1 /\ (c.left # 0 => c.left \in 1..z) /\ (c.left = 0 => j + 1 = z)
      <4>1. \A l \in 1..z : /\ z - (l - 1) = (z - l) + 1 /\ (l - 1 # 0 => l - 1 \in 1..z)
                            /\ l - 1 = 0 => (z - l) + 1 = z
        OBVIOUS
      <4>2. client.left \in 1..z /\ c.left = client.left - 1
        BY <3>1, <3>3
      <4> QED BY <4>1, <4>2
    <3> HIDE DEF j, x
    <3>6. InChunk(e, n, b, k + 1, c, p, o, z)
      BY <2>1, <3>1, <3>3, <3>4, <3>5 DEF InChunk
    <3> QED BY <3>3, <3>6 DEF ChunksRead
  <2>5. CASE client.at = "contentEnd"
    <3>1. k = p + 2 + z /\ client.got = Writer!Bytes(1, o + z) /\ e[k + 1] = Break2
      <4>1. k = p + 2 + z /\ e[p + z + 3] = Break2 /\ client.got = Writer!Bytes(1, o + z)
        BY <2>1, <2>5 DEF InChunk, ChunkFrom, ChunkAt
      <4>2. k + 1 = p + z + 3
        BY <4>1
      <4> QED BY <4>1, <4>2
    <3>2. /\ c \in Clients /\ c.chunked /\ c.got = Writer!Bytes(1, o + z)
          /\ c.at = IF z = 0 THEN "done" ELSE "size"
      BY <1>1, <2>2, <2>5, <3>1, StepBreak DEF SameButAt
    <3>3. CASE z = 0
      <4>1. o = n /\ p + 3 = Len(e)
        BY <2>1, <3>3 DEF InChunk, ChunkFrom
      <4>2. k + 1 = Len(e) /\ o + z = n
        BY <3>1, <3>3, <4>1
      <4> QED BY <3>2, <3>3, <4>2 DEF ChunksRead
    <3>4. CASE z # 0
      <4>1. <<p + z + 3, o + z>> \in b
        BY <2>1, <3>4 DEF InChunk, ChunkFrom
      <4>2. k + 1 = p + z + 3 /\ o + z \in Nat
        BY <3>1
      <4>3. <<k + 1, o + z>> \in b
        BY <4>1, <4>2
      <4> QED BY <3>2, <3>4, <4>2, <4>3 DEF ChunksRead
    <3> QED BY <3>3, <3>4
  <2> QED BY <1>5, <2>3, <2>4, <2>5
<1>6. client.at # "done"
  BY <1>1 DEF ChunksRead
<1>7. client.at \in {"head", "headEnd", "size", "sizeEnd", "content", "contentEnd"}
  BY <1>1, <1>6 DEF ChunksRead, Clients
<1> QED BY <1>2, <1>3, <1>4, <1>5, <1>7

(* A response with its length.                                             *)
PlainRead(e, r, n, k, c) ==
    /\ c \in Clients /\ c.at \in {"head", "headEnd", "content", "done", "cut"}
    /\ c.at = "head" => k = 0 /\ c.got = <<>>
    /\ c.at = "headEnd" => k = 1 /\ c.got = <<>> /\ c.left = r.length /\ ~c.chunked
    /\ c.at = "content" =>
          /\ r.length = n + 2 /\ ~c.chunked
          /\ \E j \in 0..n : /\ k = 2 + j /\ c.left = n + 2 - j
                             /\ c.got = Writer!Bytes(1, j)
    /\ c.at = "done" =>
          /\ k = Len(e) /\ ~c.chunked
          /\ c.got = IF n = 0 THEN <<>> ELSE Writer!Bytes(1, n) \o <<Break2>>
    /\ c.at = "cut" => k = Len(e) /\ n = 0 /\ r.length = 2

(* The next item of a body sent whole.                                     *)
LEMMA PlainStep ==
    ASSUME NEW r, NEW n, Encodes(r, n), ~r.chunked, NEW e, e = Writer!Plain(r),
           NEW k \in Nat, k < Len(e), PlainRead(e, r, n, k, client),
           NEW c, c = Writer!Step(e[k + 1])
    PROVE  PlainRead(e, r, n, k + 1, c)
<1>1. /\ client \in Clients /\ n \in Nat /\ Len(e) \in Nat
      /\ r.length \in Nat /\ r.chunked = FALSE
      /\ e \in Seq(Items) /\ e[1] = Writer!Header(r.length, r.chunked) /\ e[2] = Break2
      /\ n = 0 => Len(e) = 2
      /\ n # 0 => /\ Len(e) = n + 3 /\ e[n + 3] = Break2
                  /\ \A j \in 1..n : e[2 + j] = Writer!Byte(j)
  <2>1. Plainly(e, r, n)
    BY PlainLaid
  <2> QED BY <2>1, LenProperties DEF PlainRead, Encodes, Plainly
<1>2. CASE client.at = "head"
  <2>1. k = 0 /\ client.got = <<>> /\ k + 1 = 1
    BY <1>2 DEF PlainRead
  <2>2. c = Writer!Step(Writer!Header(r.length, r.chunked))
    BY <1>1, <2>1
  <2>3. /\ c \in Clients /\ c.at = "headEnd" /\ c.left = r.length /\ c.chunked = r.chunked
        /\ c.got = client.got
    <3> DEFINE b == Writer!Header(r.length, r.chunked)
    <3>1. b[1] = "head" /\ b[2] = r.length /\ b[3] = r.chunked
      BY DEF Writer!Header
    <3> HIDE DEF b
    <3>2. r.length \in Nat /\ r.chunked \in BOOLEAN
      BY DEF Encodes
    <3>3. c = Writer!Step(b)
      BY <2>2 DEF b
    <3> QED BY <1>1, <1>2, <3>1, <3>2, <3>3, StepHead
  <2> QED BY <1>1, <2>1, <2>3 DEF PlainRead
<1>3. CASE client.at = "headEnd"
  <2>1. /\ k = 1 /\ k + 1 = 2 /\ client.got = <<>> /\ e[k + 1] = Break2
        /\ client.left = r.length /\ ~client.chunked
    BY <1>1, <1>3 DEF PlainRead
  <2>2. /\ c \in Clients /\ ~c.chunked /\ c.got = <<>> /\ c.left = r.length
        /\ c.at = IF r.length = 0 THEN "done" ELSE "content"
    BY <1>1, <1>3, <2>1, StepBreak DEF SameButAt
  <2>3. CASE r.length = 0
    BY <1>1, <2>1, <2>2, <2>3 DEF PlainRead, Encodes
  <2>4. CASE r.length # 0
    <3>1. r.length = n + 2 /\ 0 \in 0..n /\ k + 1 = 2 + 0 /\ n + 2 - 0 = n + 2
      BY <1>1, <2>1, <2>4 DEF Encodes
    <3>2. Writer!Bytes(1, 0) = <<>>
      BY FirstBytes
    <3> QED BY <2>2, <2>4, <3>1, <3>2 DEF PlainRead
  <2> QED BY <2>3, <2>4
<1>4. CASE client.at = "content"
  <2>1. PICK j \in 0..n : /\ k = 2 + j /\ client.left = n + 2 - j
                          /\ client.got = Writer!Bytes(1, j)
    BY <1>4 DEF PlainRead
  <2>2. r.length = n + 2 /\ ~client.chunked /\ n # 0
    <3>1. r.length = n + 2 /\ ~client.chunked
      BY <1>4 DEF PlainRead
    <3>2. n # 0
      BY <1>1, <2>1
    <3> QED BY <3>1, <3>2
  <2>3. CASE j < n
    <3> DEFINE x == Writer!Byte(j + 1)
    <3>1. /\ j \in Nat /\ j + 1 \in 0..n /\ j + 1 \in 1..n /\ k + 1 = 2 + (j + 1)
          /\ n + 2 - (j + 1) = (n + 2 - j) - 1 /\ n + 2 - (j + 1) # 0 /\ 1 <= n + 2 - j
      BY <1>1, <2>1, <2>3
    <3>2. x \in Items /\ Writer!Width(x) = 1
      <4>1. Writer!Width(x) = 1
        BY DEF Writer!Width, Writer!Byte
      <4> QED BY <3>1, <4>1, ItemsAre
    <3>3. c = Writer!Step(x)
      BY <1>1, <2>2, <3>1
    <3> HIDE DEF x
    <3>4. /\ c \in Clients /\ c.got = Append(client.got, x) /\ c.left = n + 2 - (j + 1)
          /\ c.at = "content" /\ ~c.chunked
      <4>1. /\ c \in Clients /\ c.got = Append(client.got, x)
            /\ c.left = client.left - Writer!Width(x)
            /\ c.chunked = client.chunked
            /\ c.at = IF c.left # 0 THEN "content"
                      ELSE IF client.chunked THEN "contentEnd" ELSE "done"
        <5>1. Writer!Width(x) \in Nat /\ Writer!Width(x) <= client.left
          BY <2>1, <3>1, <3>2
        <5> QED BY <1>1, <1>4, <3>2, <3>3, <5>1, StepContent
      <4> QED BY <2>1, <2>2, <3>1, <3>2, <4>1
    <3>5. c.got = Writer!Bytes(1, j + 1)
      BY <2>1, <3>1, <3>4, FirstBytes DEF x
    <3> QED BY <2>2, <3>1, <3>4, <3>5 DEF PlainRead
  <2>4. CASE ~(j < n)
    <3>1. j = n /\ k + 1 = n + 3 /\ client.left = 2 /\ client.got = Writer!Bytes(1, n)
      BY <1>1, <2>1, <2>4
    <3>2. c = Writer!Step(Break2) /\ Break2 \in Items /\ Writer!Width(Break2) = 2
      <4>1. Writer!Width(Break2) = 2
        BY DEF Writer!Width, Break2
      <4> QED BY <1>1, <2>2, <3>1, <4>1, ItemsAre
    <3>3. /\ c \in Clients /\ c.got = Append(client.got, Break2) /\ c.at = "done" /\ ~c.chunked
      <4>1. /\ c \in Clients /\ c.got = Append(client.got, Break2)
            /\ c.left = client.left - Writer!Width(Break2)
            /\ c.chunked = client.chunked
            /\ c.at = IF c.left # 0 THEN "content"
                      ELSE IF client.chunked THEN "contentEnd" ELSE "done"
        <5>1. Writer!Width(Break2) \in Nat /\ Writer!Width(Break2) <= client.left
          BY <3>1, <3>2
        <5> QED BY <1>1, <1>4, <3>2, <5>1, StepContent
      <4> QED BY <2>2, <3>1, <3>2, <4>1
    <3>4. c.got = Writer!Bytes(1, n) \o <<Break2>>
      <4>1. Writer!Bytes(1, n) \in Seq(Items)
        BY <1>1, FirstBytes
      <4>2. Append(Writer!Bytes(1, n), Break2) = Writer!Bytes(1, n) \o <<Break2>>
        BY <3>2, <4>1, AppendIsConcat
      <4> QED BY <3>1, <3>3, <4>2
    <3>5. k + 1 = Len(e)
      BY <1>1, <2>2, <3>1
    <3> HIDE DEF Break2
    <3> QED BY <2>2, <3>3, <3>4, <3>5 DEF PlainRead
  <2> QED BY <2>3, <2>4
<1>5. client.at # "done" /\ client.at # "cut"
  BY <1>1 DEF PlainRead
<1> QED BY <1>2, <1>3, <1>4, <1>5 DEF PlainRead

(* A response with its length that a script called chunked.                *)
MislabelledRead(k, c) ==
    /\ c \in Clients /\ c.at \in {"head", "headEnd", "size", "garbled", "cut"}
    /\ c.at = "head" => k = 0
    /\ c.at = "headEnd" => k = 1 /\ c.chunked
    /\ c.at = "size" => k >= 2

(* The client waits for a size that does not come.                         *)
LEMMA MislabelledStep ==
    ASSUME NEW r, NEW n, Encodes(r, n), r.chunked, NEW e, e = Writer!Plain(r),
           NEW k \in Nat, k < Len(e), MislabelledRead(k, client),
           NEW c, c = Writer!Step(e[k + 1])
    PROVE  MislabelledRead(k + 1, c)
<1>1. /\ client \in Clients /\ n \in Nat /\ Len(e) \in Nat
      /\ r.length \in Nat /\ r.chunked \in BOOLEAN
      /\ e \in Seq(Items) /\ e[1] = Writer!Header(r.length, r.chunked) /\ e[2] = Break2
      /\ n = 0 => Len(e) = 2
      /\ n # 0 => /\ Len(e) = n + 3 /\ e[n + 3] = Break2
                  /\ \A j \in 1..n : e[2 + j] = Writer!Byte(j)
  <2>1. Plainly(e, r, n)
    BY PlainLaid
  <2>2. r.length \in Nat /\ r.chunked \in BOOLEAN /\ n \in Nat /\ client \in Clients
    BY DEF MislabelledRead, Encodes
  <2> QED BY <2>1, <2>2, LenProperties DEF Plainly
<1>2. CASE client.at = "head"
  <2>1. k = 0 /\ k + 1 = 1
    BY <1>2 DEF MislabelledRead
  <2>2. c = Writer!Step(Writer!Header(r.length, r.chunked))
    BY <1>1, <2>1
  <2>3. c \in Clients /\ c.at = "headEnd" /\ c.chunked = r.chunked
    <3> DEFINE b == Writer!Header(r.length, r.chunked)
    <3>1. b[1] = "head" /\ b[2] = r.length /\ b[3] = r.chunked
      BY DEF Writer!Header
    <3> HIDE DEF b
    <3>2. r.length \in Nat /\ r.chunked \in BOOLEAN
      BY DEF Encodes
    <3>3. c = Writer!Step(b)
      BY <2>2 DEF b
    <3> QED BY <1>1, <1>2, <3>1, <3>2, <3>3, StepHead
  <2> QED BY <1>1, <2>1, <2>3 DEF MislabelledRead
<1>3. CASE client.at = "headEnd"
  <2>1. k = 1 /\ k + 1 = 2 /\ e[k + 1] = Break2 /\ client.chunked
    BY <1>1, <1>3 DEF MislabelledRead
  <2>2. c \in Clients /\ c.at = "size"
    BY <1>1, <1>3, <2>1, StepBreak
  <2> QED BY <2>1, <2>2 DEF MislabelledRead
<1>4. CASE client.at = "size"
  <2>1. k >= 2
    BY <1>4 DEF MislabelledRead
  <2>2. e[k + 1] = Break2 \/ \E j \in 1..n : e[k + 1] = Writer!Byte(j)
    <3>1. CASE n = 0
      <4>1. Len(e) = 2
        BY <1>1, <3>1
      <4> QED BY <2>1, <4>1
    <3>2. CASE n # 0 /\ k + 1 = n + 3
      BY <1>1, <3>2
    <3>3. CASE n # 0 /\ k + 1 # n + 3
      <4>1. k - 1 \in 1..n /\ k + 1 = 2 + (k - 1)
        BY <1>1, <2>1, <3>3
      <4> QED BY <1>1, <3>3, <4>1
    <3> QED BY <3>1, <3>2, <3>3
  <2>3. e[k + 1][1] # "size"
    BY <2>2 DEF Break2, Writer!Byte
  <2>4. c \in Clients /\ c.at = "garbled"
    BY <1>1, <1>4, <2>3, StepWrong
  <2> QED BY <2>4 DEF MislabelledRead
<1>5. CASE client.at \in {"garbled", "cut"}
  <2>1. c \in Clients /\ c.at = "garbled"
    BY <1>1, <1>5, StepWrong
  <2> QED BY <2>1 DEF MislabelledRead
<1> QED BY <1>2, <1>3, <1>4, <1>5 DEF MislabelledRead

(* What client has made of the k items it has read of what is sent.        *)
ClientAt(r, n, k, c) ==
    /\ Writer!TooLong(r.length) =>
          \E b : LaidOut(Writer!Encode(r), n, b) /\ ChunksRead(Writer!Encode(r), n, b, k, c)
    /\ ~Writer!TooLong(r.length) /\ ~r.chunked => PlainRead(Writer!Encode(r), r, n, k, c)
    /\ ~Writer!TooLong(r.length) /\ r.chunked => MislabelledRead(k, c)

(* Encoded are items, two or more.                                         *)
LEMMA EncodedItems ==
    ASSUME NEW r, NEW n, Encodes(r, n)
    PROVE  /\ Writer!Encode(r) \in Seq(Items) /\ Len(Writer!Encode(r)) \in Nat
           /\ Len(Writer!Encode(r)) >= 2
<1>1. CASE Writer!TooLong(r.length)
  <2>1. Writer!Encode(r) = Writer!Chunked(r)
    BY <1>1 DEF Writer!Encode
  <2>2. Writer!BodyLen(r) \in Nat
    BY DEF Encodes
  <2> QED BY <2>1, <2>2, ChunkedLaid, LenProperties DEF LaidOut
<1>2. CASE ~Writer!TooLong(r.length)
  <2>1. Writer!Encode(r) = Writer!Plain(r)
    BY <1>2 DEF Writer!Encode
  <2>2. Plainly(Writer!Encode(r), r, n) /\ n \in Nat
    BY <2>1, PlainLaid DEF Encodes
  <2> QED BY <2>2, LenProperties DEF Plainly
<1> QED BY <1>1, <1>2

(* A new client has read nothing.                                          *)
LEMMA ClientBegins ==
    ASSUME NEW r, NEW n, Encodes(r, n)
    PROVE  ClientAt(r, n, 0, Writer!NewClient)
<1> DEFINE c == Writer!NewClient
<1>1. c \in Clients /\ c.at = "head" /\ c.got = <<>>
  BY EmptySeq DEF Writer!NewClient, Clients
<1> HIDE DEF c
<1>2. ASSUME Writer!TooLong(r.length)
      PROVE  \E b : LaidOut(Writer!Encode(r), n, b) /\ ChunksRead(Writer!Encode(r), n, b, 0, c)
  <2>1. Writer!Encode(r) = Writer!Chunked(r) /\ Writer!BodyLen(r) = n /\ n \in Nat
    BY <1>2 DEF Writer!Encode, Encodes
  <2>2. PICK b : LaidOut(Writer!Encode(r), n, b)
    BY <2>1, ChunkedLaid
  <2>3. ChunksRead(Writer!Encode(r), n, b, 0, c)
    BY <1>1 DEF ChunksRead
  <2> QED BY <2>2, <2>3
<1>3. PlainRead(Writer!Encode(r), r, n, 0, c) /\ MislabelledRead(0, c)
  BY <1>1 DEF PlainRead, MislabelledRead
<1> QED BY <1>2, <1>3 DEF ClientAt, c

(* The next item takes it on.                                              *)
LEMMA ClientReads ==
    ASSUME NEW r, NEW n, Encodes(r, n), NEW k \in Nat, k < Len(Writer!Encode(r)),
           ClientAt(r, n, k, client), NEW c, c = Writer!Step(Writer!Encode(r)[k + 1])
    PROVE  ClientAt(r, n, k + 1, c)
<1> DEFINE e == Writer!Encode(r)
<1>1. ASSUME Writer!TooLong(r.length)
      PROVE  \E b : LaidOut(e, n, b) /\ ChunksRead(e, n, b, k + 1, c)
  <2>1. PICK b : LaidOut(e, n, b) /\ ChunksRead(e, n, b, k, client)
    BY <1>1 DEF ClientAt
  <2>2. n \in Nat
    BY DEF Encodes
  <2>3. ChunksRead(e, n, b, k + 1, c)
    BY <2>1, <2>2, ChunksStep
  <2> QED BY <2>1, <2>3
<1>2. ASSUME ~Writer!TooLong(r.length) PROVE e = Writer!Plain(r)
  BY <1>2 DEF Writer!Encode
<1>3. ASSUME ~Writer!TooLong(r.length), ~r.chunked PROVE PlainRead(e, r, n, k + 1, c)
  <2>1. PlainRead(e, r, n, k, client)
    BY <1>3 DEF ClientAt
  <2> QED BY <1>2, <1>3, <2>1, PlainStep
<1>4. ASSUME ~Writer!TooLong(r.length), r.chunked PROVE MislabelledRead(k + 1, c)
  <2>1. MislabelledRead(k, client)
    BY <1>4 DEF ClientAt
  <2> QED BY <1>2, <1>4, <2>1, MislabelledStep
<1> QED BY <1>1, <1>3, <1>4 DEF ClientAt

(* At the end of the input all is read: the response is whole, or its body *)
(* is empty, or it was mislabelled.                                        *)
LEMMA ClientEnds ==
    ASSUME NEW r, NEW n, Encodes(r, n), ClientAt(r, n, Len(Writer!Encode(r)), client),
           client.at \notin {"done", "garbled", "cut"},
           NEW c, c = [client EXCEPT !.at = "cut"]
    PROVE  ClientAt(r, n, Len(Writer!Encode(r)), c)
<1> DEFINE e == Writer!Encode(r)
           k == Len(e)
<1>1. k \in Nat /\ k >= 2 /\ k # 0 /\ k # 1
  <2>1. \A i \in Nat : i >= 2 => i # 0 /\ i # 1
    OBVIOUS
  <2> QED BY <2>1, EncodedItems
<1>2. ~Writer!TooLong(r.length)
  <2> SUFFICES ASSUME Writer!TooLong(r.length) PROVE FALSE
    OBVIOUS
  <2>1. PICK b : LaidOut(e, n, b) /\ ChunksRead(e, n, b, k, client)
    BY DEF ClientAt
  <2> HIDE DEF e
  <2>2. client \in Clients /\ client.at \in {"size", "sizeEnd", "content", "contentEnd"}
    BY <1>1, <2>1 DEF ChunksRead, Clients
  <2>3. CASE client.at = "size"
    <3>1. PICK o \in Nat : <<k, o>> \in b
      BY <2>1, <2>3 DEF ChunksRead
    <3>2. PICK z \in Nat : ChunkFrom(e, n, b, k, o, z)
      BY <1>1, <2>1, <3>1 DEF LaidOut
    <3>3. k + z + 3 <= Len(e)
      BY <3>2 DEF ChunkFrom, ChunkAt
    <3> QED BY <1>1, <3>3
  <2>4. CASE client.at \in {"sizeEnd", "content", "contentEnd"}
    <3>1. PICK p, o, z \in Nat : InChunk(e, n, b, k, client, p, o, z)
      BY <2>1, <2>4 DEF ChunksRead
    <3>2. p + z + 3 <= Len(e)
      BY <3>1 DEF InChunk, ChunkFrom, ChunkAt
    <3>3. k <= p + 2 + z
      <4>1. CASE client.at = "content"
        <5>1. client.left \in 1..z /\ k = p + 2 + (z - client.left)
          BY <3>1, <4>1 DEF InChunk
        <5>2. \A l \in 1..z : p + 2 + (z - l) <= p + 2 + z
          OBVIOUS
        <5> QED BY <5>1, <5>2
      <4>2. CASE client.at \in {"sizeEnd", "contentEnd"}
        <5>1. k = p + 1 \/ k = p + 2 + z
          BY <3>1, <4>2 DEF InChunk
        <5> QED BY <5>1
      <4> QED BY <2>4, <4>1, <4>2
    <3> QED BY <1>1, <3>2, <3>3
  <2> QED BY <2>2, <2>3, <2>4
<1>3. e = Writer!Plain(r)
  BY <1>2 DEF Writer!Encode
<1>4. client \in Clients => c \in Clients /\ c.at = "cut"
  BY DEF Clients
<1>5. ASSUME ~r.chunked PROVE PlainRead(e, r, n, k, c)
  <2>1. PlainRead(e, r, n, k, client)
    BY <1>2, <1>5 DEF ClientAt
  <2>2. n \in Nat /\ (n = 0 => Len(e) = 2) /\ (n # 0 => Len(e) = n + 3)
    <3>1. Plainly(e, r, n)
      BY <1>3, PlainLaid
    <3> HIDE DEF e
    <3> QED BY <3>1 DEF Plainly, Encodes
  <2>3. client.at = "content"
    <3>1. /\ client.at \in {"head", "headEnd", "content", "done", "cut"}
          /\ client.at = "head" => k = 0
          /\ client.at = "headEnd" => k = 1
      BY <2>1 DEF PlainRead
    <3> QED BY <1>1, <3>1, Zenon
  <2>4. PICK j \in 0..n : k = 2 + j
    BY <2>1, <2>3 DEF PlainRead
  <2>5. n = 0 /\ r.length = 2
    <3>1. r.length = n + 2
      BY <2>1, <2>3 DEF PlainRead
    <3> QED BY <2>2, <2>4, <3>1
  <2> QED BY <1>4, <2>1, <2>5 DEF PlainRead
<1>6. ASSUME r.chunked PROVE MislabelledRead(k, c)
  <2>1. MislabelledRead(k, client)
    BY <1>2, <1>6 DEF ClientAt
  <2> QED BY <1>4, <2>1 DEF MislabelledRead
<1> QED BY <1>2, <1>5, <1>6 DEF ClientAt

(* What of the response the client has read, what is on its way and what   *)
(* is not sent make up the response.                                       *)
OnItsWay(r, n, read, w, u, c) ==
    /\ w \in Seq(Items) /\ u \in Seq(Items) /\ Writer!Encode(r) = read \o (w \o u)
    /\ ClientAt(r, n, Len(read), c)

ContentLen == CASE pc = "ok" -> Len(response)
                [] pc = "error" -> 0
                [] OTHER -> sent.length - 2

WriterInv ==
    /\ pc = "ok" => response \in Seq(Symbols)
    /\ closed => unsent = <<>>
    /\ sent = NoSent => /\ unsent = <<>> /\ wire = <<>> /\ ~closed
                        /\ client = Writer!NewClient
    /\ sent # NoSent =>
          /\ Encodes(sent, ContentLen)
          /\ \E read \in Seq(Items) : OnItsWay(sent, ContentLen, read, wire, unsent, client)

(* The first of a sequence, and the others.                                *)
LEMMA FirstMoves ==
    ASSUME NEW S, NEW s \in Seq(S), NEW t \in Seq(S), t # <<>>
    PROVE  /\ <<Head(t)>> \in Seq(S) /\ Tail(t) \in Seq(S)
           /\ s \o t = (s \o <<Head(t)>>) \o Tail(t)
           /\ Append(s, Head(t)) = s \o <<Head(t)>>
           /\ s \o <<Head(t)>> \in Seq(S) /\ Len(s \o <<Head(t)>>) = Len(s) + 1
           /\ (s \o t)[Len(s) + 1] = Head(t)
           /\ Len(s) \in Nat /\ Len(s) < Len(s \o t)
<1> DEFINE h == Head(t)
           u == Tail(t)
<1>1. h \in S /\ u \in Seq(S)
  BY HeadTailProperties
<1>2. <<h>> \in Seq(S) /\ Len(<<h>>) = 1
  BY <1>1
<1>3. t = <<h>> \o u
  <2>1. Len(t) \in Nat \ {0} /\ Len(u) = Len(t) - 1
    BY EmptySeq, LenProperties, HeadTailProperties
  <2>2. \A i \in 1..Len(u) : u[i] = t[i + 1]
    BY HeadTailProperties
  <2>3. t[1] = h
    BY DEF h
  <2> HIDE DEF h, u
  <2>4. <<h>> \o u \in Seq(S) /\ Len(<<h>> \o u) = Len(t)
    <3>1. 1 + Len(u) = Len(t)
      BY <2>1
    <3> QED BY <1>1, <1>2, <3>1, ConcatProperties
  <2>5. ASSUME NEW i \in 1..Len(t) PROVE t[i] = (<<h>> \o u)[i]
    <3>1. CASE i = 1
      <4>1. 1 \in 1..Len(<<h>>) /\ <<h>>[1] = h
        BY <1>2
      <4>2. (<<h>> \o u)[1] = <<h>>[1]
        BY <1>1, <1>2, <4>1, FrontItem
      <4> QED BY <2>3, <3>1, <4>1, <4>2
    <3>2. CASE i # 1
      <4>1. i - 1 \in 1..Len(u) /\ (i - 1) + 1 = i /\ 1 + (i - 1) = i
        BY <2>1, <3>2
      <4>2. \A x \in 1..Len(u) : (<<h>> \o u)[Len(<<h>>) + x] = u[x]
        BY <1>1, <1>2, BackItem
      <4>3. (<<h>> \o u)[i] = u[i - 1]
        BY <1>2, <4>1, <4>2
      <4> QED BY <2>2, <4>1, <4>3
    <3> QED BY <3>1, <3>2
  <2> QED BY <2>4, <2>5, SeqEqual
<1> HIDE DEF u
<1>4. s \o t = (s \o <<h>>) \o u
  <2>1. (s \o <<h>>) \o u = s \o (<<h>> \o u)
    BY <1>1, <1>2, ConcatAssociative
  <2> HIDE DEF h
  <2> QED BY <1>3, <2>1, Zenon
<1>5. Append(s, h) = s \o <<h>>
  BY <1>1, AppendIsConcat
<1>6. s \o <<h>> \in Seq(S) /\ Len(s \o <<h>>) = Len(s) + 1 /\ Len(s) \in Nat
  BY <1>2, ConcatProperties, LenProperties
<1>7. (s \o t)[Len(s) + 1] = h /\ Len(s) < Len(s \o t)
  <2>1. Len(t) \in Nat \ {0} /\ 1 \in 1..Len(t)
    BY EmptySeq, LenProperties
  <2>2. (s \o t)[Len(s) + 1] = t[1]
    BY <2>1, BackItem
  <2>3. Len(s \o t) = Len(s) + Len(t)
    BY ConcatProperties
  <2>4. t[1] = h
    OBVIOUS
  <2> HIDE DEF h
  <2> QED BY <1>6, <2>1, <2>2, <2>3, <2>4
<1> QED BY <1>1, <1>2, <1>4, <1>5, <1>6, <1>7 DEF u



(* A byte is sent, the stream closed.                                      *)
LEMMA SendsKept ==
    ASSUME WriterInv, sent # NoSent, UNCHANGED vars, Writer!Send \/ Writer!Close
    PROVE  WriterInv'
<1>1. /\ pc' = pc /\ response' = response /\ sent' = sent /\ client' = client
  BY DEF vars, server, Writer!Send, Writer!Close
<1>2. ContentLen' = ContentLen
  BY <1>1 DEF ContentLen
<1>3. PICK read \in Seq(Items) : OnItsWay(sent, ContentLen, read, wire, unsent, client)
  BY DEF WriterInv
<1>4. CASE Writer!Send
  <2>1. /\ unsent # <<>> /\ wire' = Append(wire, Head(unsent)) /\ unsent' = Tail(unsent)
        /\ closed' = closed /\ ~closed
    BY <1>4 DEF Writer!Send, WriterInv
  <2>2. wire \in Seq(Items) /\ unsent \in Seq(Items)
    BY <1>3 DEF OnItsWay
  <2>3. /\ wire' \in Seq(Items) /\ unsent' \in Seq(Items)
        /\ wire \o unsent = wire' \o unsent'
    BY <2>1, <2>2, FirstMoves
  <2>4. OnItsWay(sent', ContentLen', read, wire', unsent', client')
    BY <1>1, <1>2, <1>3, <2>3 DEF OnItsWay
  <2> QED BY <1>1, <1>2, <2>1, <2>4 DEF WriterInv
<1>5. CASE Writer!Close
  <2>1. unsent = <<>> /\ unsent' = unsent /\ wire' = wire
    BY <1>5 DEF Writer!Close
  <2>2. OnItsWay(sent', ContentLen', read, wire', unsent', client')
    BY <1>1, <1>2, <1>3, <2>1
  <2> QED BY <1>1, <1>2, <2>1, <2>2 DEF WriterInv
<1> QED BY <1>4, <1>5

(* The client reads, up to the end of the input.                           *)
LEMMA ReceivesKept ==
    ASSUME WriterInv, sent # NoSent, UNCHANGED vars, Writer!Receive \/ Writer!EndOfInput
    PROVE  WriterInv'
<1>1. /\ pc' = pc /\ response' = response /\ sent' = sent /\ unsent' = unsent
      /\ closed' = closed
  BY DEF vars, server, Writer!Receive, Writer!EndOfInput
<1>2. ContentLen' = ContentLen
  BY <1>1 DEF ContentLen
<1>3. PICK read \in Seq(Items) : OnItsWay(sent, ContentLen, read, wire, unsent, client)
  BY DEF WriterInv
<1>4. /\ wire \in Seq(Items) /\ unsent \in Seq(Items) /\ Encodes(sent, ContentLen)
      /\ Writer!Encode(sent) = read \o (wire \o unsent)
      /\ ClientAt(sent, ContentLen, Len(read), client)
  BY <1>3 DEF OnItsWay, WriterInv
<1>5. CASE Writer!Receive
  <2>1. wire # <<>> /\ wire' = Tail(wire) /\ client' = Writer!Step(Head(wire))
    BY <1>5 DEF Writer!Receive
  <2> DEFINE more == read \o <<Head(wire)>>
             rest == wire \o unsent
  <2>2. /\ rest \in Seq(Items) /\ rest # <<>> /\ Head(rest) = Head(wire)
        /\ Tail(rest) = wire' \o unsent /\ wire' \in Seq(Items)
    <3>1. /\ Head(wire) \in Items /\ wire' \in Seq(Items)
          /\ rest \in Seq(Items)
      BY <1>4, <2>1, HeadTailProperties, ConcatProperties
    <3>2. rest # <<>> /\ Head(rest) = Head(wire)
      <4>1. Len(rest) = Len(wire) + Len(unsent) /\ Len(wire) \in Nat \ {0} /\ Len(unsent) \in Nat
        BY <1>4, <2>1, ConcatProperties, LenProperties, EmptySeq
      <4>2. 1 \in 1..Len(wire)
        BY <4>1
      <4>3. rest[1] = wire[1]
        BY <1>4, <4>2, FrontItem
      <4> QED BY <3>1, <4>1, <4>3, EmptySeq
    <3>3. Tail(rest) = wire' \o unsent
      BY <1>4, <2>1, ConcatSimplifications
    <3> QED BY <3>1, <3>2, <3>3
  <2> HIDE DEF rest
  <2>3. /\ more \in Seq(Items) /\ Len(more) = Len(read) + 1 /\ Len(read) \in Nat
        /\ Writer!Encode(sent) = more \o (wire' \o unsent)
        /\ Len(read) < Len(Writer!Encode(sent))
        /\ Writer!Encode(sent)[Len(read) + 1] = Head(wire)
    <3>1. Writer!Encode(sent) = read \o rest
      BY <1>4 DEF rest
    <3> DEFINE first == <<Head(rest)>>
    <3>2. /\ read \o first \in Seq(Items) /\ Len(read \o first) = Len(read) + 1
          /\ Len(read) \in Nat /\ read \o rest = (read \o first) \o Tail(rest)
          /\ Len(read) < Len(read \o rest) /\ (read \o rest)[Len(read) + 1] = Head(rest)
      <4>1. read \in Seq(Items) /\ rest \in Seq(Items) /\ rest # <<>>
        BY <2>2
      <4> QED BY <4>1, FirstMoves
    <3>3. read \o first = more
      BY <2>2
    <3> HIDE DEF first, more
    <3> QED BY <2>2, <3>1, <3>2, <3>3
  <2> HIDE DEF more
  <2>4. ClientAt(sent, ContentLen, Len(read) + 1, client')
    <3>1. client' = Writer!Step(Writer!Encode(sent)[Len(read) + 1])
      BY <2>1, <2>3
    <3> QED BY <1>4, <2>3, <3>1, ClientReads
  <2>5. OnItsWay(sent', ContentLen', more, wire', unsent', client')
    BY <1>1, <1>2, <1>4, <2>2, <2>3, <2>4 DEF OnItsWay
  <2> QED BY <1>1, <1>2, <1>4, <2>3, <2>5 DEF WriterInv
<1>6. CASE Writer!EndOfInput
  <2>1. /\ closed /\ wire = <<>> /\ wire' = wire /\ unsent = <<>>
        /\ client.at \notin {"done", "garbled", "cut"}
        /\ client' = [client EXCEPT !.at = "cut"]
    BY <1>6 DEF Writer!EndOfInput, WriterInv
  <2>2. Writer!Encode(sent) = read
    BY <1>4, <2>1, ConcatEmptySeq
  <2>3. ClientAt(sent, ContentLen, Len(read), client')
    BY <1>4, <2>1, <2>2, ClientEnds
  <2>4. OnItsWay(sent', ContentLen', read, wire', unsent', client')
    BY <1>1, <1>2, <1>4, <2>1, <2>3 DEF OnItsWay
  <2> QED BY <1>1, <1>2, <1>4, <2>1, <2>4 DEF WriterInv
<1> QED BY <1>5, <1>6

(* While the script runs nothing is sent, and an answer is text.           *)
LEMMA HandlesKept ==
    ASSUME HandlerInv, WriterInv, Handle, UNCHANGED writing, sent = NoSent \/ Script \/ ScriptDies
    PROVE  WriterInv'
<1>1. /\ sent' = sent /\ unsent' = unsent /\ wire' = wire /\ closed' = closed
      /\ client' = client
  BY DEF writing
<1>2. CASE Script \/ ScriptDies
  <2>1. pc' = pc /\ response' = response
    BY <1>2 DEF Script, ScriptReads, ScriptPrints, ScriptEnds, ScriptDies, server
  <2>2. ContentLen' = ContentLen
    BY <1>1, <2>1 DEF ContentLen
  <2> QED BY <1>1, <2>1, <2>2 DEF WriterInv
<1>3. CASE sent = NoSent /\ Server
  <2>1. pc' = "ok" => response' \in Seq(Symbols)
    <3>1. CASE EndOfOutput
      <4>1. pc' = "ok" => response' = Section(Behind(collected))
        BY <3>1 DEF EndOfOutput, BodySection
      <4>2. Section(Behind(collected)) \in Seq(Symbols)
        <5>1. Behind(collected) \in Seq(Symbols)
          BY SectionBegins DEF HandlerInv, HandlerTyped
        <5> QED BY <5>1, SectionBegins
      <4> QED BY <4>1, <4>2
    <3>2. CASE ~EndOfOutput
      BY <1>3, <3>2
      DEF Server, SpawnFails, Spawn, WriteBody, WriteFails, EndOfBody, ReadOutput
    <3> QED BY <3>1, <3>2
  <2> QED BY <1>1, <1>3, <2>1 DEF WriterInv
<1> QED BY <1>2, <1>3 DEF Handle

(* What the handlers return can be encoded, and nothing of it is read.     *)
LEMMA WritesKept ==
    ASSUME WriterInv, ScriptHandled \/ OtherHandled
    PROVE  WriterInv'
<1>1. PICK r : sent = NoSent /\ Write(r) /\ r \in [length : Nat, chunked : BOOLEAN]
               /\ \/ pc = "ok" /\ r.length = Len(response) + 2
                  \/ pc = "error" /\ r.length = 0
                  \/ pc = "spawn" /\ \E n \in Nat : r.length = n + 2
  <2>1. CASE ScriptHandled /\ pc = "ok"
    <3>1. PICK own \in BOOLEAN : Write([length |-> Len(response) + 2, chunked |-> own])
      BY <2>1 DEF ScriptHandled
    <3>2. Len(response) + 2 \in Nat
      BY <2>1, LenProperties DEF WriterInv
    <3> QED BY <2>1, <3>1, <3>2 DEF ScriptHandled
  <2>2. CASE ScriptHandled /\ pc # "ok"
    <3> DEFINE r == [length |-> 0, chunked |-> FALSE]
    <3>1. sent = NoSent /\ pc = "error" /\ Write(r)
      BY <2>2 DEF ScriptHandled
    <3>2. r \in [length : Nat, chunked : BOOLEAN] /\ r.length = 0
      OBVIOUS
    <3> HIDE DEF r
    <3> QED BY <3>1, <3>2
  <2>3. CASE OtherHandled
    <3>1. PICK n \in 0..MaxBody : Write([length |-> n + 2, chunked |-> FALSE])
      BY <2>3 DEF OtherHandled
    <3>2. n \in Nat /\ n + 2 \in Nat
      BY WriterAssumption
    <3> DEFINE r == [length |-> n + 2, chunked |-> FALSE]
    <3>3. r \in [length : Nat, chunked : BOOLEAN] /\ r.length = n + 2
      BY <3>2
    <3>4. sent = NoSent /\ pc = "spawn" /\ Write(r)
      BY <2>3, <3>1 DEF OtherHandled
    <3> HIDE DEF r
    <3> QED BY <3>2, <3>3, <3>4
  <2> QED BY <2>1, <2>2, <2>3
<1>2. /\ sent' = r /\ unsent' = Writer!Encode(r) /\ wire' = wire /\ closed' = closed
      /\ client' = client /\ pc' = pc /\ response' = response
      /\ wire = <<>> /\ ~closed /\ client = Writer!NewClient
      /\ sent' # NoSent
  BY <1>1, WriterAssumption DEF Write, WriterInv, vars, server
<1>3. Encodes(sent', ContentLen')
  <2>1. r.length \in Nat /\ r.chunked \in BOOLEAN
    BY <1>1
  <2>2. CASE pc = "ok"
    <3>1. ContentLen' = Len(response) /\ Len(response) \in Nat
      BY <1>2, <2>2, LenProperties DEF ContentLen, WriterInv
    <3>2. r.length = Len(response) + 2
      BY <1>1, <2>2
    <3> QED BY <1>2, <2>1, <3>1, <3>2 DEF Encodes, Writer!BodyLen
  <2>3. CASE pc = "error"
    <3>1. ContentLen' = 0 /\ r.length = 0
      BY <1>1, <1>2, <2>3 DEF ContentLen
    <3> QED BY <1>2, <2>1, <3>1 DEF Encodes, Writer!BodyLen
  <2>4. CASE pc = "spawn"
    <3>1. PICK n \in Nat : r.length = n + 2
      BY <1>1, <2>4
    <3>2. ContentLen' = n
      BY <1>2, <2>4, <3>1 DEF ContentLen
    <3> QED BY <1>2, <2>1, <3>1, <3>2 DEF Encodes, Writer!BodyLen
  <2> QED BY <1>1, <2>2, <2>3, <2>4
<1>4. OnItsWay(sent', ContentLen', <<>>, wire', unsent', client')
  <2>1. /\ Writer!Encode(sent') \in Seq(Items)
        /\ ClientAt(sent', ContentLen', 0, Writer!NewClient)
    BY <1>3, EncodedItems, ClientBegins
  <2>2. /\ wire' = <<>> /\ unsent' = Writer!Encode(sent') /\ client' = Writer!NewClient
    BY <1>2
  <2>3. <<>> \o (<<>> \o unsent') = unsent' /\ <<>> \in Seq(Items) /\ Len(<<>>) = 0
    BY <2>1, <2>2, ConcatEmptySeq, EmptySeq
  <2> QED BY <2>1, <2>2, <2>3 DEF OnItsWay
<1>5. <<>> \in Seq(Items)
  BY EmptySeq
<1> QED BY <1>2, <1>3, <1>4, <1>5 DEF WriterInv

(* Whatever server, script and client do.                                  *)
LEMMA WriterAlways == ExchangeSpec => []WriterInv
<1>1. ExchangeInit => WriterInv
  BY DEF ExchangeInit, Init, WriterInv
<1>2. HandlerInv /\ WriterInv /\ [ExchangeNext]_exchange => WriterInv'
  <2> SUFFICES ASSUME HandlerInv, WriterInv, [ExchangeNext]_exchange PROVE WriterInv'
    OBVIOUS
  <2>1. CASE UNCHANGED exchange
    <3>1. /\ pc' = pc /\ response' = response /\ sent' = sent /\ unsent' = unsent
          /\ wire' = wire /\ closed' = closed /\ client' = client
      BY <2>1 DEF exchange, vars, server, writing
    <3>2. ContentLen' = ContentLen
      BY <3>1 DEF ContentLen
    <3> QED BY <3>1, <3>2 DEF WriterInv
  <2>2. CASE ServerThread
    <3>1. CASE sent = NoSent /\ Server /\ UNCHANGED writing
      BY <3>1, HandlesKept DEF Handle
    <3>2. CASE ScriptHandled \/ OtherHandled
      BY <3>2, WritesKept
    <3>3. CASE Writing /\ (Writer!Send \/ Writer!Close)
      BY <3>3, SendsKept DEF Writing
    <3> QED BY <2>2, <3>1, <3>2, <3>3 DEF ServerThread
  <2>3. CASE ScriptProcess \/ (ScriptDies /\ UNCHANGED writing)
    BY <2>3, HandlesKept DEF ScriptProcess, Handle
  <2>4. CASE Client
    BY <2>4, ReceivesKept DEF Client, Writing
  <2> QED BY <2>1, <2>2, <2>3, <2>4 DEF ExchangeNext
<1> QED BY <1>1, <1>2, HandlerAlways, PTL DEF ExchangeSpec

(* A client that has reached an end: what the response was.                *)
LEMMA ClientDone ==
    ASSUME WriterInv
    PROVE  /\ client.at \in {"done", "garbled", "cut"} => sent # NoSent
           /\ client.at = "done" =>
                 /\ client.got = IF client.chunked \/ Content = <<>> THEN Content
                                 ELSE Content \o Writer!CRLF
                 /\ wire = <<>> /\ unsent = <<>>
           /\ client.at = "garbled" => Mislabelled
           /\ client.at = "cut" => Mislabelled \/ (Content = <<>> /\ sent.length = 2)
<1>1. sent = NoSent => client.at = "head"
  BY DEF WriterInv, Writer!NewClient
<1>2. CASE sent = NoSent
  BY <1>1, <1>2
<1>3. CASE sent # NoSent
  <2> DEFINE n == ContentLen
             e == Writer!Encode(sent)
  <2>1. PICK read \in Seq(Items) : OnItsWay(sent, ContentLen, read, wire, unsent, client)
    BY <1>3 DEF WriterInv
  <2>2. /\ Encodes(sent, n) /\ wire \in Seq(Items) /\ unsent \in Seq(Items)
        /\ e = read \o (wire \o unsent) /\ ClientAt(sent, n, Len(read), client)
    BY <1>3, <2>1 DEF OnItsWay, WriterInv
  <2>3. Content = Writer!Bytes(1, n)
    BY DEF Content, ContentLen
  <2>4. n \in Nat
    BY <2>2 DEF Encodes
  <2> HIDE DEF n, e
  <2>5. Content = <<>> <=> n = 0
    <3>1. Len(Content) = n /\ (n = 0 => Content = <<>>)
      BY <2>3, <2>4, FirstBytes
    <3> QED BY <3>1, EmptySeq
  <2>6. Len(read) = Len(e) => wire = <<>> /\ unsent = <<>>
    <3>1. /\ Len(e) = Len(read) + (Len(wire) + Len(unsent))
          /\ Len(read) \in Nat /\ Len(wire) \in Nat /\ Len(unsent) \in Nat
      <4>1. wire \o unsent \in Seq(Items) /\ Len(wire \o unsent) = Len(wire) + Len(unsent)
        BY <2>2, ConcatProperties
      <4>2. Len(e) = Len(read) + Len(wire \o unsent)
        BY <2>2, <4>1, ConcatProperties
      <4> QED BY <2>2, <4>1, <4>2, LenProperties
    <3>2. Len(read) = Len(e) => Len(wire) = 0 /\ Len(unsent) = 0
      BY <3>1
    <3> QED BY <2>2, <3>2, EmptySeq
  <2>7. CASE Writer!TooLong(sent.length)
    <3>1. PICK b : LaidOut(e, n, b) /\ ChunksRead(e, n, b, Len(read), client)
      BY <2>2, <2>7 DEF ClientAt, e
    <3>2. /\ client.at \notin {"garbled", "cut"}
          /\ client.at = "done" => /\ Len(read) = Len(e) /\ client.chunked
                                   /\ client.got = Writer!Bytes(1, n)
      BY <3>1 DEF ChunksRead
    <3> QED BY <1>3, <2>3, <2>6, <3>2
  <2>8. CASE ~Writer!TooLong(sent.length) /\ ~sent.chunked
    <3>1. PlainRead(e, sent, n, Len(read), client)
      BY <2>2, <2>8 DEF ClientAt, e
    <3>2. /\ client.at # "garbled"
          /\ client.at = "cut" => n = 0 /\ sent.length = 2
          /\ client.at = "done" =>
                /\ Len(read) = Len(e) /\ ~client.chunked
                /\ client.got = IF n = 0 THEN <<>> ELSE Writer!Bytes(1, n) \o <<Break2>>
      BY <3>1 DEF PlainRead
    <3> QED BY <1>3, <2>3, <2>5, <2>6, <3>2, CRLFIsBreak
  <2>9. CASE ~Writer!TooLong(sent.length) /\ sent.chunked
    <3>1. MislabelledRead(Len(read), client)
      BY <2>2, <2>9 DEF ClientAt
    <3>2. client.at # "done" /\ Mislabelled
      BY <2>9, <3>1 DEF MislabelledRead, Mislabelled
    <3> QED BY <1>3, <3>2
  <2> QED BY <2>7, <2>8, <2>9
<1> QED BY <1>2, <1>3

(* A client that reads a response to its end has the body, for bodies and  *)
(* chunks of any length (write_response, write_chunked, write_chunk).      *)
THEOREM ResponsesDecode == ExchangeSpec => []DecodesToBody
<1>1. WriterInv => DecodesToBody
  BY ClientDone DEF DecodesToBody
<1> QED BY <1>1, WriterAlways, PTL

(* No response ends early but an empty one announced as two bytes, and one *)
(* the script called chunked (get_content, write_response).                *)
THEOREM OnlyEmptyCut == ExchangeSpec => []CutOnlyIfEmpty
<1>1. WriterInv => CutOnlyIfEmpty
  BY ClientDone DEF CutOnlyIfEmpty
<1> QED BY <1>1, WriterAlways, PTL
=============================================================================
