------------------------- MODULE MCSequentialServer -------------------------
(* SequentialServer for TLC: files of lines that show their structure and  *)
(* lines that decide how the program starts.                               *)
EXTENDS SequentialServer

Line(k) == [kind |-> k, field |-> "", value |-> ""]
Sets(f, v) == [kind |-> "directive", field |-> f, value |-> v]

BlockLinesOnly ==
    {Line(k) : k \in {"blank", "open", "close"}}
        \cup {Sets("Listen", "good"), Sets("ServerName", "good"), Sets("ServerName", "better")}

StartLines ==
    {Line(k) : k \in {"blank", "spaces", "open", "close", "indentedClose", "other"}}
        \cup {Sets("Listen", "good"), Sets("Listen", "bad"), Sets("CacheSize", "huge")}
        \cup {Sets("ThreadPoolSize", v) : v \in {"good", "zero", "bad"}}

AllTexts == SeqOf(BlockLinesOnly, 5) \cup SeqOf(StartLines, 3)
=============================================================================
