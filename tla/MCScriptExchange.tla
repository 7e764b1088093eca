-------------------------- MODULE MCScriptExchange --------------------------
(* ScriptExchange for TLC: short bodies of every form, and bodies of up to *)
(* two pipes and more.                                                     *)
EXTENDS ScriptExchange

Long(n) == [i \in 1..n |-> "text"]

AllBodies == SeqOf({"text", "nl"}, 4) \cup {Long(n) : n \in 0..(2 * PipeSize + 2)}

AllHeaders == {<<"field", "nl", "nl">>, <<"field", "nl", "field", "nl", "nl">>,
               <<"nl", "nl">>, <<"text", "nl", "nl">>, <<"field", "nl", "text", "nl">>,
               <<"field", "nl", "nl", "byte">>, <<"field">>,
               <<"field", "text", "nl", "nl">>}
=============================================================================
