------------------------------- MODULE MCParts -------------------------------
(***************************************************************************)
(* The parts of the facility that work on their own, each on a small       *)
(* instance, for one run of TLC: a behaviour chooses its part at the start *)
(* and takes the steps of that part alone; the variables of the others     *)
(* keep their first values.                                                *)
(***************************************************************************)
EXTENDS Parts, JobText, Config, TLC

CONSTANTS p1, p2, p3, s1, s2  \* processes, sites

VARIABLE part

-----------------------------------------------------------------------------
(* The timers, in seconds that stand for more: reap as it is, poll for jobs  *)
(* (and for queman's check), clean for the slow ones of jobman             *)

MCTask == {"reap", "poll", "clean"}
MCFirst == [reap |-> 0, poll |-> 2, clean |-> 4]
MCEvery == [reap |-> 1, poll |-> 3, clean |-> 5]
MCCap == [reap |-> 0, poll |-> 1, clean |-> 2]

\* A number in three bytes of a bit each, the lowest first
MCBytesOf == [v \in 0..7 |-> [k \in 1..3 |-> (v \div 2^(k - 1)) % 2]]

MCSiteOf == p1 :> s1 @@ p2 :> s1 @@ p3 :> s2
MCZoneOf == s1 :> 1 @@ s2 :> 2

MCQueue == <<"a", "b">>

\* Listings forwards and backwards
States == <<"hold", "pend", "run", "tied", "kill", "done">>
StatesBackwards == <<"done", "kill", "tied", "run", "pend", "hold">>
MCOrders ==
  UNION {{SelectSeq(all, LAMBDA d : d \in some) : all \in {States, StatesBackwards}} :
           some \in SUBSET {"hold", "pend", "run", "tied", "kill", "done"}}

Text(t, n) == [type |-> "text", text |-> t, num |-> n]

\* A job's end, a job that is stuck with an error, and one for other conversions
MCMessage ==
  {[level |-> "info", format |-> <<"j", "%", "d", " ", "%", "d", ":", "%", "d">>,
    args |-> <<[type |-> "number", text |-> <<"1">>, num |-> <<"1">>],
               [type |-> "number", text |-> <<"-", "2">>, num |-> <<"-", "2">>],
               [type |-> "bool", text |-> <<"t">>, num |-> <<"1">>]>>],
   [level |-> "error", format |-> <<"j", "%", "s", "\n", "%", "s", "!">>,
    args |-> <<[type |-> "status", text |-> <<"e", "%", "s">>, num |-> <<"4">>],
               Text(<<"a", "%", "d", " ", "%">>, <<"5">>)>>],
   [level |-> "warn", format |-> <<"%", "x", "%", "c", "%", "p", "%", "s">>,
    args |-> <<[type |-> "status", text |-> <<"e">>, num |-> <<"4">>],
               [type |-> "double", text |-> <<"1", ".", "5">>, num |-> <<"1">>],
               Text(<<"%">>, <<"1">>), Text(<<>>, <<"0">>)>>]}

MCReceived == <<"S">>

MCPrinted == {"word", "## ", "Section: result", NL}

ASSUME
  /\ Ids!SeqNumAssumption /\ Call!IsafeAssumption /\ Search!FinderAssumption
  /\ Scripts!QueueScriptsAssumption /\ JobTextAssumption /\ ConfigAssumption
  /\ Log!LoggerAssumption /\ Listing!NamesAssumption

\* What theorems assume besides, and what is not so where the README shows that it
\* is needed
ASSUME
  /\ \A m \in Message : Log!WellMade(m) /\ Log!Logs(m.level)
  /\ ~Log!Logs("verbose")
  /\ Listing!ClockShown

-----------------------------------------------------------------------------

loopVars == vars
idVars == <<idFile, idLock, idPc, idOp, value, given, idMade, calls>>
callVars == <<callOp, callPc, num, effect, errno, naps>>
findVars == <<jobState, queue, stored, version, findPc, findQ, findS, found, seen, back, moved>>
logVars == <<logPc, msg, arg, fmt, logI, last, out, signalled, told>>
nameVars == <<pend, now>>
shVars == <<dirs, conf, place, hand, shPc, shS, active, asks, dir, names, todo, came>>
textsVars == <<typed, cfgText>>

partsVars == <<part, loopVars, idVars, callVars, findVars, logVars, textVars, nameVars, shVars, textsVars>>

\* Someone types a text, key by key
WordKeys == {<<"a">>, <<" ">>, <<"~">>, <<"'">>, <<"\"">>, <<"\\">>, <<"$">>, <<";">>, <<"\n">>}
ConfigKeys == {<<"a", ":">>, <<"b", "\n">>, <<" ">>, <<"#">>, <<"[", "s", "]", "\n">>, <<"\n">>}

TypesWords == \E key \in WordKeys : Len(typed) < 4 /\ typed' = typed \o key /\ UNCHANGED cfgText
TypesConfig == \E key \in ConfigKeys : Len(cfgText) < 5 /\ cfgText' = cfgText \o key /\ UNCHANGED typed

PartsInit ==
  /\ part \in {"loop", "ids", "call", "find", "log", "text", "names", "sh", "words", "config"}
  /\ Init
  /\ Ids!Init
  /\ Call!Init /\ (part # "call" => callOp = "open")
  /\ Search!Init /\ (part # "find" => jobState = "done" /\ queue = 1)
  /\ Log!Init
  /\ TextInit
  /\ Listing!Init /\ (part # "names" => now = 100)
  /\ Scripts!Init
  /\ typed = <<>>
  /\ cfgText = <<>>

Only(a, b, c, d, e, f, g, h) == UNCHANGED <<part, a, b, c, d, e, f, g, h>>

PartsNext ==
  \/ part = "loop" /\ Next
       /\ Only(idVars, callVars, findVars, logVars, textVars, nameVars, shVars, textsVars)
  \/ part = "ids" /\ Ids!Next
       /\ Only(loopVars, callVars, findVars, logVars, textVars, nameVars, shVars, textsVars)
  \/ part = "call" /\ Call!Next
       /\ Only(loopVars, idVars, findVars, logVars, textVars, nameVars, shVars, textsVars)
  \/ part = "find" /\ Search!Next
       /\ Only(loopVars, idVars, callVars, logVars, textVars, nameVars, shVars, textsVars)
  \/ part = "log" /\ Log!Next
       /\ Only(loopVars, idVars, callVars, findVars, textVars, nameVars, shVars, textsVars)
  \/ part = "text" /\ TextNext
       /\ Only(loopVars, idVars, callVars, findVars, logVars, nameVars, shVars, textsVars)
  \/ part = "names" /\ Listing!Next
       /\ Only(loopVars, idVars, callVars, findVars, logVars, textVars, shVars, textsVars)
  \/ part = "sh" /\ Scripts!Next
       /\ Only(loopVars, idVars, callVars, findVars, logVars, textVars, nameVars, textsVars)
  \/ part = "words" /\ TypesWords
       /\ Only(loopVars, idVars, callVars, findVars, logVars, textVars, nameVars, shVars)
  \/ part = "config" /\ TypesConfig
       /\ Only(loopVars, idVars, callVars, findVars, logVars, textVars, nameVars, shVars)

PartsSpec ==
  /\ PartsInit
  /\ [][PartsNext]_partsVars
  /\ WF_loopVars(part = "loop" /\ Awake)
  /\ SF_loopVars(part = "loop" /\ Slept)
  /\ \A p \in {p1, p2, p3} :
       /\ SF_idVars(part = "ids" /\ Ids!Lock(p))
       /\ WF_idVars(part = "ids" /\ Ids!Step(p))
       /\ SF_idVars(part = "ids" /\ Ids!Write(p) /\ idPc'[p] = "close")
=============================================================================
