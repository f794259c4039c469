------------------------------- MODULE Files --------------------------------
(***************************************************************************)
(* What the server keeps on disk, in conf.runtime_dir, and what is left of *)
(* it when the server process dies at any point and is started again: the  *)
(* startup sequence, as text (startup.cmdlist, for get_startup) and as     *)
(* code (startup.cmdbin, for run_startup), and the names of the channels   *)
(* (ttl.yaml and dds.yaml, alike, of which one is modelled).               *)
(*                                                                         *)
(* A startup file is the number of the set_startup request it is from, and *)
(* whether all of it is there.  A names file is a list of names, which are *)
(* numbers of set_names requests, 0 for none, Torn for the beginning of    *)
(* one; a file that was not written to the end holds the first few.  The   *)
(* process dies, not the machine: what was closed stays written.           *)
(***************************************************************************)
EXTENDS Naturals, Sequences

CONSTANTS
  NChn,              \* conf.max_ttl_chn + 1, or 22
  MaxStartups,       \* bound: set_startup requests
  MaxNames,          \* bound: set_names requests
  MaxBoots,          \* bound: starts of the server
  MaxFails           \* bound: file operations that fail

ASSUME ConstantsAssumption ==
  /\ NChn \in Nat \ {0} /\ MaxBoots \in Nat \ {0}
  /\ MaxStartups \in Nat /\ MaxNames \in Nat /\ MaxFails \in Nat

VARIABLES
  text, code,        \* startup.cmdlist and startup.cmdbin
  ttmp, btmp,        \* the same with .tmp
  namefile,          \* ttl.yaml or dds.yaml
  pc,                \* what the server is doing, "down" if it is not there
  ret,               \* where NamesConfig::save returns to
  m_names, m_name_id, m_id,
  nstartup, nname, nfail,
  missed,            \* an error nobody looked at: "no", "now" in the current or last
                     \* set_startup, "before" in one before it
  unsaved,           \* the names of the last set_names could not be saved
  acked,             \* the last set_startup answered with 0
  died,              \* since that answer the server died in a set_startup: "between" the
                     \* renames or "after" them; else "no"
  kept,              \* lists of names that may be found after a restart
  wiped,             \* the names file was emptied and not written to the end
  client             \* a client's copy of the names and the ids it goes by

diskVars == <<text, code, ttmp, btmp, namefile>>
startupVars == <<text, code, ttmp, btmp>>
memVars == <<m_names, m_name_id, m_id>>
countVars == <<nstartup, nname, nfail>>
ghostVars == <<missed, unsaved, acked, died, kept, wiped>>
vars == <<diskVars, pc, ret, memVars, countVars, ghostVars, client>>

Torn == MaxNames + 1
Names == [1 .. NChn -> 0 .. Torn]
NoNames == [i \in 1 .. NChn |-> 0]
File(n, whole) == [n |-> n, whole |-> whole]

Init ==
  /\ text = File(0, TRUE) /\ code = File(0, TRUE)
  /\ ttmp = File(0, TRUE) /\ btmp = File(0, TRUE) /\ namefile = <<>>
  /\ pc = "down" /\ ret = "idle"
  /\ m_names = NoNames /\ m_name_id = 0 /\ m_id = 0
  /\ nstartup = 0 /\ nname = 0 /\ nfail = 0
  /\ missed = "no" /\ unsaved = FALSE
  /\ acked = 0 /\ died = "no" /\ kept = {NoNames} /\ wiped = FALSE
  /\ client = [names |-> NoNames, name_id |-> 0, id |-> 0, fetched |-> FALSE]

-----------------------------------------------------------------------------
(* NamesConfig and the server's start and end.                             *)

\* resize: names are cut off or empty ones added.
Resize(names) == [i \in 1 .. NChn |-> IF i <= Len(names) THEN names[i] ELSE 0]

\* The constructor: load (a file that is missing, empty or not a list gives no names),
\* resize and, if that changed something, save.  Then run_startup.
Boot ==
  /\ pc = "down"
  /\ m_id' = m_id + 1 /\ m_name_id' = 0
  /\ m_names' = Resize(namefile)
  /\ IF Len(namefile) # NChn
       THEN pc' = "open" /\ ret' = "idle"
       ELSE pc' = "idle" /\ UNCHANGED ret
  /\ kept' = IF wiped THEN {m_names'} ELSE kept
  /\ wiped' = FALSE
  /\ UNCHANGED <<diskVars, countVars, missed, unsaved, acked, died, client>>

\* save() opens the file, which empties it.
SaveOpen ==
  /\ pc = "open" /\ pc' = "write" /\ namefile' = <<>>
  /\ UNCHANGED <<startupVars, ret, memVars, countVars, ghostVars, client>>

\* It cannot be opened: logged, and the caller is not told.
SaveFail ==
  /\ pc = "open" /\ nfail < MaxFails
  /\ nfail' = nfail + 1 /\ pc' = ret /\ unsaved' = (ret = "named")
  /\ UNCHANGED <<diskVars, ret, memVars, nstartup, nname, missed, acked, died, kept, wiped,
                 client>>

\* What is left of a file that was not written to the end.
PartsOf(names) ==
  {SubSeq(names, 1, k) : k \in 0 .. NChn - 1}
    \cup {Append(SubSeq(names, 1, k), Torn) : k \in 0 .. NChn - 1}

SaveWrite ==
  /\ pc = "write" /\ pc' = ret /\ namefile' = m_names /\ wiped' = FALSE
  /\ UNCHANGED <<startupVars, ret, memVars, countVars, missed, unsaved, acked, died, kept,
                 client>>

\* The errors of writing, flushing and closing are not looked at.
SaveWriteFails ==
  /\ pc = "write" /\ nfail < MaxFails
  /\ nfail' = nfail + 1 /\ pc' = ret /\ unsaved' = (ret = "named")
  /\ namefile' \in PartsOf(m_names) /\ wiped' = TRUE
  /\ UNCHANGED <<startupVars, ret, memVars, nstartup, nname, missed, acked, died, kept,
                 client>>

\* Mutant: the names are saved when the server ends.
SetNamesUnsaved ==
  /\ pc = "idle" /\ nname < MaxNames
  /\ \E chns \in (SUBSET (1 .. NChn)) \ {{}} :
       m_names' = [i \in 1 .. NChn |-> IF i \in chns THEN nname + 1 ELSE m_names[i]]
  /\ nname' = nname + 1 /\ kept' = kept \union {m_names'}
  /\ pc' = "named" /\ ret' = "named"
  /\ UNCHANGED <<diskVars, m_name_id, m_id, nstartup, nfail, missed, unsaved, acked, died,
                 wiped, client>>

\* set_ttl_names: names of some channels; a request with none is refused.
SetNames ==
  /\ pc = "idle" /\ nname < MaxNames
  /\ \E chns \in (SUBSET (1 .. NChn)) \ {{}} :
       m_names' = [i \in 1 .. NChn |-> IF i \in chns THEN nname + 1 ELSE m_names[i]]
  /\ nname' = nname + 1 /\ kept' = kept \union {m_names'}
  /\ pc' = "open" /\ ret' = "named"
  /\ UNCHANGED <<diskVars, m_name_id, m_id, nstartup, nfail, missed, unsaved, acked, died,
                 wiped, client>>

\* Mutant: the id is counted up when the server starts only.
NamesDoneSameId ==
  /\ pc = "named" /\ pc' = "idle"
  /\ kept' = IF unsaved THEN kept ELSE {m_names}
  /\ unsaved' = FALSE
  /\ UNCHANGED <<diskVars, ret, memVars, countVars, missed, acked, died, wiped, client>>

\* m_name_id++ and the reply, which is 0 whatever save met with.
NamesDone ==
  /\ pc = "named" /\ pc' = "idle"
  /\ kept' = IF unsaved THEN kept ELSE {m_names}
  /\ unsaved' = FALSE
  /\ m_name_id' = m_name_id + 1
  /\ UNCHANGED <<diskVars, ret, m_names, m_id, countVars, missed, acked, died, wiped,
                 client>>

\* The server is stopped: ~NamesConfig saves.
Stop ==
  /\ pc = "idle" /\ m_id < MaxBoots /\ pc' = "open" /\ ret' = "down"
  /\ UNCHANGED <<diskVars, memVars, countVars, ghostVars, client>>

-----------------------------------------------------------------------------
(* process_set_startup.                                                    *)

\* A text without NUL or with a syntax error is answered with 1.
BadStartup == pc = "idle" /\ UNCHANGED vars

\* The two .tmp files are opened, and so emptied, and written to.
SetStartup ==
  /\ pc = "idle" /\ nstartup < MaxStartups
  /\ nstartup' = nstartup + 1 /\ pc' = "check"
  /\ ttmp' = File(nstartup + 1, FALSE) /\ btmp' = File(nstartup + 1, FALSE)
  /\ missed' = IF missed = "now" THEN "before" ELSE missed
  /\ UNCHANGED <<text, code, namefile, ret, memVars, nname, nfail, unsaved, acked, died,
                 kept, wiped, client>>

\* One of the streams is not good: answered with 1.
StartupBad ==
  /\ pc = "check" /\ nfail < MaxFails
  /\ nfail' = nfail + 1 /\ pc' = "idle"
  /\ UNCHANGED <<diskVars, ret, memVars, nstartup, nname, ghostVars, client>>

\* Mutant: put in place before the streams are closed.
StartupGoodEarly ==
  /\ pc = "check" /\ pc' = "rename" /\ text' = ttmp /\ code' = btmp
  /\ UNCHANGED <<ttmp, btmp, namefile, ret, memVars, countVars, ghostVars, client>>

\* close() writes what is still in the buffers; the errors of this are not looked at.
StartupGood ==
  /\ pc = "check" /\ pc' = "rename"
  /\ ttmp' = [ttmp EXCEPT !.whole = TRUE] /\ btmp' = [btmp EXCEPT !.whole = TRUE]
  /\ UNCHANGED <<text, code, namefile, ret, memVars, countVars, ghostVars, client>>

Miss == nfail' = nfail + 1 /\ missed' = "now"

StartupCloseFails ==
  /\ pc = "check" /\ nfail < MaxFails /\ pc' = "rename" /\ Miss
  /\ \/ ttmp' = [ttmp EXCEPT !.whole = TRUE] /\ UNCHANGED btmp
     \/ btmp' = [btmp EXCEPT !.whole = TRUE] /\ UNCHANGED ttmp
  /\ UNCHANGED <<text, code, namefile, ret, memVars, nstartup, nname, unsaved, acked,
                 died, kept, wiped, client>>

\* The errors of the renames are ignored.
RenameText ==
  /\ pc = "rename" /\ pc' = "rename2"
  /\ \/ text' = ttmp /\ UNCHANGED <<nfail, missed>>
     \/ nfail < MaxFails /\ Miss /\ UNCHANGED text
  /\ UNCHANGED <<code, ttmp, btmp, namefile, ret, memVars, nstartup, nname, unsaved, acked,
                 died, kept, wiped, client>>

\* Mutant: only the text is renamed.
RenameCodeNever ==
  /\ pc = "rename2" /\ pc' = "reply"
  /\ UNCHANGED <<diskVars, ret, memVars, countVars, ghostVars, client>>

RenameCode ==
  /\ pc = "rename2" /\ pc' = "reply"
  /\ \/ code' = btmp /\ missed' = (IF missed = "before" THEN "no" ELSE missed) /\ UNCHANGED nfail
     \/ nfail < MaxFails /\ Miss /\ UNCHANGED code
  /\ UNCHANGED <<text, ttmp, btmp, namefile, ret, memVars, nstartup, nname, unsaved, acked,
                 died, kept, wiped, client>>

\* Answered with 0.
StartupDone ==
  /\ pc = "reply" /\ pc' = "idle"
  /\ acked' = nstartup /\ died' = "no"
  /\ UNCHANGED <<diskVars, ret, memVars, countVars, missed, unsaved, kept, wiped, client>>

-----------------------------------------------------------------------------
(* Clients and crashes.                                                    *)

\* A client asks for name_id, and for the names when it does not know this id yet.
NameId ==
  /\ pc = "idle"
  /\ <<client.name_id, client.id>> # <<m_name_id, m_id>>
  /\ client' = [client EXCEPT !.name_id = m_name_id, !.id = m_id, !.fetched = FALSE]
  /\ UNCHANGED <<diskVars, pc, ret, memVars, countVars, ghostVars>>

GetNames ==
  /\ pc = "idle" /\ client.id # 0 /\ ~client.fetched
  /\ client' = [client EXCEPT !.names = m_names, !.fetched = TRUE]
  /\ UNCHANGED <<diskVars, pc, ret, memVars, countVars, ghostVars>>

\* The process dies.
Crash ==
  /\ pc # "down" /\ m_id < MaxBoots /\ pc' = "down"
  /\ IF pc = "write" THEN namefile' \in PartsOf(m_names) ELSE UNCHANGED namefile
  /\ wiped' = (wiped \/ pc = "write") /\ unsaved' = FALSE
  /\ died' = CASE pc = "rename2" -> "between" [] pc = "reply" -> "after" [] OTHER -> died
  /\ UNCHANGED <<startupVars, ret, memVars, countVars, missed, acked, kept, client>>

ServerStep ==
  \/ SaveOpen \/ SaveFail \/ SaveWrite \/ SaveWriteFails \/ NamesDone
  \/ StartupBad \/ StartupGood \/ StartupCloseFails \/ RenameText \/ RenameCode
  \/ StartupDone
Request == SetNames \/ SetStartup \/ BadStartup \/ NameId \/ GetNames \/ Stop

Next == Boot \/ ServerStep \/ Request \/ Crash

Spec == Init /\ [][Next]_vars

-----------------------------------------------------------------------------
(* Properties.                                                             *)

AllFiles == [n : 0 .. MaxStartups, whole : BOOLEAN]
Clients == [names : Names, name_id : 0 .. MaxNames, id : 0 .. MaxBoots, fetched : BOOLEAN]

TypeOK ==
  /\ text \in AllFiles /\ code \in AllFiles /\ ttmp \in AllFiles /\ btmp \in AllFiles
  /\ namefile \in Seq(0 .. Torn) /\ Len(namefile) <= NChn
  /\ pc \in {"down", "open", "write", "idle", "named", "check", "rename", "rename2",
             "reply"}
  /\ ret \in {"idle", "named", "down"}
  /\ m_names \in Names /\ m_name_id \in 0 .. MaxNames /\ m_id \in 0 .. MaxBoots
  /\ nstartup \in 0 .. MaxStartups /\ nname \in 0 .. MaxNames /\ nfail \in 0 .. MaxFails
  /\ missed \in {"no", "now", "before"} /\ unsaved \in BOOLEAN /\ wiped \in BOOLEAN
  /\ died \in {"no", "between", "after"}
  /\ acked \in 0 .. nstartup /\ kept \subseteq Names
  /\ client \in Clients

\* A start never finds half of a startup sequence, and the one that it runs is the one
\* that was set last or one whose setting the server did not live to answer, unless
\* closing or renaming a file has failed and no set_startup has succeeded since.
StartupNotLost == missed = "no" => text.whole /\ code.whole /\ code.n >= acked

\* What get_startup shows is what a start runs, unless the server died between the two
\* renames and no set_startup was answered since; and, if the server did not die, it is the
\* last one that was answered with success, so that refused requests leave no trace.
TextIsCode ==
  missed = "no" /\ pc = "idle" =>
    /\ died # "between" => text.n = code.n
    /\ died = "no" => text.n = acked

\* Names that were set and saved are there after any number of crashes and restarts, and of
\* saves that failed, unless the last save that could open the file, which empties it, was
\* cut short by a crash or by an error nobody looked at.  A save that could not open the
\* file leaves the names from before in it.
NamesSurvive == pc = "idle" => m_names \in kept

\* A client that sees the same name_id and server id has the names the server has, also
\* when the server was started again in between.
SameIdSameNames ==
  pc = "idle" /\ client.fetched /\ client.name_id = m_name_id /\ client.id = m_id
    => client.names = m_names
=============================================================================
