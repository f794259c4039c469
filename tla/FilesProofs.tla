----------------------------- MODULE FilesProofs ----------------------------
(***************************************************************************)
(* Proofs about Files, for any number of channels, requests, starts and    *)
(* failures.                                                               *)
(*                                                                         *)
(* The invariant says, for each place the server can be in, which files    *)
(* belong to the present request.  With it a crash needs no case of its    *)
(* own: it changes where the server is and, while names are written, the   *)
(* names file, which a failed write leaves in the same state.              *)
(***************************************************************************)
EXTENDS Files, SequenceTheorems, TLAPS

InStartup == pc \in {"check", "rename", "rename2", "reply"}

\* The files of a set_startup, as far as no error was missed in it.
StartupFiles ==
  /\ InStartup => ttmp.n = nstartup /\ btmp.n = nstartup
  /\ pc = "check" => missed # "now"
  /\ pc = "rename" /\ missed # "now" => ttmp.whole /\ btmp.whole
  /\ pc = "rename2" /\ missed # "now" => text.whole /\ text.n = nstartup /\ btmp.whole
  /\ pc = "reply" /\ missed = "no" => text.n = nstartup /\ code.n = nstartup

\* TextIsCode, in all places where text and code are not being replaced.
TextCode ==
  missed = "no" /\ pc \notin {"rename2", "reply"} =>
    /\ died # "between" => text.n = code.n
    /\ died = "no" => text.n = acked

StartupInv == StartupFiles /\ StartupNotLost /\ TextCode

\* Names are being set: they are new and their id is not.
Naming == pc = "named" \/ (pc \in {"open", "write"} /\ ret = "named")

\* Whatever is in the file may be found after a restart, except while it is written or when
\* it was not written to the end, and when the names have been set and saved it is them.
NamesInv ==
  /\ pc # "down" => m_names \in kept
  /\ pc # "write" /\ ~wiped => Resize(namefile) \in kept
  /\ pc = "named" /\ ~unsaved => namefile = m_names /\ ~wiped

\* A client's ids are of the past or the present; if of the present its names are, too.
ClientInv ==
  /\ client.id <= m_id
  /\ client.id = m_id => client.name_id <= m_name_id
  /\ /\ pc # "down" /\ ~Naming /\ client.fetched
     /\ client.name_id = m_name_id /\ client.id = m_id
     => client.names = m_names

\* The counters stay in their bounds.
CountInv ==
  /\ m_name_id <= nname /\ (Naming => m_name_id < nname)
  /\ pc = "down" \/ (pc \in {"open", "write"} /\ ret = "down") => m_id < MaxBoots

FilesInv == TypeOK /\ StartupInv /\ NamesInv /\ ClientInv /\ CountInv

USE ConstantsAssumption DEF Torn

-----------------------------------------------------------------------------
(* Lists of names.                                                         *)

\* A full list of names is a list, and resize leaves it alone.
LEMMA NamesAreList ==
  ASSUME NEW names \in Names
  PROVE  names \in Seq(0 .. Torn) /\ Len(names) = NChn /\ Resize(names) = names
  <1>1. names \in [1 .. NChn -> 0 .. Torn]
    BY DEF Names
  <1>2. names \in Seq(0 .. Torn)
    BY <1>1, SeqDef
  <1>3. DOMAIN names = 1 .. NChn /\ DOMAIN names = 1 .. Len(names) /\ Len(names) \in Nat
    BY <1>1, <1>2, LenProperties
  <1>4. Len(names) = NChn
    BY <1>3
  <1>5. Resize(names) = names
    BY <1>1, <1>4 DEF Resize
  <1> QED BY <1>2, <1>4, <1>5

\* resize makes a full list of any.
LEMMA ResizeIsNames == ASSUME NEW names \in Seq(0 .. Torn) PROVE Resize(names) \in Names
  <1>1. Len(names) \in Nat /\ \A i \in 1 .. Len(names) : names[i] \in 0 .. Torn
    BY LenProperties, ElementOfSeq
  <1> QED BY <1>1 DEF Resize, Names

\* What is left of a file that was not written to the end.
LEMMA PartIsList ==
  ASSUME NEW names \in Names, NEW part \in PartsOf(names)
  PROVE  part \in Seq(0 .. Torn) /\ Len(part) <= NChn
  <1>1. ASSUME NEW k \in 0 .. NChn - 1
        PROVE  SubSeq(names, 1, k) \in Seq(0 .. Torn) /\ Len(SubSeq(names, 1, k)) = k
    <2>1. \A i \in 1 .. k : names[i] \in 0 .. Torn
      BY DEF Names
    <2>2. /\ SubSeq(names, 1, k) \in Seq(0 .. Torn)
          /\ Len(SubSeq(names, 1, k)) = IF 1 <= k THEN k - 1 + 1 ELSE 0
      BY <2>1, SubSeqProperties
    <2> QED BY <2>2
  <1>2. CASE \E k \in 0 .. NChn - 1 : part = SubSeq(names, 1, k)
    <2>1. PICK k \in 0 .. NChn - 1 : part = SubSeq(names, 1, k)
      BY <1>2
    <2>2. part \in Seq(0 .. Torn) /\ Len(part) = k
      BY <1>1, <2>1
    <2> QED BY <2>2
  <1>3. CASE \E k \in 0 .. NChn - 1 : part = Append(SubSeq(names, 1, k), Torn)
    <2>1. PICK k \in 0 .. NChn - 1 : part = Append(SubSeq(names, 1, k), Torn)
      BY <1>3
    <2> DEFINE s == SubSeq(names, 1, k)
    <2>2. s \in Seq(0 .. Torn) /\ Len(s) = k
      BY <1>1
    <2>3. Torn \in 0 .. Torn
      OBVIOUS
    <2> HIDE DEF s
    <2>4. Append(s, Torn) \in Seq(0 .. Torn) /\ Len(Append(s, Torn)) = k + 1
      BY <2>2, <2>3, AppendProperties
    <2> QED BY <2>1, <2>4 DEF s
  <1> QED BY <1>2, <1>3 DEF PartsOf

-----------------------------------------------------------------------------
(* The parts of the invariant, action by action.                           *)

\* No server has run yet.
LEMMA FilesInit == Init => FilesInv
  <1> SUFFICES ASSUME Init PROVE FilesInv
    OBVIOUS
  <1> USE DEF Init
  <1>1. NoNames \in Names /\ Resize(<<>>) = NoNames
    BY EmptySeq DEF NoNames, Names, Resize
  <1>2. TypeOK
    <2>1. text \in AllFiles /\ code \in AllFiles /\ ttmp \in AllFiles /\ btmp \in AllFiles
      BY DEF AllFiles, File
    <2>2. client \in Clients
      BY <1>1 DEF Clients
    <2>3. namefile \in Seq(0 .. Torn) /\ Len(namefile) <= NChn
      BY EmptySeq
    <2>4. unsaved \in BOOLEAN /\ wiped \in BOOLEAN
      OBVIOUS
    <2>5. /\ m_names \in Names /\ m_name_id \in 0 .. MaxNames /\ m_id \in 0 .. MaxBoots
          /\ nstartup \in 0 .. MaxStartups /\ nname \in 0 .. MaxNames
          /\ nfail \in 0 .. MaxFails /\ acked \in 0 .. nstartup /\ kept \subseteq Names
      BY <1>1
    <2>6. /\ pc \in {"down", "open", "write", "idle", "named", "check", "rename", "rename2",
                      "reply"}
          /\ ret \in {"idle", "named", "down"}
          /\ missed \in {"no", "now", "before"} /\ died \in {"no", "between", "after"}
      OBVIOUS
    <2> HIDE DEF Init
    <2> QED BY <2>1, <2>2, <2>3, <2>4, <2>5, <2>6 DEF TypeOK
  <1>3. StartupInv
    BY DEF StartupInv, StartupFiles, InStartup, StartupNotLost, TextCode, File
  <1>4. NamesInv
    BY <1>1 DEF NamesInv
  <1>5. ClientInv /\ CountInv
    BY DEF ClientInv, CountInv, Naming
  <1> QED BY <1>2, <1>3, <1>4, <1>5 DEF FilesInv

\* The steps of set_startup, and the crashes in them, keep the files in order.
LEMMA StartupStep == FilesInv /\ [Next]_vars => StartupInv'
  <1> SUFFICES ASSUME FilesInv, [Next]_vars PROVE StartupInv'
    OBVIOUS
  <1> USE DEF FilesInv, StartupInv, StartupFiles, StartupNotLost, TextCode, InStartup
  <1>1. /\ text \in AllFiles /\ code \in AllFiles /\ ttmp \in AllFiles /\ btmp \in AllFiles
        /\ nstartup \in Nat /\ acked \in 0 .. nstartup /\ ret \in {"idle", "named", "down"}
        /\ missed \in {"no", "now", "before"} /\ died \in {"no", "between", "after"}
    BY DEF TypeOK
  <1> DEFINE same == UNCHANGED <<startupVars, nstartup, missed, acked, died>>
  <1>2. ASSUME same, ~InStartup, pc' \in {"down", "open", "write", "idle", "named"}
        PROVE  StartupInv'
    BY <1>2 DEF startupVars
  <1>3. CASE Boot \/ SaveOpen \/ SaveFail \/ SaveWrite \/ SaveWriteFails
    BY <1>1, <1>2, <1>3 DEF Boot, SaveOpen, SaveFail, SaveWrite, SaveWriteFails, diskVars,
                            startupVars, countVars, ghostVars
  <1>4. CASE SetNames \/ NamesDone \/ Stop \/ BadStartup \/ NameId \/ GetNames \/ UNCHANGED vars
    <2>1. CASE pc' = pc
      <3>1. same
        BY <1>4, <2>1 DEF SetNames, NamesDone, Stop, BadStartup, NameId, GetNames, vars, diskVars,
                             startupVars, countVars, ghostVars
      <3> QED BY <2>1, <3>1 DEF startupVars
    <2>2. CASE pc' # pc
      BY <1>2, <1>4, <2>2 DEF SetNames, NamesDone, Stop, BadStartup, NameId, GetNames, vars,
                                 diskVars, startupVars, countVars, ghostVars
    <2> QED BY <2>1, <2>2
  <1>5. CASE SetStartup
    BY <1>1, <1>5 DEF SetStartup, File
  <1>6. CASE StartupBad
    BY <1>1, <1>6 DEF StartupBad, diskVars, ghostVars
  <1>7. CASE StartupGood
    BY <1>1, <1>7 DEF StartupGood, countVars, ghostVars, AllFiles
  <1>8. CASE StartupCloseFails
    BY <1>1, <1>8 DEF StartupCloseFails, Miss, AllFiles
  <1>9. CASE RenameText
    BY <1>1, <1>9 DEF RenameText, Miss
  <1>10. CASE RenameCode
    BY <1>1, <1>10 DEF RenameCode, Miss
  <1>11. CASE StartupDone
    BY <1>1, <1>11 DEF StartupDone, diskVars, countVars
  <1>12. CASE Crash
    <2>1. /\ pc' = "down" /\ UNCHANGED <<startupVars, nstartup, missed, acked>>
          /\ died' = IF pc = "rename2" THEN "between" ELSE IF pc = "reply" THEN "after" ELSE died
      BY <1>12 DEF Crash, countVars
    <2> QED BY <1>1, <2>1 DEF startupVars
  <1> QED
    BY <1>3, <1>4, <1>5, <1>6, <1>7, <1>8, <1>9, <1>10, <1>11, <1>12
    DEF Next, ServerStep, Request

\* The file holds names that may be found again, or is being written.
LEMMA NamesStep == FilesInv /\ [Next]_vars => NamesInv'
  <1> SUFFICES ASSUME FilesInv, [Next]_vars PROVE NamesInv'
    OBVIOUS
  <1> USE DEF FilesInv, NamesInv
  <1>1. /\ m_names \in Names /\ unsaved \in BOOLEAN /\ wiped \in BOOLEAN
        /\ namefile \in Seq(0 .. Torn) /\ ret \in {"idle", "named", "down"}
    BY DEF TypeOK
  <1>2. Resize(m_names) = m_names
    BY <1>1, NamesAreList
  <1>3. namefile' = namefile => Resize(namefile)' = Resize(namefile)
    BY DEF Resize
  <1>4. CASE Boot
    BY <1>3, <1>4 DEF Boot, diskVars
  <1>5. CASE SaveOpen
    BY <1>5 DEF SaveOpen, memVars, ghostVars
  <1>6. CASE SaveFail
    BY <1>1, <1>3, <1>6 DEF SaveFail, diskVars, memVars
  <1>7. CASE SaveWrite
    <2>1. Resize(namefile)' = m_names
      BY <1>2, <1>7 DEF SaveWrite, Resize
    <2> QED BY <2>1, <1>1, <1>7 DEF SaveWrite, memVars
  <1>8. CASE SetNames
    BY <1>3, <1>8 DEF SetNames, diskVars
  <1>9. CASE NamesDone
    BY <1>2, <1>3, <1>9 DEF NamesDone, diskVars
  <1>10. CASE Stop \/ BadStartup \/ NameId \/ GetNames \/ UNCHANGED vars
    BY <1>3, <1>10 DEF Stop, BadStartup, NameId, GetNames, vars, diskVars, memVars, ghostVars
  <1>11. CASE SetStartup \/ RenameText \/ RenameCode \/ StartupCloseFails
    <2>1. UNCHANGED <<namefile, m_names, kept, wiped>>
      BY <1>11 DEF SetStartup, RenameText, RenameCode, StartupCloseFails, memVars
    <2>2. pc \notin {"down", "write"} /\ pc' \notin {"down", "named"}
      BY <1>11 DEF SetStartup, RenameText, RenameCode, StartupCloseFails
    <2> QED BY <2>1, <2>2, <1>3
  <1>12. CASE StartupBad \/ StartupGood \/ StartupDone
    BY <1>3, <1>12 DEF StartupBad, StartupGood, StartupDone, diskVars, memVars, ghostVars
  <1>13. CASE Crash
    BY <1>3, <1>13 DEF Crash, memVars
  <1>14. CASE SaveWriteFails
    <2>1. wiped' /\ (pc' = "named" => unsaved') /\ pc' = ret /\ UNCHANGED <<m_names, kept>>
      BY <1>1, <1>14 DEF SaveWriteFails, memVars
    <2> QED BY <1>1, <1>14, <2>1 DEF SaveWriteFails
  <1> QED
    BY <1>4, <1>5, <1>6, <1>7, <1>8, <1>9, <1>10, <1>11, <1>12, <1>13, <1>14
    DEF Next, ServerStep, Request

\* The id of the names is new whenever the names are.
LEMMA ClientStep == FilesInv /\ [Next]_vars => ClientInv'
  <1> SUFFICES ASSUME FilesInv, [Next]_vars PROVE ClientInv'
    OBVIOUS
  <1> USE DEF FilesInv, ClientInv, Naming
  <1>1. /\ client \in Clients /\ m_id \in Nat /\ m_name_id \in Nat
        /\ ret \in {"idle", "named", "down"}
    BY DEF TypeOK
  <1>2. client.id \in Nat /\ client.name_id \in Nat
    BY <1>1 DEF Clients
  <1>3. CASE Boot
    BY <1>1, <1>2, <1>3 DEF Boot
  <1>4. CASE SaveOpen \/ SaveFail \/ SaveWrite \/ SaveWriteFails
    BY <1>1, <1>4 DEF SaveOpen, SaveFail, SaveWrite, SaveWriteFails, memVars
  <1>5. CASE SetNames
    BY <1>5 DEF SetNames
  <1>6. CASE NamesDone
    BY <1>1, <1>2, <1>6 DEF NamesDone
  <1>7. CASE Stop \/ BadStartup \/ UNCHANGED vars
    BY <1>7 DEF Stop, BadStartup, vars, memVars
  <1>8. CASE NameId
    BY <1>1, <1>8 DEF NameId, memVars, Clients
  <1>9. CASE GetNames
    BY <1>1, <1>9 DEF GetNames, memVars, Clients
  <1>10. CASE SetStartup \/ RenameText \/ RenameCode \/ StartupCloseFails
    BY <1>10 DEF SetStartup, RenameText, RenameCode, StartupCloseFails, memVars
  <1>11. CASE StartupBad \/ StartupGood \/ StartupDone
    BY <1>11 DEF StartupBad, StartupGood, StartupDone, memVars
  <1>12. CASE Crash
    BY <1>12 DEF Crash, memVars
  <1> QED
    BY <1>3, <1>4, <1>5, <1>6, <1>7, <1>8, <1>9, <1>10, <1>11, <1>12
    DEF Next, ServerStep, Request

\* Requests and starts are counted before they are carried out.
LEMMA CountStep == FilesInv /\ [Next]_vars => CountInv'
  <1> SUFFICES ASSUME FilesInv, [Next]_vars PROVE CountInv'
    OBVIOUS
  <1> USE DEF FilesInv, CountInv, Naming
  <1>1. /\ m_id \in Nat /\ m_name_id \in Nat /\ nname \in Nat
        /\ ret \in {"idle", "named", "down"}
    BY DEF TypeOK
  <1>2. CASE Boot
    BY <1>1, <1>2 DEF Boot, countVars
  <1>3. CASE SaveOpen \/ SaveFail \/ SaveWrite \/ SaveWriteFails
    BY <1>1, <1>3 DEF SaveOpen, SaveFail, SaveWrite, SaveWriteFails, memVars, countVars
  <1>4. CASE SetNames \/ NamesDone
    BY <1>1, <1>4 DEF SetNames, NamesDone, countVars
  <1>5. CASE Stop \/ BadStartup \/ NameId \/ GetNames \/ UNCHANGED vars
    BY <1>5 DEF Stop, BadStartup, NameId, GetNames, vars, memVars, countVars
  <1>6. CASE SetStartup \/ RenameText \/ RenameCode \/ StartupCloseFails
    BY <1>6 DEF SetStartup, RenameText, RenameCode, StartupCloseFails, memVars
  <1>7. CASE StartupBad \/ StartupGood \/ StartupDone
    BY <1>7 DEF StartupBad, StartupGood, StartupDone, memVars, countVars
  <1>8. CASE Crash
    BY <1>8 DEF Crash, memVars, countVars
  <1> QED
    BY <1>2, <1>3, <1>4, <1>5, <1>6, <1>7, <1>8 DEF Next, ServerStep, Request

\* The types of the files, the names and the client.
LEMMA TypeStep == FilesInv /\ [Next]_vars => TypeOK'
  <1> SUFFICES ASSUME FilesInv, [Next]_vars PROVE TypeOK'
    OBVIOUS
  <1> USE DEF FilesInv, TypeOK
  <1>1. nfail < MaxFails => nfail + 1 \in 0 .. MaxFails
    OBVIOUS
  <1>2. CASE Boot
    <2>1. m_names' \in Names
      BY <1>2, ResizeIsNames DEF Boot
    <2>2. m_id' \in 0 .. MaxBoots
      BY <1>2 DEF Boot, CountInv
    <2>3. kept' \subseteq Names /\ wiped' \in BOOLEAN
      BY <2>1, <1>2 DEF Boot
    <2> QED BY <2>1, <2>2, <2>3, <1>2 DEF Boot, diskVars, countVars
  <1>3. CASE SaveOpen
    BY <1>3, EmptySeq DEF SaveOpen, startupVars, memVars, countVars, ghostVars
  <1>4. CASE SaveFail
    <2>1. unsaved' \in BOOLEAN
      BY <1>4 DEF SaveFail
    <2> QED BY <2>1, <1>1, <1>4 DEF SaveFail, diskVars, memVars
  <1>5. CASE SaveWrite
    <2>1. namefile' \in Seq(0 .. Torn) /\ Len(namefile') <= NChn
      BY <1>5, NamesAreList DEF SaveWrite
    <2>2. wiped' \in BOOLEAN
      BY <1>5 DEF SaveWrite
    <2> QED BY <2>1, <2>2, <1>5 DEF SaveWrite, startupVars, memVars, countVars
  <1>6. CASE SetNames
    <2>1. m_names' \in Names
      BY <1>6 DEF SetNames, Names
    <2>2. nname' \in 0 .. MaxNames
      BY <1>6 DEF SetNames
    <2>3. kept' = kept \union {m_names'}
      BY <1>6 DEF SetNames
    <2>4. kept' \subseteq Names
      BY <2>1, <2>3
    <2> QED BY <2>1, <2>2, <2>4, <1>6 DEF SetNames, diskVars
  <1>7. CASE NamesDone
    <2>1. m_name_id' \in 0 .. MaxNames
      BY <1>7 DEF NamesDone, CountInv, Naming
    <2>2. kept' \subseteq Names /\ unsaved' \in BOOLEAN
      BY <1>7 DEF NamesDone
    <2> QED BY <2>1, <2>2, <1>7 DEF NamesDone, diskVars, countVars
  <1>8. CASE Stop \/ BadStartup \/ UNCHANGED vars
    BY <1>8 DEF Stop, BadStartup, vars, diskVars, memVars, countVars, ghostVars
  <1>9. CASE NameId \/ GetNames
    <2>1. client' \in Clients
      BY <1>9 DEF NameId, GetNames, Clients
    <2> QED BY <2>1, <1>9 DEF NameId, GetNames, diskVars, memVars, countVars, ghostVars
  <1>10. CASE SetStartup
    <2>1. ttmp' \in AllFiles /\ btmp' \in AllFiles
      BY <1>10 DEF SetStartup, AllFiles, File
    <2>2. nstartup' \in 0 .. MaxStartups /\ acked' \in 0 .. nstartup'
      BY <1>10 DEF SetStartup
    <2>3. missed' \in {"no", "now", "before"}
      BY <1>10 DEF SetStartup
    <2> QED BY <2>1, <2>2, <2>3, <1>10 DEF SetStartup, memVars
  <1>11. CASE StartupBad
    BY <1>1, <1>11 DEF StartupBad, diskVars, memVars, ghostVars
  <1>12. CASE StartupGood \/ StartupCloseFails
    <2>1. ttmp' \in AllFiles /\ btmp' \in AllFiles
      BY <1>12 DEF StartupGood, StartupCloseFails, AllFiles
    <2> QED
      BY <2>1, <1>1, <1>12
      DEF StartupGood, StartupCloseFails, Miss, memVars, countVars, ghostVars
  <1>13. CASE RenameText \/ RenameCode
    BY <1>1, <1>13 DEF RenameText, RenameCode, Miss, memVars
  <1>14. CASE StartupDone
    BY <1>14 DEF StartupDone, diskVars, memVars, countVars
  <1>15. CASE Crash
    <2>1. namefile' \in Seq(0 .. Torn) /\ Len(namefile') <= NChn
      BY <1>15, PartIsList DEF Crash
    <2>2. unsaved' \in BOOLEAN /\ wiped' \in BOOLEAN
      BY <1>15 DEF Crash
    <2>3. died' \in {"no", "between", "after"}
      BY <1>15 DEF Crash
    <2> QED BY <2>1, <2>2, <2>3, <1>15 DEF Crash, startupVars, memVars, countVars
  <1>16. CASE SaveWriteFails
    <2>1. namefile' \in Seq(0 .. Torn) /\ Len(namefile') <= NChn
      BY <1>16, PartIsList DEF SaveWriteFails
    <2>2. unsaved' \in BOOLEAN /\ wiped' \in BOOLEAN
      BY <1>16 DEF SaveWriteFails
    <2>3. nfail' \in 0 .. MaxFails
      BY <1>1, <1>16 DEF SaveWriteFails
    <2> QED BY <2>1, <2>2, <2>3, <1>16 DEF SaveWriteFails, startupVars, memVars
  <1> QED
    BY <1>2, <1>3, <1>4, <1>5, <1>6, <1>7, <1>8, <1>9, <1>10, <1>11, <1>12, <1>13, <1>14, <1>15,
       <1>16
    DEF Next, ServerStep, Request
-----------------------------------------------------------------------------
(* Theorems.                                                               *)

\* Wherever the server dies and however often, and whichever file operations fail, the
\* files are as described above.
THEOREM FilesInvariant == Spec => []FilesInv
  <1>1. Init => FilesInv
    BY FilesInit
  <1>2. FilesInv /\ [Next]_vars => FilesInv'
    BY TypeStep, StartupStep, NamesStep, ClientStep, CountStep DEF FilesInv
  <1> QED BY <1>1, <1>2, PTL DEF Spec

\* The types.
THEOREM FilesTypes == Spec => []TypeOK
  <1>1. FilesInv => TypeOK
    BY DEF FilesInv
  <1> QED BY <1>1, FilesInvariant, PTL

\* A start finds a whole startup sequence, no older than the last one whose setting was
\* answered with success, however often the server died, unless closing or renaming a file
\* has failed, which nobody looks at, and no set_startup has succeeded since.
THEOREM StartupIsKept == Spec => []StartupNotLost
  <1>1. FilesInv => StartupNotLost
    BY DEF FilesInv, StartupInv
  <1> QED BY <1>1, FilesInvariant, PTL

\* get_startup shows what a start runs, except after a crash between the two renames, and
\* after a close or rename that failed unnoticed, until a set_startup succeeds.
THEOREM TextMatchesCode == Spec => []TextIsCode
  <1>1. FilesInv => TextIsCode
    BY DEF FilesInv, StartupInv, TextCode, TextIsCode
  <1> QED BY <1>1, FilesInvariant, PTL

\* Names that were saved survive crashes, restarts and failed saves, unless the last save
\* that could open the file was cut short by a crash or by an unnoticed error.
THEOREM NamesAreKept == Spec => []NamesSurvive
  <1>1. FilesInv => NamesSurvive
    BY DEF FilesInv, NamesInv, NamesSurvive
  <1> QED BY <1>1, FilesInvariant, PTL

\* The pair of name_id and server id identifies the names a client has fetched.
THEOREM IdsIdentifyNames == Spec => []SameIdSameNames
  <1>1. FilesInv => SameIdSameNames
    BY DEF FilesInv, ClientInv, Naming, SameIdSameNames
  <1> QED BY <1>1, FilesInvariant, PTL
=============================================================================
