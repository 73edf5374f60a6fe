------------------------- MODULE ManagedNotesProofs -------------------------
(***************************************************************************)
(* Theorems about ManagedNotes, for every set of tasks, whatever contents  *)
(* they ask for, and however often others act and calls fail.              *)
(***************************************************************************)
EXTENDS ManagedNotes, TLAPS

USE DEF Idle, NoFile, At, Present

(* A file that is made is the last one, under the name; all others stay.   *)
LEMMA NewFileEffect ==
  ASSUME TypeOK, NEW maker \in Tasks \cup {Others}, NEW content \in Contents,
         NewFile(maker, content)
  PROVE  /\ files' \in Seq(File)
         /\ Len(files') = Len(files) + 1
         /\ entry' = Len(files') /\ entry' \in 1..Len(files')
         /\ files'[entry'].maker = maker /\ files'[entry'].content = content
         /\ \A f \in 1..Len(files) : files'[f] = files[f]
  BY DEF NewFile, TypeOK, File

(* Changing the content of a file changes nothing else.                    *)
LEMMA ContentEffect ==
  ASSUME TypeOK, NEW f \in 1..Len(files), NEW content \in Contents,
         files' = [files EXCEPT ![f].content = content]
  PROVE  /\ files' \in Seq(File)
         /\ Len(files') = Len(files)
         /\ files'[f].content = content
         /\ files'[f].maker = files[f].maker
         /\ \A g \in 1..Len(files) \ {f} : files'[g] = files[g]
         /\ \A g \in 1..Len(files) : files'[g].maker = files[g].maker
<1> DEFINE new == [files[f] EXCEPT !.content = content]
<1>1. files \in Seq(File) /\ files[f] \in File  BY DEF TypeOK
<1>2. new \in File /\ new.content = content /\ new.maker = files[f].maker
  BY <1>1 DEF File
<1>3. files' = [files EXCEPT ![f] = new]  OBVIOUS
<1> HIDE DEF new
<1>4. files' \in Seq(File) /\ Len(files') = Len(files) /\ files'[f] = new
  BY <1>1, <1>2, <1>3
<1>5. \A g \in 1..Len(files) \ {f} : files'[g] = files[g]
  BY <1>1, <1>3
<1> QED BY <1>2, <1>4, <1>5

(* What a task wants written is a content.                                 *)
LEMMA WantedType ==
  ASSUME NEW t \in Tasks
  PROVE  ContentOf[t] \in Contents
  BY ContentAssumption DEF Contents

(* Initially there is no file and no call.                                 *)
LEMMA InitInv == Init => NotesInv
  BY ContentAssumption
     DEF Init, NotesInv, TypeOK, OwnFile, ComparedFile, DirectoryKnown, NothingLeft, Linked, Status

(* A creation or an undo begins.                                           *)
LEMMA BeginStep ==
  ASSUME NotesInv, NEW t \in Tasks, BeginCreate(t) \/ BeginRollback(t)
  PROVE  NotesInv'
<1>1. TypeOK'
  BY DEF NotesInv, TypeOK, BeginCreate, BeginRollback, Operation, CreateCall, RollbackCall, Underway,
         env
<1>2. OwnFile' /\ ComparedFile'
  BY DEF NotesInv, TypeOK, BeginCreate, BeginRollback, Operation, OwnFile, ComparedFile
<1>3. (Alone => DirectoryKnown)'
  BY DEF NotesInv, TypeOK, BeginCreate, BeginRollback, Operation, Alone, DirectoryKnown,
         InCall, Linked, NameHeldBy, env
<1>4. (Alone /\ Unfailing => NothingLeft)'
  BY DEF NotesInv, TypeOK, BeginCreate, BeginRollback, Operation, Alone, Unfailing, NothingLeft,
         InCall, Linked, env
<1> QED BY <1>1, <1>2, <1>3, <1>4 DEF NotesInv

(* The exclusive creation makes a new file under a free name.              *)
LEMMA OpenStep ==
  ASSUME NotesInv, Open
  PROVE  NotesInv'
<1>1. call \in CreateCall /\ call.task \in Tasks /\ call.at = "open" /\ status[call.task] = "new"
  BY DEF NotesInv, TypeOK, Open, CreateCall, RollbackCall, Underway
<1>2. Empty \in Contents  BY DEF Contents
<1>3. /\ files' \in Seq(File)
      /\ Len(files') = Len(files) + 1
      /\ entry' \in 1..Len(files') /\ Len(files') \in Nat
      /\ files'[entry'].maker = call.task
      /\ \A f \in 1..Len(files) : files'[f] = files[f]
  BY <1>1, <1>2, NewFileEffect DEF NotesInv, Open, TypeOK
<1>4. TypeOK' /\ call' \in CreateCall'
  <2>1. call' = [op |-> "create", task |-> call.task, at |-> "write",
                 file |-> entry', compared |-> 0]
    BY <1>1 DEF Open, CreateCall
  <2>2. call' \in CreateCall'  BY <1>1, <1>3, <2>1 DEF CreateCall
  <2> QED BY <1>1, <1>3, <2>1, <2>2 DEF NotesInv, TypeOK, Open, Underway, env
<1>5. OwnFile' /\ ComparedFile'
  BY <1>1, <1>3 DEF Open, OwnFile, ComparedFile, CreateCall
<1>6. (Alone => DirectoryKnown)'
  <2>1. SUFFICES ASSUME Alone'
                 PROVE  DirectoryKnown'
    OBVIOUS
  <2>2. DirectoryKnown /\ ~Present
    BY <2>1 DEF NotesInv, Alone, Open, env
  <2>3. /\ call'.op = "create" /\ call'.at = "write"
        /\ call'.file = entry' /\ call'.task = call.task /\ UNCHANGED status
    BY <1>1, <1>3, <1>4 DEF Open, CreateCall
  <2>4. \A t \in Tasks : t # call.task => status[t] # "created"
    BY <2>2 DEF DirectoryKnown, NameHeldBy, Linked, InCall
  <2> QED BY <1>1, <1>3, <2>3, <2>4 DEF DirectoryKnown, NameHeldBy, Linked, InCall
<1>7. (Alone /\ Unfailing => NothingLeft)'
  <2>1. /\ call'.op = "create" /\ call'.at = "write"
        /\ call'.task = call.task /\ call' # Idle
    BY <1>1, <1>4 DEF Open, CreateCall
  <2> QED BY <1>1, <1>3, <2>1 DEF NothingLeft, InCall, Linked
<1> QED BY <1>4, <1>5, <1>6, <1>7 DEF NotesInv

(* The write reaches the file that is open, or fails.                      *)
LEMMA WriteStep ==
  ASSUME NotesInv, Write \/ WriteFails
  PROVE  NotesInv'
<1>1. call \in CreateCall /\ call.task \in Tasks /\ call.at = "write" /\ status[call.task] = "new"
  BY DEF NotesInv, TypeOK, Write, WriteFails, CreateCall, RollbackCall, Underway
<1>2. call.file \in 1..Len(files) /\ files[call.file].maker = call.task
  BY <1>1 DEF NotesInv, OwnFile, CreateCall
<1>3. Wanted \in Contents /\ Partial \in Contents
  BY <1>1, WantedType DEF Wanted, Contents
<1>4. /\ files' \in Seq(File)
      /\ Len(files') = Len(files)
      /\ Write => files'[call.file].content = Wanted
      /\ \A g \in 1..Len(files) \ {call.file} : files'[g] = files[g]
      /\ \A g \in 1..Len(files) : files'[g].maker = files[g].maker
  BY <1>2, <1>3, ContentEffect DEF NotesInv, Write, WriteFails
<1>5. TypeOK'
  BY <1>1, <1>4 DEF NotesInv, TypeOK, Write, WriteFails, CreateCall, Underway, env, Goto
<1>6. OwnFile' /\ ComparedFile'
  BY <1>1, <1>2, <1>4 DEF Write, WriteFails, OwnFile, ComparedFile, CreateCall, Goto
<1>7. (Alone => DirectoryKnown)'
  BY <1>1, <1>2, <1>4
     DEF NotesInv, TypeOK, Write, WriteFails, Alone, DirectoryKnown, InCall, Linked, NameHeldBy,
         env, CreateCall, Goto, Wanted
<1>8. (Alone /\ Unfailing => NothingLeft)'
  BY <1>1, <1>2, <1>4
     DEF NotesInv, TypeOK, Write, WriteFails, Alone, Unfailing, NothingLeft, InCall, Linked, env,
         CreateCall, Goto
<1> QED BY <1>5, <1>6, <1>7, <1>8 DEF NotesInv

(* Every other step of a creation or an undo leaves the files alone, and   *)
(* the name, unless it is taken away.                                      *)
LEMMA CallStep ==
  ASSUME NotesInv,
         \/ OpenExists \/ OpenFails \/ Abandon \/ Verify \/ Discard
         \/ Look \/ Hash \/ Remove \/ Confirm \/ Vanished \/ ReadFails
  PROVE  NotesInv'
<1> USE DEF NotesInv, Return, Raise, Goto, env
<1>1. call \in CreateCall \cup RollbackCall /\ call.task \in Tasks /\ Underway(call.task)
  BY DEF TypeOK, CreateCall, RollbackCall, OpenExists, OpenFails, Abandon, Verify, Discard,
         Look, Hash, Remove, Confirm, Vanished, ReadFails, Reading
<1>2. UNCHANGED files /\ entry' \in {entry, NoFile} /\ UNCHANGED <<outside, crashes>>
      /\ readFaults' \in Nat /\ writeFaults' \in Nat /\ readFaults <= readFaults'
  BY DEF TypeOK, OpenExists, OpenFails, Abandon, Verify, Discard,
         Look, Hash, Remove, Confirm, Vanished, ReadFails
<1>3. \/ /\ call' = Idle
         /\ \/ UNCHANGED status
            \/ \E s \in Status : status' = [status EXCEPT ![call.task] = s]
      \/ /\ call' \in CreateCall \cup RollbackCall
         /\ call'.task = call.task /\ call'.op = call.op /\ call'.file = call.file
         /\ UNCHANGED status
         /\ call'.at = "discard" => call.at = "verify"
         /\ call'.at \in {"discard", "hash", "remove", "confirm"}
         /\ call'.at = "remove" => call'.compared = outside /\ Present' /\ Bytes = Wanted
  <2>1. CASE OpenExists \/ OpenFails  BY <2>1 DEF OpenExists, OpenFails, Status
  <2>2. CASE Abandon \/ Discard  BY <2>2 DEF Abandon, Discard, Status
  <2>3. CASE Verify  BY <1>1, <2>3 DEF Verify, CreateCall, RollbackCall, Status
  <2>4. CASE Look  BY <1>1, <2>4 DEF Look, CreateCall, RollbackCall, Status
  <2>5. CASE Hash
    <3>1. CASE Bytes = Wanted
      <4>1. call \in RollbackCall /\ outside \in 0..outside
        BY <1>1, <2>5 DEF Hash, CreateCall, TypeOK
      <4> QED BY <2>5, <3>1, <4>1 DEF Hash, RollbackCall
    <3>2. CASE Bytes # Wanted  BY <2>5, <3>2 DEF Hash, Status
    <3> QED BY <3>1, <3>2
  <2>6. CASE Remove  BY <1>1, <2>6 DEF Remove, CreateCall, RollbackCall
  <2>7. CASE Confirm \/ Vanished \/ ReadFails  BY <2>7 DEF Confirm, Vanished, ReadFails, Status
  <2> QED BY <2>1, <2>2, <2>3, <2>4, <2>5, <2>6, <2>7
<1>4. TypeOK' /\ OwnFile' /\ ComparedFile'
  <2>1. CASE call' = Idle  BY <1>2, <1>3, <2>1 DEF TypeOK, OwnFile, ComparedFile
  <2>2. CASE call' # Idle
    <3>1. TypeOK'
      BY <1>1, <1>2, <1>3, <2>2 DEF TypeOK, CreateCall, RollbackCall, Underway
    <3>2. OwnFile'
      BY <1>1, <1>2, <1>3, <2>2 DEF OwnFile, CreateCall, RollbackCall
    <3>3. ComparedFile'
      BY <1>1, <1>2, <1>3, <2>2 DEF ComparedFile, CreateCall, RollbackCall, Bytes, Wanted
    <3> QED BY <3>1, <3>2, <3>3
  <2> QED BY <2>1, <2>2
<1>5. (Alone => DirectoryKnown)'
  <2> USE <1>1 DEF Alone, DirectoryKnown, InCall, NameHeldBy, Linked, TypeOK, Underway,
               CreateCall, RollbackCall, Wanted, Bytes
  <2>1. CASE OpenExists \/ OpenFails  BY <2>1 DEF OpenExists, OpenFails
  <2>2. CASE Abandon \/ Discard  BY <2>2 DEF Abandon, Discard
  <2>3. CASE Verify  BY <2>3 DEF Verify
  <2>4. CASE Look  BY <2>4 DEF Look
  <2>8. CASE Hash
    <3>1. CASE Bytes = Wanted
      <4>1. /\ At("rollback", "hash") /\ UNCHANGED <<files, entry, status, outside>>
            /\ call' = [call EXCEPT !.at = "remove", !.compared = outside]
        BY ONLY <2>8, <3>1 DEF Hash, env
      <4>2. call \in RollbackCall
        BY ONLY <1>1, <4>1 DEF At, CreateCall
      <4>3. /\ call'.task = call.task /\ call'.op = "rollback" /\ call'.at = "remove"
            /\ call' # Idle
        BY ONLY <4>1, <4>2 DEF At, RollbackCall, Idle
      <4>4. (Alone => Alone') /\ (Alone' => Alone)  BY <4>1 DEF Alone
      <4> QED BY ONLY NotesInv, <1>1, <4>1, <4>2, <4>3, <4>4
                 DEF NotesInv, DirectoryKnown, InCall, At, NameHeldBy, Linked, RollbackCall
    <3>2. CASE Bytes # Wanted  BY <2>8, <3>2 DEF Hash
    <3> QED BY <3>1, <3>2
  <2>5. CASE Remove  BY <2>5 DEF Remove
  <2>6. CASE Confirm  BY <2>6 DEF Confirm
  <2>7. CASE Vanished \/ ReadFails  BY <2>7 DEF Vanished, ReadFails, Reading
  <2> QED BY <2>1, <2>2, <2>3, <2>4, <2>5, <2>6, <2>7, <2>8
<1>6. (Alone /\ Unfailing => NothingLeft)'
  <2> SUFFICES ASSUME Alone', Unfailing'
               PROVE  NothingLeft'
    OBVIOUS
  <2>1. DirectoryKnown /\ NothingLeft /\ ~ReadFails
    BY <1>2 DEF Alone, Unfailing, ReadFails, TypeOK
  <2> USE <1>1, <2>1 DEF NothingLeft, DirectoryKnown, InCall, NameHeldBy, Linked, TypeOK, Underway,
               CreateCall, RollbackCall, Wanted, Bytes
  <2>2. CASE OpenExists \/ OpenFails  BY <2>2 DEF OpenExists, OpenFails
  <2>3. CASE Abandon \/ Discard  BY <2>3 DEF Abandon, Discard
  <2>4. CASE Verify  BY <2>4 DEF Verify
  <2>5. CASE Look  BY <2>5 DEF Look
  <2>6. CASE Hash
    <3>1. CASE Bytes = Wanted  BY <2>6, <3>1 DEF Hash
    <3>2. CASE Bytes # Wanted  BY <2>6, <3>2 DEF Hash
    <3> QED BY <3>1, <3>2
  <2>7. CASE Remove  BY <2>7 DEF Remove
  <2>8. CASE Confirm  BY <2>8 DEF Confirm
  <2>9. CASE Vanished  BY <2>9 DEF Vanished, Reading
  <2> QED BY <2>2, <2>3, <2>4, <2>5, <2>6, <2>7, <2>8, <2>9
<1> QED BY <1>4, <1>5, <1>6

(* What others do is counted, and may spoil a comparison but not a file    *)
(* that is open.                                                           *)
LEMMA OutsideStep ==
  ASSUME NotesInv, Outside
  PROVE  NotesInv'
<1>1. /\ outside' = outside + 1
      /\ UNCHANGED <<status, call, writeFaults, readFaults, crashes>>
  BY DEF Outside, Edit, Delete, Replace, MayAct
<1>2. /\ files' \in Seq(File)
      /\ Len(files) <= Len(files')
      /\ \A f \in 1..Len(files) : files'[f].maker = files[f].maker
      /\ entry' \in 0..Len(files')
  <2>1. Foreign \in Contents  BY DEF Contents
  <2>2. CASE Edit
    <3>1. entry \in 1..Len(files)  BY <2>2 DEF Edit, NotesInv, TypeOK
    <3>2. TypeOK /\ files' = [files EXCEPT ![entry].content = Foreign] /\ entry' = entry
      BY <2>2 DEF Edit, NotesInv
    <3>3. /\ files' \in Seq(File) /\ Len(files') = Len(files)
          /\ \A f \in 1..Len(files) : files'[f].maker = files[f].maker
      BY <3>1, <3>2, <2>1, ContentEffect
    <3> QED BY <3>1, <3>2, <3>3
  <2>3. CASE Delete  BY <2>3 DEF Delete, NotesInv, TypeOK
  <2>4. CASE Replace
    <3>1. TypeOK /\ NewFile(Others, Foreign)  BY <2>4 DEF Replace, NotesInv
    <3>2. /\ files' \in Seq(File) /\ Len(files') = Len(files) + 1
          /\ entry' \in 1..Len(files')
          /\ \A f \in 1..Len(files) : files'[f] = files[f]
      BY <3>1, <2>1, NewFileEffect
    <3> QED BY <3>2 DEF NotesInv, TypeOK
  <2> QED BY <2>2, <2>3, <2>4 DEF Outside
<1>3. TypeOK'
  BY <1>1, <1>2 DEF NotesInv, TypeOK, CreateCall, RollbackCall, Underway
<1>4. OwnFile'
  <2>1. CASE call \in CreateCall
    <3>1. call.file # NoFile => /\ call.file \in 1..Len(files)
                                /\ files'[call.file].maker = files[call.file].maker
      BY <1>2, <2>1 DEF NotesInv, TypeOK, CreateCall, NoFile
    <3> QED BY <1>1, <2>1, <3>1 DEF NotesInv, OwnFile
  <2>2. CASE call \notin CreateCall
    <3>1. call.op # "create"  BY <2>2 DEF NotesInv, TypeOK, RollbackCall, Idle
    <3> QED BY <1>1, <3>1 DEF OwnFile
  <2> QED BY <2>1, <2>2
<1>5. ComparedFile'
  BY <1>1 DEF NotesInv, TypeOK, ComparedFile, CreateCall, RollbackCall
<1>6. ~Alone'
  BY <1>1 DEF NotesInv, TypeOK, Alone
<1> QED BY <1>3, <1>4, <1>5, <1>6 DEF NotesInv

(* A crash ends the call and forgets every task.                           *)
LEMMA CrashStep ==
  ASSUME NotesInv, Crash
  PROVE  NotesInv'
<1>1. TypeOK' /\ OwnFile' /\ ComparedFile'
  BY DEF Crash, NotesInv, TypeOK, OwnFile, ComparedFile, Status, Underway
<1>2. DirectoryKnown'  BY DEF Crash, DirectoryKnown
<1>3. ~Unfailing'  BY DEF Crash, NotesInv, TypeOK, Unfailing
<1> QED BY <1>1, <1>2, <1>3 DEF NotesInv

(* Every step, of the store or of others, keeps the invariant.             *)
LEMMA NextInv == NotesInv /\ [Next]_vars => NotesInv'
<1> SUFFICES ASSUME NotesInv, [Next]_vars
             PROVE  NotesInv'
  OBVIOUS
<1>1. CASE Store
  BY <1>1, BeginStep, OpenStep, WriteStep, CallStep DEF Store, Create, Rollback
<1>2. CASE Crash  BY <1>2, CrashStep
<1>3. CASE Outside  BY <1>3, OutsideStep
<1>4. CASE UNCHANGED vars
  BY <1>4 DEF vars, NotesInv, TypeOK, OwnFile, ComparedFile, Alone, Unfailing, DirectoryKnown,
              NothingLeft, InCall, CreateCall, RollbackCall, Underway, Linked, NameHeldBy, Bytes,
              Wanted
<1> QED BY <1>1, <1>2, <1>3, <1>4 DEF Next

(* The inductive invariant: types, whose file is open, what was compared,  *)
(* and, while nobody else uses the directory, what the name refers to.     *)
THEOREM NotesInvariant == Spec => []NotesInv
  BY InitInv, NextInv, PTL DEF Spec

-----------------------------------------------------------------------------
(* What the invariant says of the notes.                                   *)

(* As long as nobody else uses the directory, what was reported as created *)
(* is there, word for word, whatever fails.                                *)
THEOREM CreatedStays == Spec => []CreatedIsThere
<1>1. NotesInv => CreatedIsThere
  BY DEF NotesInv, CreatedIsThere, DirectoryKnown, InCall
<1> QED BY <1>1, NotesInvariant, PTL

(* Nor has a task that was undone a file, or one that failed while neither *)
(* the disk nor the process did.                                           *)
THEOREM NothingIsLeft == Spec => []EndsLeaveNothing
<1>1. ASSUME NotesInv, Alone, NEW t \in Tasks, status[t] \in {"undone", "failed"}
      PROVE  /\ status[t] = "undone" => ~Linked(t)
             /\ status[t] = "failed" /\ Unfailing => ~Linked(t)
  <2>1. ~InCall(t)
    BY <1>1 DEF NotesInv, TypeOK, Underway, InCall
  <2> QED BY <1>1, <2>1 DEF NotesInv, DirectoryKnown, NothingLeft
<1>2. NotesInv => EndsLeaveNothing
  BY <1>1 DEF EndsLeaveNothing
<1> QED BY <1>2, NotesInvariant, PTL

(* Only others write into a file that the store did not make for the task. *)
THEOREM NoOverwrite == Spec => WritesOnlyOwn
<1> DEFINE Spared == \A f \in DOMAIN files :
                       files'[f] # files[f] /\ outside' = outside => files[f].maker = call.task
<1>1. ASSUME NotesInv, Next
      PROVE  Spared
  <2>1. CASE UNCHANGED files  BY <2>1
  <2>2. CASE Open
    <3>1. TypeOK /\ Empty \in Contents  BY <1>1 DEF NotesInv, Contents
    <3>2. call.task \in Tasks
      BY <2>2, <3>1 DEF Open, TypeOK, CreateCall, RollbackCall
    <3>3. \A f \in 1..Len(files) : files'[f] = files[f]
      BY <2>2, <3>1, <3>2, NewFileEffect DEF Open
    <3> QED BY <3>1, <3>3 DEF TypeOK
  <2>3. CASE Write \/ WriteFails
    <3>1. call.file \in DOMAIN files /\ files[call.file].maker = call.task
      BY <1>1, <2>3 DEF Write, WriteFails, NotesInv, TypeOK, OwnFile, CreateCall, RollbackCall
    <3>2. \A f \in DOMAIN files \ {call.file} : files'[f] = files[f]
      BY <2>3 DEF Write, WriteFails
    <3> QED BY <3>1, <3>2
  <2>4. CASE Outside
    <3>1. outside' # outside
      BY <1>1, <2>4 DEF Outside, Edit, Delete, Replace, MayAct, NotesInv, TypeOK
    <3> QED BY <3>1
  <2> QED BY <1>1, <2>1, <2>2, <2>3, <2>4
          DEF Next, Store, Create, Rollback, BeginCreate, BeginRollback, OpenExists, OpenFails,
              Abandon, Verify, Discard, Look, Hash, Remove, Confirm, Vanished, ReadFails, Crash
<1>2. NotesInv /\ [Next]_vars => [Spared]_vars
  BY <1>1
<1> QED BY <1>2, NotesInvariant, PTL DEF Spec, WritesOnlyOwn

(* As long as nobody else uses the directory, the store removes only files *)
(* of the task it works for, whatever failed before.                       *)
THEOREM OwnRemoved == Spec => RemovesOnlyOwn
<1> DEFINE Own == Alone /\ entry # NoFile /\ entry' = NoFile /\ outside' = outside =>
                    files[entry].maker = call.task
<1>1. ASSUME NotesInv, Next
      PROVE  Own
  <2>1. CASE UNCHANGED entry  BY <2>1
  <2>2. CASE Abandon \/ Discard \/ Remove
    BY <1>1, <2>2 DEF NotesInv, DirectoryKnown, NameHeldBy, Linked, Abandon, Discard, Remove
  <2>3. CASE Open  BY <2>3 DEF Open
  <2>4. CASE Outside
    BY <1>1, <2>4 DEF Outside, Edit, Delete, Replace, MayAct, NotesInv, TypeOK
  <2> QED BY <1>1, <2>1, <2>2, <2>3, <2>4
          DEF Next, Store, Create, Rollback, BeginCreate, BeginRollback, OpenExists, OpenFails,
              Write, WriteFails, Verify, Look, Hash, Confirm, Vanished, ReadFails, Crash
<1>2. NotesInv /\ [Next]_vars => [Own]_vars
  BY <1>1
<1> QED BY <1>2, NotesInvariant, PTL DEF Spec, RemovesOnlyOwn

(* An undo removes what its receipt describes, if nobody acted after the   *)
(* comparison.                                                             *)
THEOREM UndoSparesFound == Spec => RollbackSparesFound
<1> DEFINE Found == RollbackRemoves /\ outside = call.compared => files[entry].content = Wanted
<1>1. ASSUME NotesInv, Next
      PROVE  Found
  <2>1. CASE Remove  BY <1>1, <2>1 DEF NotesInv, ComparedFile, Remove, Bytes
  <2>2. CASE ~Remove
    <3>1. CASE Abandon \/ Discard  BY <3>1 DEF Abandon, Discard, RollbackRemoves
    <3>2. CASE Open  BY <3>2 DEF Open, RollbackRemoves
    <3>3. CASE Outside
      BY <1>1, <3>3 DEF Outside, Edit, Delete, Replace, MayAct, NotesInv, TypeOK, RollbackRemoves
    <3>4. CASE UNCHANGED entry  BY <3>4 DEF RollbackRemoves
    <3> QED BY <1>1, <2>2, <3>1, <3>2, <3>3, <3>4
            DEF Next, Store, Create, Rollback, BeginCreate, BeginRollback, OpenExists, OpenFails,
                Write, WriteFails, Verify, Look, Hash, Confirm, Vanished, ReadFails, Crash
  <2> QED BY <2>1, <2>2
<1>2. NotesInv /\ [Next]_vars => [Found]_vars
  BY <1>1
<1> QED BY <1>2, NotesInvariant, PTL DEF Spec, RollbackSparesFound
=============================================================================
