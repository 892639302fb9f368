------------------------- MODULE RegistrationProofs -------------------------
(***************************************************************************)
(* Proofs about the registration clients, for any number of invocations,   *)
(* directories and labels.                                                 *)
(*                                                                         *)
(* In a home that no two invocations have used at once, a file changes     *)
(* only by the hand of the one invocation that is running there, and that  *)
(* one has seen that the file was missing.  So the inductive invariant     *)
(* says, for every point of save_identity, what the files of the home hold *)
(* (WriterInv), what a key that is on disk tells about its owner (FileInv),*)
(* and what the owner has done on chain (CallInv).  The copies, which the  *)
(* labels of a directory share, have an invariant of their own (DiskInv).  *)
(***************************************************************************)
EXTENDS Registration, TLAPS

File == Process \cup {None, Torn}

Early == {"asking", "funding", "funded", "prepared"}

Saving == {"check_identity", "write_identity", "writing_identity",
           "check_account", "write_account", "writing_account", "write_seed", "write_did"}

Place == Over \cup Early \cup {"registering"} \cup Saving

Call == [kind : Kind, home : Home, did : File, account : File \cup {Caller, Alice}]

TypeInv ==
    /\ files \in [Home -> [Label -> File]]
    /\ pc \in [Process -> Place]
    /\ call \in [Process -> Call \cup {NoCall}]
    /\ transfer \in [Process -> {"none", "pending", "included"}]
    /\ registration \in [Process -> {"none", "pending", "included"}]
    /\ controller \in [Process -> File \cup {Caller, Alice, Gone}]
    /\ token = [p \in Process |-> token[p]]

HasAccount(p) == call[p].kind \in {"bootstrap", "own"}

\* The keys that p returns are those it has made; if it makes no account, the
\* agent's is that of the caller or of the door.
Fresh(p) ==
    /\ call[p].did = p
    /\ HasAccount(p) => call[p].account = p
    /\ ~HasAccount(p) => call[p].account \in {Caller, Alice}

CallAt(p) ==
    /\ pc[p] # "idle" => call[p] \in Call
    /\ Running(p) => Fresh(p)
    /\ pc[p] # "idle" /\ call[p].kind = "own" => Fresh(p)
    /\ pc[p] \in {"funded", "prepared"} => call[p].kind = "own"
    /\ pc[p] \in Early \cup {"idle"} => registration[p] = "none"
    /\ registration[p] # "none" => Fresh(p)
    /\ registration[p] = "included" <=> controller[p] # None
    /\ controller[p] \notin {None, Gone} => controller[p] = call[p].account
    /\ pc[p] \in Saving /\ call[p].kind # "own" => registration[p] = "included"
    /\ pc[p] \in {"check_account", "write_account", "writing_account"} => HasAccount(p)
    /\ pc[p] \in Saving => registration[p] # "none"
    /\ pc[p] \in {"write_seed", "write_did"} => call[p].kind = "own"

CallInv == \A p \in Process : CallAt(p)

OneAtATime ==
    \A p, q \in Process :
        Running(p) /\ Running(q) /\ call[p].home = call[q].home /\ call[p].home \in Alone
        => p = q

\* A key in this file belongs to q.
Owned(l, q) ==
    /\ pc[q] # "idle"
    /\ Fresh(q)
    /\ l = "account" => HasAccount(q)
    /\ call[q].kind # "own" => registration[q] = "included"

FileInv ==
    \A h \in Alone :
        /\ \A l \in {"identity", "account"} : files[h][l] \in Process => Owned(l, files[h][l])
        /\ files[h]["account"] # None => files[h]["identity"] \in Process
        /\ Readable(h, "account") => files[h]["identity"] = files[h]["account"]

WriterInv ==
    \A p \in Process : Running(p) /\ call[p].home \in Alone =>
        LET f == files[call[p].home] IN
        /\ pc[p] = "write_identity" => f["identity"] = None
        /\ pc[p] = "writing_identity" => f["identity"] = Torn
        /\ pc[p] = "check_account" => f["identity"] = p
        /\ pc[p] = "write_account" => f["identity"] = p /\ f["account"] = None
        /\ pc[p] = "writing_account" => f["identity"] = p /\ f["account"] = Torn
        /\ pc[p] \in {"write_seed", "write_did"} => f["identity"] = p /\ f["account"] = p

DoneInv ==
    \A p \in Process : pc[p] = "done" /\ call[p].home \in Alone =>
        LET f == files[call[p].home] IN
        /\ f["identity"] = call[p].did /\ call[p].did \in Process
        /\ HasAccount(p) => f["account"] = call[p].account /\ call[p].account \in Process

\* Clients that were in the table together know no peace.
TableInv ==
    /\ \A p, q \in Prepared : p # q => p \in disturbed
    /\ LoneClientServed

IInv ==
    TypeInv /\ CallInv /\ OneAtATime /\ FileInv /\ WriterInv /\ DoneInv /\ TableInv
-----------------------------------------------------------------------------
(***************************************************************************)
(* Steps that leave the files alone.                                       *)
(***************************************************************************)
\* Where p stands in save_identity agrees with the files of its home.
WriterAt(p, at) ==
    LET f == files[call[p].home] IN
    /\ at = "write_identity" => f["identity"] = None
    /\ at = "writing_identity" => f["identity"] = Torn
    /\ at = "check_account" => f["identity"] = p
    /\ at = "write_account" => f["identity"] = p /\ f["account"] = None
    /\ at = "writing_account" => f["identity"] = p /\ f["account"] = Torn
    /\ at \in {"write_seed", "write_did"} => f["identity"] = p /\ f["account"] = p

\* The step moves p on, to a place where it has not returned.
Moves(p, to) ==
    /\ Running(p)
    /\ to \in Place \ {"idle", "done"}
    /\ pc' = [pc EXCEPT ![p] = to]
    /\ UNCHANGED <<files, call, overlapped>>

\* A registration that is final stays final.
Settled == \A q \in Process : registration[q] = "included" => registration'[q] = "included"

\* A running invocation that moves on disturbs nothing that the files say,
\* provided it may stand where it goes.
LEMMA MoveKeepsFiles ==
    ASSUME IInv, NEW p \in Process, NEW to, Moves(p, to), Settled,
           call[p].home \in Alone => WriterAt(p, to)
    PROVE  OneAtATime' /\ FileInv' /\ WriterInv' /\ DoneInv'
<1>1. Alone' = Alone /\ files' = files /\ call' = call
  BY Zenon DEF Moves, Alone
<1>2. /\ pc'[p] = to /\ pc'[p] \notin {"idle", "done"} /\ pc[p] # "idle"
      /\ \A q \in Process : q # p => pc'[q] = pc[q]
  BY Zenon DEF Moves, Running, Over, IInv, TypeInv
<1>3. \A q \in Process : Running(q)' => Running(q)
  BY <1>2, Zenon DEF Moves, Running
<1>4. OneAtATime'
  BY <1>1, <1>3, Zenon DEF OneAtATime, IInv
<1>5. FileInv'
  BY <1>1, <1>2 DEF FileInv, IInv, Owned, Fresh, HasAccount, Readable, Settled
<1>6. WriterInv'
  BY <1>1, <1>2, <1>3 DEF WriterInv, WriterAt, IInv
<1>7. DoneInv'
  BY <1>1, <1>2, Zenon DEF DoneInv, IInv, HasAccount
<1>8. QED
  BY <1>4, <1>5, <1>6, <1>7, Zenon

\* So does a step of the chain that leaves the clients alone.
LEMMA ChainKeepsFiles ==
    ASSUME IInv, UNCHANGED <<files, pc, call, overlapped>>, Settled
    PROVE  OneAtATime' /\ FileInv' /\ WriterInv' /\ DoneInv'
BY DEF IInv, OneAtATime, FileInv, WriterInv, DoneInv, Alone, Running, Owned, Fresh, HasAccount,
       Readable, Settled

\* A step that prepares nobody and leaves table and tokens alone.
LEMMA TableFrame ==
    ASSUME IInv, UNCHANGED <<pending, token, disturbed>>,
           \A q \in Process : pc'[q] = "prepared" => pc[q] = "prepared"
    PROVE  TableInv'
BY Zenon DEF IInv, TableInv, LoneClientServed, Prepared, Redeems

-----------------------------------------------------------------------------
(***************************************************************************)
(* The steps of the library.                                               *)
(***************************************************************************)
LEMMA SubmitRegistrationInv ==
    ASSUME IInv, NEW p \in Process, SubmitRegistration(p), UNCHANGED doorVars
    PROVE  IInv'
<1> USE DEF SubmitRegistration, doorVars
<1>1. Moves(p, "registering") /\ Settled /\ WriterAt(p, "registering")
  BY Zenon DEF Moves, Settled, Running, Over, Place, WriterAt, Submitted, IInv, TypeInv,
               CallInv, CallAt, Early
<1>2. TypeInv'
  BY Zenon DEF TypeInv, IInv, Place, Submitted
<1>3. CallInv'
  BY DEF CallInv, CallAt, TypeInv, IInv, Running, Over, Early, Saving, Fresh, HasAccount, Submitted,
         FromLibrary
<1>4. TableInv'
  BY TableFrame, Zenon DEF IInv, TypeInv
<1>5. QED
  BY <1>1, <1>2, <1>3, <1>4, MoveKeepsFiles, Zenon DEF IInv

LEMMA RegistrationFinalInv ==
    ASSUME IInv, NEW p \in Process, RegistrationFinal(p), UNCHANGED doorVars
    PROVE  IInv'
<1> USE DEF RegistrationFinal, doorVars, chainVars
<1>1. Moves(p, "check_identity") /\ Settled /\ WriterAt(p, "check_identity")
  BY Zenon DEF Moves, Settled, Running, Over, Place, Saving, WriterAt
<1>2. TypeInv'
  BY Zenon DEF TypeInv, IInv, Place, Saving
<1>3. CallInv'
  BY DEF CallInv, CallAt, TypeInv, IInv, Running, Over, Early, Saving, Fresh, HasAccount
<1>4. TableInv'
  BY TableFrame, Zenon DEF IInv, TypeInv
<1>5. QED
  BY <1>1, <1>2, <1>3, <1>4, MoveKeepsFiles, Zenon DEF IInv

\* The client of a step that prepares nobody may forget its token.
LEMMA ForgetFrame ==
    ASSUME IInv, NEW p \in Process, NEW to \in Place \ {"prepared"}, pc' = [pc EXCEPT ![p] = to],
           Forget(p), UNCHANGED pending
    PROVE  TableInv'
<1>1. Prepared' \subseteq Prepared /\ p \notin Prepared'
  BY Zenon DEF Prepared, IInv, TypeInv
<1>2. /\ \A q \in Process : q # p => token'[q] = token[q]
      /\ \A q \in Process : q # p => (q \in disturbed' <=> q \in disturbed)
  BY Zenon DEF Forget, IInv, TypeInv
<1>3. \A q \in Prepared' : q \in Process /\ q # p
  BY <1>1, Zenon DEF Prepared
<1>4. \A q, r \in Prepared' : q # r => q \in disturbed'
  BY <1>1, <1>2, <1>3, Zenon DEF IInv, TableInv
<1>5. LoneClientServed'
  BY <1>1, <1>2, <1>3, Zenon DEF IInv, TableInv, LoneClientServed, Redeems
<1> QED BY <1>4, <1>5, Zenon DEF TableInv

\* An invocation that ends with an error, or is killed; the table may forget, not
\* learn.
LEMMA EndsInv ==
    ASSUME IInv, NEW p \in Process, Running(p), pc' = [pc EXCEPT ![p] = "ended"],
           UNCHANGED <<files, call, chainVars, overlapped>>,
           token' = token \/ Forget(p), TableInv'
    PROVE  IInv'
<1> USE DEF chainVars
<1>1. Moves(p, "ended") /\ Settled /\ WriterAt(p, "ended")
  BY Zenon DEF Moves, Settled, Place, Over, WriterAt
<1>2. TypeInv'
  BY Zenon DEF TypeInv, IInv, Place, Over, Forget
<1>3. CallInv'
  BY DEF CallInv, CallAt, TypeInv, IInv, Running, Over, Early, Saving, Fresh, HasAccount
<1>4. QED
  BY <1>1, <1>2, <1>3, MoveKeepsFiles, Zenon DEF IInv

\* The check of save_identity passes when the file is missing.
LEMMA CheckInv ==
    ASSUME IInv, NEW p \in Process,
           \/ CheckFile(p, "check_identity", "identity", "write_identity")
           \/ CheckFile(p, "check_account", "account", "write_account"),
           UNCHANGED <<chainVars, overlapped, doorVars>>
    PROVE  IInv'
<1> USE DEF doorVars, chainVars, CheckFile
<1>1. PICK to \in {"ended", "write_identity", "write_account"} :
        /\ pc' = [pc EXCEPT ![p] = to]
        /\ to = "write_identity" => pc[p] = "check_identity"
                                    /\ ~identity_exists(call[p].home, "identity")
        /\ to = "write_account" => pc[p] = "check_account"
                                   /\ ~identity_exists(call[p].home, "account")
  BY Zenon
<1>2. Moves(p, to) /\ Settled
  BY <1>1, Zenon DEF Moves, Settled, Running, Over, Place, Saving
<1>3. call[p].home \in Alone => WriterAt(p, to)
  BY <1>1, <1>2, Zenon DEF WriterAt, Moves, IInv, WriterInv, identity_exists
<1>4. TypeInv'
  BY <1>1, Zenon DEF TypeInv, IInv, Place, Saving, Over
<1>5. CallInv'
  BY <1>1, <1>2
     DEF CallInv, CallAt, TypeInv, IInv, Running, Over, Early, Saving, Fresh, HasAccount, Moves
<1>6. TableInv'
  BY <1>1, TableFrame, Zenon DEF IInv, TypeInv
<1>7. QED
  BY <1>2, <1>3, <1>4, <1>5, <1>6, MoveKeepsFiles, Zenon DEF IInv

(***************************************************************************)
(* Steps that write a file.                                                *)
(***************************************************************************)
LEMMA SetFileFact ==
    ASSUME TypeInv, NEW h \in Home, NEW l \in Label, NEW key \in File, SetFile(h, l, key)
    PROVE  /\ files' \in [Home -> [Label -> File]]
           /\ files'[h][l] = key
           /\ \A g \in Home, m \in Label : g # h \/ m # l => files'[g][m] = files[g][m]
BY Zenon DEF TypeInv, SetFile

\* The step moves p on and writes one file of its home.
Writes(p, l, key, to) ==
    /\ Running(p)
    /\ pc' = [pc EXCEPT ![p] = to]
    /\ SetFile(call[p].home, l, key)
    /\ UNCHANGED <<call, chainVars, overlapped, doorVars>>

\* All but where p stands and the one file is as it was.
FileSet(p, l, key, to) ==
    /\ call[p].home \in Home /\ call' = call /\ Alone' = Alone /\ registration' = registration
    /\ pc'[p] = to /\ pc[p] # "idle"
    /\ \A q \in Process : q # p => pc'[q] = pc[q]
    /\ files'[call[p].home][l] = key
    /\ \A g \in Home, m \in Label :
           g # call[p].home \/ m # l => files'[g][m] = files[g][m]

\* The part of the invariant that a written file does not touch.
Untouched == TypeInv /\ CallInv /\ OneAtATime /\ TableInv

\* What the steps below share.
LEMMA WriteFrame ==
    ASSUME IInv, NEW p \in Process, NEW l \in Label, NEW key \in File,
           NEW to \in Saving \cup {"done"}, Writes(p, l, key, to),
           /\ to \in Saving => pc[p] \in Saving
           /\ to \in {"check_account", "write_account", "writing_account"} => HasAccount(p)
           /\ to \in {"write_seed", "write_did"} => call[p].kind = "own"
    PROVE  Untouched' /\ FileSet(p, l, key, to)
<1> USE DEF chainVars, doorVars, Writes
<1>1. call[p].home \in Home /\ pc[p] # "idle"
  BY Zenon DEF IInv, CallInv, CallAt, Call, Running, Over
<1>2. /\ files' \in [Home -> [Label -> File]]
      /\ files'[call[p].home][l] = key
      /\ \A g \in Home, m \in Label :
             g # call[p].home \/ m # l => files'[g][m] = files[g][m]
  BY <1>1, SetFileFact, Zenon DEF IInv
<1>3. pc'[p] = to /\ \A q \in Process : q # p => pc'[q] = pc[q]
  BY Zenon DEF IInv, TypeInv
<1>4. TypeInv'
  BY <1>2, Zenon DEF TypeInv, IInv, Place, Over
<1>5. CallInv'
  BY <1>3 DEF CallInv, CallAt, IInv, Running, Over, Early, Saving, Fresh, HasAccount
<1>6. OneAtATime'
  BY <1>3, Zenon DEF OneAtATime, IInv, Running, Alone
<1>7. TableInv'
  BY <1>3, TableFrame, Zenon DEF Saving
<1>8. QED
  <2>1. call' = call /\ Alone' = Alone /\ registration' = registration
    BY Zenon DEF Alone
  <2>2. FileSet(p, l, key, to)
    BY <1>1, <1>2, <1>3, <2>1, Zenon DEF FileSet
  <2>3. QED
    BY <1>4, <1>5, <1>6, <1>7, <2>2, Zenon DEF Untouched

LEMMA OwnedKept ==
    ASSUME call' = call, registration' = registration,
           \A q \in Process : pc[q] # "idle" => pc'[q] # "idle"
    PROVE  \A l \in Label, q \in Process : Owned(l, q) => Owned(l, q)'
BY Zenon DEF Owned, Fresh, HasAccount

\* fs::write of the identity begins: the file was missing, and so was the account.
LEMMA BeginIdentityInv ==
    ASSUME IInv, NEW p \in Process,
           BeginWrite(p, "write_identity", "identity", "writing_identity"),
           UNCHANGED <<chainVars, overlapped, doorVars>>
    PROVE  IInv'
<1>1. Writes(p, "identity", Torn, "writing_identity") /\ pc[p] = "write_identity"
  BY Zenon DEF BeginWrite, Writes, Running, Over
<1> DEFINE h == call[p].home
<1>2. Untouched' /\ FileSet(p, "identity", Torn, "writing_identity")
  BY <1>1, WriteFrame, Zenon DEF Label, File, Saving
<1>3. h \in Alone => /\ files[h]["identity"] = None /\ files[h]["account"] = None
                     /\ \A q \in Process : Running(q) /\ call[q].home = h => q = p
                     /\ \A q \in Process : pc[q] = "done" => call[q].home # h
  <2>1. h \in Alone => files[h]["identity"] = None /\ files[h]["identity"] \notin Process
    BY <1>1, RegistrationAssumption, Zenon DEF IInv, WriterInv, Writes
  <2>2. h \in Alone => files[h]["account"] = None
    BY <2>1, Zenon DEF IInv, FileInv
  <2>3. h \in Alone => \A q \in Process : Running(q) /\ call[q].home = h => q = p
    BY <1>1, Zenon DEF IInv, OneAtATime, Writes
  <2>4. h \in Alone => \A q \in Process : pc[q] = "done" => call[q].home # h
    BY <2>1, Zenon DEF IInv, DoneInv
  <2>5. QED
    BY <2>1, <2>2, <2>3, <2>4, Zenon
<1>4. FileInv'
  <2>1. \A l \in Label, q \in Process : Owned(l, q) => Owned(l, q)'
    BY <1>2, OwnedKept, Zenon DEF FileSet
  <2>2. QED
    BY <1>2, <1>3, <2>1, RegistrationAssumption DEF FileSet, FileInv, IInv, Readable, Alone, Label
<1>5. WriterInv'
  BY <1>2, <1>3 DEF FileSet, WriterInv, IInv, Running, Over, Alone, Label
<1>6. DoneInv'
  BY <1>2, <1>3 DEF FileSet, DoneInv, IInv, HasAccount, Alone, Label
<1>7. QED
  BY <1>2, <1>4, <1>5, <1>6, Zenon DEF IInv, Untouched

\* ... and ends: the key belongs to a registered agent, or to register-me.
LEMMA EndIdentityInv ==
    ASSUME IInv, NEW p \in Process,
           EndWrite(p, "writing_identity", "identity", AfterIdentity(p)),
           UNCHANGED <<chainVars, overlapped, doorVars>>
    PROVE  IInv'
<1> DEFINE h == call[p].home
           to == AfterIdentity(p)
<1>1. Writes(p, "identity", p, to) /\ pc[p] = "writing_identity"
  BY Zenon DEF EndWrite, Writes, Running, Over
<1>2. to \in {"check_account", "done"} /\ (to = "check_account" <=> HasAccount(p))
  BY Zenon DEF AfterIdentity, LabelsOf, HasAccount
<1>3. Untouched' /\ FileSet(p, "identity", p, to)
  BY <1>1, <1>2, WriteFrame, Zenon DEF Label, File, Saving
<1>4. h \in Alone => /\ files[h]["identity"] = Torn /\ files[h]["account"] = None
                     /\ \A q \in Process : Running(q) /\ call[q].home = h => q = p
                     /\ \A q \in Process : pc[q] = "done" => call[q].home # h
  BY <1>1, RegistrationAssumption DEF IInv, WriterInv, FileInv, OneAtATime, DoneInv, Writes, TypeInv
<1>5. Fresh(p) /\ (call[p].kind # "own" => registration[p] = "included")
  BY <1>1, Zenon DEF IInv, CallInv, CallAt, Writes, Saving
<1>6. FileInv'
  <2>1. \A l \in Label, q \in Process : Owned(l, q) => Owned(l, q)'
    BY <1>2, <1>3, OwnedKept, Zenon DEF FileSet
  <2>2. Owned("identity", p)'
    BY <1>2, <1>3, <1>5, Zenon DEF FileSet, Owned, Fresh, HasAccount
  <2>3. QED
    BY <1>2, <1>3, <1>4, <1>5, <2>1, <2>2, RegistrationAssumption
       DEF FileSet, FileInv, IInv, Readable, Alone, Label
<1>7. WriterInv'
  BY <1>2, <1>3, <1>4 DEF FileSet, WriterInv, IInv, Running, Over, Alone, Label
<1>8. DoneInv'
  BY <1>2, <1>3, <1>4, <1>5 DEF FileSet, DoneInv, IInv, HasAccount, Alone, Label, Fresh
<1>9. QED
  BY <1>3, <1>6, <1>7, <1>8, Zenon DEF IInv, Untouched

LEMMA BeginAccountInv ==
    ASSUME IInv, NEW p \in Process,
           BeginWrite(p, "write_account", "account", "writing_account"),
           UNCHANGED <<chainVars, overlapped, doorVars>>
    PROVE  IInv'
<1> DEFINE h == call[p].home
<1>1. Writes(p, "account", Torn, "writing_account") /\ pc[p] = "write_account" /\ HasAccount(p)
  BY Zenon DEF BeginWrite, Writes, Running, Over, IInv, CallInv, CallAt
<1>2. Untouched' /\ FileSet(p, "account", Torn, "writing_account")
  BY <1>1, WriteFrame, Zenon DEF Label, File, Saving
<1>3. h \in Alone => /\ files[h]["identity"] = p /\ files[h]["account"] = None
                     /\ \A q \in Process : Running(q) /\ call[q].home = h => q = p
                     /\ \A q \in Process : pc[q] = "done" /\ call[q].home = h => ~HasAccount(q)
  <2>1. h \in Alone => /\ files[h]["identity"] = p /\ files[h]["account"] = None
                       /\ files[h]["account"] \notin Process
    BY <1>1, RegistrationAssumption, Zenon DEF IInv, WriterInv, Writes
  <2>2. h \in Alone => \A q \in Process : Running(q) /\ call[q].home = h => q = p
    BY <1>1, Zenon DEF IInv, OneAtATime, Writes
  <2>3. h \in Alone => \A q \in Process : pc[q] = "done" /\ call[q].home = h => ~HasAccount(q)
    <3>1. SUFFICES ASSUME h \in Alone, NEW q \in Process, pc[q] = "done", call[q].home = h
                   PROVE  ~HasAccount(q)
      BY Zenon
    <3>2. HasAccount(q) => files[h]["account"] \in Process
      BY <3>1 DEF IInv, DoneInv
    <3>3. QED
      BY <2>1, <3>1, <3>2, Zenon
  <2>4. QED
    BY <2>1, <2>2, <2>3, Zenon
<1>4. FileInv'
  <2>1. \A l \in Label, q \in Process : Owned(l, q) => Owned(l, q)'
    BY <1>2, OwnedKept, Zenon DEF FileSet
  <2>2. QED
    BY <1>2, <1>3, <2>1, RegistrationAssumption DEF FileSet, FileInv, IInv, Readable, Alone, Label
<1>5. WriterInv'
  BY <1>2, <1>3 DEF FileSet, WriterInv, IInv, Running, Over, Alone, Label
<1>6. DoneInv'
  BY <1>2, <1>3 DEF FileSet, DoneInv, IInv, HasAccount, Alone, Label
<1>7. QED
  BY <1>2, <1>4, <1>5, <1>6, Zenon DEF IInv, Untouched

LEMMA EndAccountInv ==
    ASSUME IInv, NEW p \in Process,
           EndWrite(p, "writing_account", "account", AfterAccount(p)),
           UNCHANGED <<chainVars, overlapped, doorVars>>
    PROVE  IInv'
<1> DEFINE h == call[p].home
           to == AfterAccount(p)
<1>1. Writes(p, "account", p, to) /\ pc[p] = "writing_account" /\ HasAccount(p)
  BY Zenon DEF EndWrite, Writes, Running, Over, IInv, CallInv, CallAt
<1>2. to \in {"write_seed", "done"} /\ (to = "write_seed" <=> call[p].kind = "own")
  BY Zenon DEF AfterAccount
<1>3. Untouched' /\ FileSet(p, "account", p, to)
  BY <1>1, <1>2, WriteFrame, Zenon DEF Label, File, Saving
<1>4. h \in Alone => /\ files[h]["identity"] = p /\ files[h]["account"] = Torn
                     /\ \A q \in Process : Running(q) /\ call[q].home = h => q = p
                     /\ \A q \in Process : pc[q] = "done" /\ call[q].home = h => ~HasAccount(q)
  <2>1. h \in Alone => /\ files[h]["identity"] = p /\ files[h]["account"] = Torn
                       /\ files[h]["account"] \notin Process
    BY <1>1, RegistrationAssumption, Zenon DEF IInv, WriterInv, Writes
  <2>2. h \in Alone => \A q \in Process : Running(q) /\ call[q].home = h => q = p
    BY <1>1, Zenon DEF IInv, OneAtATime, Writes
  <2>3. h \in Alone => \A q \in Process : pc[q] = "done" /\ call[q].home = h => ~HasAccount(q)
    <3>1. SUFFICES ASSUME h \in Alone, NEW q \in Process, pc[q] = "done", call[q].home = h
                   PROVE  ~HasAccount(q)
      BY Zenon
    <3>2. HasAccount(q) => files[h]["account"] \in Process
      BY <3>1 DEF IInv, DoneInv
    <3>3. QED
      BY <2>1, <3>1, <3>2, Zenon
  <2>4. QED
    BY <2>1, <2>2, <2>3, Zenon
<1>5. Fresh(p) /\ (call[p].kind # "own" => registration[p] = "included")
  BY <1>1, Zenon DEF IInv, CallInv, CallAt, Writes, Saving
<1>6. FileInv'
  <2>1. \A l \in Label, q \in Process : Owned(l, q) => Owned(l, q)'
    BY <1>2, <1>3, OwnedKept, Zenon DEF FileSet
  <2>2. Owned("account", p)'
    BY <1>1, <1>2, <1>3, <1>5, Zenon DEF FileSet, Owned, Fresh, HasAccount
  <2>3. QED
    BY <1>3, <1>4, <2>1, <2>2 DEF FileSet, FileInv, IInv, Readable, Alone, Label
<1>7. WriterInv'
  BY <1>2, <1>3, <1>4 DEF FileSet, WriterInv, IInv, Running, Over, Alone, Label
<1>8. DoneInv'
  BY <1>1, <1>2, <1>3, <1>4, <1>5 DEF FileSet, DoneInv, IInv, HasAccount, Alone, Label, Fresh
<1>9. QED
  BY <1>3, <1>6, <1>7, <1>8, Zenon DEF IInv, Untouched

\* register-me makes its two copies, and returns.
LEMMA WriteSeedInv ==
    ASSUME IInv, NEW p \in Process, WriteSeed(p)
    PROVE  IInv'
<1> USE DEF chainVars
<1>1. PICK to \in {"write_did", "ended"} : pc' = [pc EXCEPT ![p] = to]
  BY Zenon DEF WriteSeed, WriteCopy, Goes
<1>2. /\ pc[p] = "write_seed"
      /\ UNCHANGED <<files, call, chainVars, overlapped, serving, pending, token, disturbed>>
  BY Zenon DEF WriteSeed
<1>3. Moves(p, to) /\ Settled
  BY <1>1, <1>2, Zenon DEF Moves, Settled, Running, Over, Place, Saving
<1>4. call[p].home \in Alone => WriterAt(p, to)
  BY <1>1, <1>2, <1>3, Zenon DEF WriterAt, Moves, IInv, WriterInv
<1>5. TypeInv'
  BY <1>1, <1>2, Zenon DEF TypeInv, IInv, Place, Over, Saving
<1>6. CallInv'
  BY <1>1, <1>2 DEF CallInv, CallAt, TypeInv, IInv, Running, Over, Early, Saving, Fresh, HasAccount
<1>7. TableInv'
  BY <1>1, <1>2, TableFrame, Zenon DEF IInv, TypeInv
<1>8. QED
  BY <1>3, <1>4, <1>5, <1>6, <1>7, MoveKeepsFiles, Zenon DEF IInv

LEMMA WriteDidInv ==
    ASSUME IInv, NEW p \in Process, WriteDid(p)
    PROVE  IInv'
<1> USE DEF chainVars
<1>1. PICK to \in {"done", "ended"} : pc' = [pc EXCEPT ![p] = to]
  BY Zenon DEF WriteDid, WriteCopy, Goes
<1>2. /\ pc[p] = "write_did" /\ Running(p)
      /\ UNCHANGED <<files, call, chainVars, overlapped, serving, pending, token, disturbed>>
  BY Zenon DEF WriteDid, Running, Over
<1>3. TableInv'
  BY <1>1, <1>2, TableFrame, Zenon DEF IInv, TypeInv
<1>4. CASE to = "ended"
  BY <1>1, <1>2, <1>3, <1>4, EndsInv, Zenon
<1>5. CASE to = "done"
  <2>1. /\ pc'[p] = "done" /\ pc[p] # "idle" /\ \A q \in Process : q # p => pc'[q] = pc[q]
        /\ Alone' = Alone
    BY <1>1, <1>2, <1>5, Zenon DEF IInv, TypeInv, Alone
  <2>2. TypeInv'
    BY <1>1, <1>2, Zenon DEF TypeInv, IInv, Place, Over
  <2>3. CallInv'
    BY <1>2, <2>1 DEF CallInv, CallAt, TypeInv, IInv, Running, Over, Early, Saving, Fresh, HasAccount
  <2>4. \A q \in Process : Running(q)' => Running(q) /\ pc'[q] = pc[q]
    BY <2>1, Zenon DEF Running, Over
  <2>5. OneAtATime'
    BY <1>2, <2>1, <2>4, Zenon DEF IInv, OneAtATime
  <2>6. WriterInv'
    BY <1>2, <2>1, <2>4 DEF IInv, WriterInv
  <2>7. FileInv'
    <3>1. \A l \in Label, q \in Process : Owned(l, q) => Owned(l, q)'
      BY <1>2, <2>1, OwnedKept, Zenon
    <3>2. QED
      BY <1>2, <2>1, <3>1, Zenon DEF FileInv, IInv, Readable, Label
  <2>8. DoneInv'
    <3>1. /\ Fresh(p) /\ call[p].kind = "own"
          /\ call[p].home \in Alone => /\ files[call[p].home]["identity"] = p
                                      /\ files[call[p].home]["account"] = p
      BY <1>2, Zenon DEF IInv, CallInv, CallAt, WriterInv
    <3>2. QED
      BY <1>2, <2>1, <3>1 DEF IInv, DoneInv, HasAccount, Fresh
  <2>9. QED
    BY <1>3, <2>2, <2>3, <2>5, <2>6, <2>7, <2>8, Zenon DEF IInv
<1>6. QED
  BY <1>1, <1>4, <1>5, Zenon

(***************************************************************************)
(* Steps that start an invocation.                                         *)
(***************************************************************************)
\* p was idle, and is called; the others are where they were.
Called(p, at, kind, h, did, account) ==
    /\ pc[p] = "idle" /\ pc'[p] = at
    /\ call'[p] \in Call /\ call'[p].kind = kind /\ call'[p].home = h
    /\ call'[p].did = did /\ call'[p].account = account
    /\ \A q \in Process : q # p => pc'[q] = pc[q] /\ call'[q] = call[q]

\* A home that p keeps to itself was empty.
Entered(h) ==
    /\ Alone' \subseteq Alone
    /\ h \in Alone' => \A q \in Process : Running(q) => call[q].home # h

\* Nobody has heard of an invocation that has not begun.
LEMMA InvokeFrame ==
    ASSUME IInv, NEW p \in Process, NEW at \in Place \ {"idle", "prepared"}, NEW kind \in Kind,
           NEW h \in Home, NEW did \in File, NEW account \in File \cup {Caller, Alice},
           Invoke(p, at, kind, h, did, account),
           files' = files, controller' = controller, UNCHANGED doorVars,
           \A q \in Process : q # p => registration'[q] = registration[q]
    PROVE  /\ registration[p] = "none" /\ controller[p] = None
           /\ pc' \in [Process -> Place] /\ call' \in [Process -> Call \cup {NoCall}]
           /\ Called(p, at, kind, h, did, account) /\ Entered(h)
           /\ FileInv' /\ TableInv'
<1> USE DEF Invoke, doorVars
<1>1. pc[p] = "idle" /\ registration[p] = "none" /\ controller[p] = None
  BY Zenon DEF IInv, CallInv, CallAt
<1>2. [kind |-> kind, home |-> h, did |-> did, account |-> account] \in Call
  BY Zenon DEF Call
<1>3. /\ pc' \in [Process -> Place] /\ call' \in [Process -> Call \cup {NoCall}]
      /\ pc'[p] = at
      /\ call'[p] = [kind |-> kind, home |-> h, did |-> did, account |-> account]
      /\ \A q \in Process : q # p => pc'[q] = pc[q] /\ call'[q] = call[q]
  BY <1>2, Zenon DEF IInv, TypeInv
<1>4. Entered(h)
  BY Zenon DEF Enter, Alone, Entered
<1>5. Called(p, at, kind, h, did, account)
  BY <1>1, <1>2, <1>3, Zenon DEF Called
<1>6. FileInv'
  <2>1. \A l \in Label, q \in Process : Owned(l, q) => Owned(l, q)'
    BY <1>1, <1>3, Zenon DEF Owned, Fresh, HasAccount
  <2>2. Alone' \subseteq Alone
    BY <1>4, Zenon DEF Entered
  <2>3. QED
    BY <2>1, <2>2, Zenon DEF IInv, FileInv, Readable, Label
<1>7. TableInv'
  BY <1>3, TableFrame, Zenon
<1>8. QED
  BY <1>1, <1>3, <1>4, <1>5, <1>6, <1>7, Zenon

LEMMA CallKept ==
    ASSUME NEW q, pc'[q] = pc[q], call'[q] = call[q], registration'[q] = registration[q],
           controller'[q] = controller[q], CallAt(q)
    PROVE  CallAt(q)'
BY Zenon DEF CallAt, Running, Fresh, HasAccount

\* Nobody stands at a file yet, and p has a home to itself or is done with it.
LEMMA CalledKeeps ==
    ASSUME OneAtATime, WriterInv, NEW p \in Process, NEW at, NEW kind, NEW h,
           NEW did, NEW account, Called(p, at, kind, h, did, account), files' = files,
           Entered(h), at \notin Saving
    PROVE  OneAtATime' /\ WriterInv'
<1>1. OneAtATime'
  BY Zenon DEF Called, Entered, OneAtATime, Running
<1>2. WriterInv'
  BY DEF Called, Entered, WriterInv, Running, Saving
<1> QED BY <1>1, <1>2, Zenon

\* The fast path returns what the home holds.
LEMMA FastPathInv ==
    ASSUME IInv, NEW p \in Process, NEW kind \in {"bootstrap", "load"}, NEW h \in Home,
           FastPath(p, kind, h), UNCHANGED doorVars
    PROVE  IInv'
<1> DEFINE at == IF \A l \in LabelsOf(kind) : Readable(h, l) THEN "done" ELSE "ended"
           did == files[h]["identity"]
           account == IF kind = "bootstrap" THEN files[h]["account"] ELSE Caller
<1> USE DEF FastPath, chainVars
<1>1. /\ at \in {"done", "ended"} /\ kind \in Kind /\ did \in File
      /\ account \in File \cup {Caller, Alice}
  BY DEF Kind, IInv, TypeInv, Label
<1>2. Invoke(p, at, kind, h, did, account)
  BY Zenon
<1> HIDE DEF FastPath
<1>3. files' = files /\ registration' = registration /\ controller' = controller
      /\ transfer' = transfer
  BY Zenon DEF FastPath
<1>4. at \in Place \ {"idle", "prepared"}
  BY <1>1, Zenon DEF Place, Over
<1>5. at = "done" => did \in Process /\ (kind = "bootstrap" => account \in Process)
  <2>1. HAVE at = "done"
  <2>2. \A l \in LabelsOf(kind) : Readable(h, l)
    BY <2>1, Zenon
  <2>3. Readable(h, "identity") /\ (kind = "bootstrap" => Readable(h, "account"))
    BY <2>2, Zenon DEF LabelsOf
  <2>4. QED
    BY <2>3 DEF Readable, File, IInv, TypeInv, Label
<1> HIDE DEF at, did, account
<1>6. /\ registration[p] = "none" /\ controller[p] = None
      /\ pc' \in [Process -> Place] /\ call' \in [Process -> Call \cup {NoCall}]
      /\ Called(p, at, kind, h, did, account) /\ Entered(h)
      /\ FileInv' /\ TableInv'
  BY <1>1, <1>2, <1>3, <1>4, InvokeFrame, Zenon
<1>7. Called(p, at, kind, h, did, account) /\ Alone' \subseteq Alone
  BY <1>6, Zenon DEF Entered
<1>8. TypeInv'
  BY <1>3, <1>6, Zenon DEF IInv, TypeInv, doorVars
<1>9. CallInv'
  <2>1. CallAt(p)'
    BY <1>1, <1>3, <1>6, Zenon DEF Called, CallAt, Running, Over, Early, Saving, HasAccount
  <2>2. \A q \in Process : q # p => CallAt(q)'
    BY <1>3, <1>7, CallKept, Zenon DEF Called, IInv, CallInv
  <2>3. QED
    BY <2>1, <2>2, Zenon DEF CallInv
<1>10. at \notin Saving
  BY <1>1, Zenon DEF Saving
<1>11. OneAtATime' /\ WriterInv'
  BY <1>3, <1>6, <1>10, CalledKeeps, Zenon DEF IInv
<1>12. DoneInv'
  <2>1. SUFFICES ASSUME NEW q \in Process, pc'[q] = "done", call'[q].home \in Alone'
                 PROVE  LET f == files'[call'[q].home] IN
                        /\ f["identity"] = call'[q].did /\ call'[q].did \in Process
                        /\ HasAccount(q)' => /\ f["account"] = call'[q].account
                                             /\ call'[q].account \in Process
    BY Zenon DEF DoneInv
  <2>2. CASE q = p
    BY <1>3, <1>5, <1>7, <2>1, <2>2, Zenon DEF Called, HasAccount, did, account
  <2>3. CASE q # p
    BY <1>3, <1>7, <2>1, <2>3 DEF Called, IInv, DoneInv, HasAccount
  <2>4. QED
    BY <2>2, <2>3, Zenon
<1>13. QED
  BY <1>6, <1>8, <1>9, <1>11, <1>12, Zenon DEF IInv

\* Everybody else begins with fresh keys.
LEMMA BeginInv ==
    ASSUME IInv, NEW p \in Process, NEW at \in {"asking", "funding", "registering"},
           NEW kind \in Kind, NEW h \in Home, NEW account \in {p, Caller, Alice},
           account \in IF kind \in {"bootstrap", "own"} THEN {p} ELSE {Caller, Alice},
           Invoke(p, at, kind, h, p, account),
           registration' = IF at = "registering" THEN Submitted(registration, p) ELSE registration,
           transfer' \in {transfer, Submitted(transfer, p)},
           UNCHANGED <<files, controller, doorVars>>
    PROVE  IInv'
<1>1. /\ at \in Place \ {"idle", "prepared"} /\ p \in File /\ account \in File \cup {Caller, Alice}
      /\ registration' \in [Process -> {"none", "pending", "included"}]
      /\ transfer' \in [Process -> {"none", "pending", "included"}]
      /\ \A q \in Process : q # p => registration'[q] = registration[q]
      /\ registration'[p] = IF at = "registering" THEN "pending" ELSE registration[p]
  BY Zenon DEF Place, Early, File, Submitted, IInv, TypeInv
<1>2. /\ registration[p] = "none" /\ controller[p] = None
      /\ pc' \in [Process -> Place] /\ call' \in [Process -> Call \cup {NoCall}]
      /\ Called(p, at, kind, h, p, account) /\ Entered(h)
      /\ FileInv' /\ TableInv'
  BY <1>1, InvokeFrame, Zenon
<1>3. Called(p, at, kind, h, p, account) /\ Entered(h)
  BY <1>2, Zenon
<1>4. TypeInv'
  BY <1>1, <1>2, Zenon DEF IInv, TypeInv, doorVars
<1>5. CallInv'
  <2>1. CallAt(p)'
    BY <1>1, <1>2, Zenon DEF Called, CallAt, Running, Over, Early, Saving, Fresh, HasAccount
  <2>2. \A q \in Process : q # p => CallAt(q)'
    BY <1>1, <1>3, CallKept, Zenon DEF Called, IInv, CallInv
  <2>3. QED
    BY <2>1, <2>2, Zenon DEF CallInv
<1>6. at \notin Saving \cup {"idle", "done"}
  BY Zenon DEF Saving
<1>7. OneAtATime' /\ WriterInv'
  BY <1>3, <1>6, CalledKeeps, Zenon DEF IInv
<1>8. DoneInv'
  BY <1>3, <1>6 DEF Called, Entered, IInv, DoneInv, HasAccount
<1>9. QED
  BY <1>2, <1>4, <1>5, <1>7, <1>8, Zenon DEF IInv

-----------------------------------------------------------------------------
(***************************************************************************)
(* The chain.                                                              *)
(***************************************************************************)
LEMMA ChainInv ==
    ASSUME IInv, NEW p \in Process,
           IncludeTransfer(p) \/ IncludeRegistration(p) \/ deregister_agent(p), UNCHANGED doorVars
    PROVE  IInv'
<1> USE DEF IncludeTransfer, IncludeRegistration, deregister_agent, doorVars
<1>1. UNCHANGED <<files, pc, call, overlapped>> /\ Settled
  BY Zenon DEF Settled, IInv, TypeInv
<1>2. TypeInv'
  <2>1. CASE IncludeTransfer(p)
    BY <2>1, Zenon DEF IInv, TypeInv
  <2>2. CASE IncludeRegistration(p)
    <3>1. call[p] \in Call
      BY <2>2, Zenon DEF IInv, CallInv, CallAt, Early
    <3>2. QED
      BY <2>2, <3>1, Zenon DEF IInv, TypeInv, Call
  <2>3. CASE deregister_agent(p)
    BY <2>3, Zenon DEF IInv, TypeInv
  <2>4. QED
    BY <2>1, <2>2, <2>3, Zenon
<1>3. CallInv'
  <2>1. CASE IncludeTransfer(p)
    BY <2>1 DEF IInv, CallInv, CallAt, Running, Fresh, HasAccount
  <2>2. CASE IncludeRegistration(p)
    <3>1. /\ call[p] \in Call /\ Fresh(p) /\ pc[p] \notin Early \cup {"idle"}
          /\ call[p].account \notin {None, Gone}
      <4>1. registration[p] = "pending" /\ CallAt(p)
        BY <2>2, Zenon DEF IInv, CallInv
      <4>2. Fresh(p) /\ pc[p] \notin Early \cup {"idle"} /\ call[p] \in Call
        BY <4>1, Zenon DEF CallAt
      <4>3. call[p].account \in {p, Caller, Alice}
        BY <4>2, Zenon DEF Fresh
      <4>4. QED
        BY <4>2, <4>3, RegistrationAssumption, Zenon
    <3>2. QED
      BY <2>2, <3>1 DEF IInv, TypeInv, CallInv, CallAt, Running, Fresh, HasAccount
  <2>3. CASE deregister_agent(p)
    BY <2>3, RegistrationAssumption DEF IInv, TypeInv, CallInv, CallAt, Running, Fresh, HasAccount
  <2>4. QED
    BY <2>1, <2>2, <2>3
<1>4. TableInv'
  BY <1>1, TableFrame, Zenon
<1>5. QED
  BY <1>1, <1>2, <1>3, <1>4, ChainKeepsFiles, Zenon DEF IInv

(***************************************************************************)
(* The door.                                                               *)
(***************************************************************************)
LEMMA FundInv ==
    ASSUME IInv, NEW p \in Process, Fund(p)
    PROVE  IInv'
<1> USE DEF Fund, Goes, Submitted
<1>1. Moves(p, "funding") /\ Settled /\ WriterAt(p, "funding")
  BY Zenon DEF Moves, Settled, Running, Over, Place, Early, WriterAt
<1>2. TypeInv'
  BY Zenon DEF TypeInv, IInv, Place, Early
<1>3. CallInv'
  BY DEF CallInv, CallAt, TypeInv, IInv, Running, Over, Early, Saving, Fresh, HasAccount
<1>4. TableInv'
  BY TableFrame, Zenon DEF IInv, TypeInv
<1>5. QED
  BY <1>1, <1>2, <1>3, <1>4, MoveKeepsFiles, Zenon DEF IInv

LEMMA RegisterInv ==
    ASSUME IInv, NEW p \in Process, Register(p)
    PROVE  IInv'
<1> USE DEF Register, Goes, Submitted
<1>1. Moves(p, "registering") /\ Settled /\ WriterAt(p, "registering")
  BY Zenon DEF Moves, Settled, Running, Over, Place, WriterAt, IInv, CallInv, CallAt, TypeInv, Early
<1>2. TypeInv'
  BY Zenon DEF TypeInv, IInv, Place
<1>3. CallInv'
  BY DEF CallInv, CallAt, TypeInv, IInv, Running, Over, Early, Saving, Fresh, HasAccount
<1>4. TableInv'
  BY TableFrame, Zenon DEF IInv, TypeInv
<1>5. QED
  BY <1>1, <1>2, <1>3, <1>4, MoveKeepsFiles, Zenon DEF IInv

\* A step of the door that no client is told of.
LEMMA ToldNobody ==
    ASSUME IInv, UNCHANGED <<files, pc, call, chainVars, overlapped, token>>, TableInv'
    PROVE  IInv'
<1> USE DEF chainVars
<1>1. OneAtATime' /\ FileInv' /\ WriterInv' /\ DoneInv'
  BY ChainKeepsFiles, Zenon DEF Settled
<1>2. TypeInv' /\ CallInv'
  BY DEF IInv, TypeInv, CallInv, CallAt, Running, Fresh, HasAccount
<1>3. QED
  BY <1>1, <1>2, Zenon DEF IInv

LEMMA AnswerInv ==
    ASSUME IInv, NEW p \in Process, Answer(p)
    PROVE  IInv'
<1> USE DEF Answer, Told, chainVars
<1>1. CASE pc' = pc
  BY <1>1, ToldNobody, TableFrame, Zenon
<1>2. CASE pc' # pc
  <2>1. PICK to \in {"funded", "check_identity"} :
          /\ pc' = [pc EXCEPT ![p] = to]
          /\ to = "funded" => pc[p] = "funding" /\ call[p].kind = "own"
          /\ to = "check_identity" => pc[p] = "registering" /\ registration[p] = "included"
    BY <1>2, Zenon
  <2>2. Moves(p, to) /\ Settled /\ WriterAt(p, to)
    BY <2>1, Zenon DEF Moves, Settled, Running, Over, Place, Early, Saving, WriterAt
  <2>3. TypeInv'
    BY <2>1, Zenon DEF TypeInv, IInv, Place, Early, Saving
  <2>4. CallInv'
    BY <2>1 DEF CallInv, CallAt, TypeInv, IInv, Running, Over, Early, Saving, Fresh, HasAccount
  <2>5. TableInv'
    BY <2>1, TableFrame, Zenon DEF IInv, TypeInv
  <2>6. QED
    BY <2>2, <2>3, <2>4, <2>5, MoveKeepsFiles, Zenon DEF IInv
<1>3. QED
  BY <1>1, <1>2, Zenon

LEMMA ComplainInv ==
    ASSUME IInv, NEW p \in Process, Complain(p)
    PROVE  IInv'
<1> USE DEF Complain, Told
<1>1. CASE pc' = pc
  BY <1>1, ToldNobody, TableFrame, Zenon
<1>2. CASE pc' # pc
  <2>1. Running(p) /\ pc' = [pc EXCEPT ![p] = "ended"]
    BY <1>2, Zenon DEF Running, Over
  <2>2. TableInv'
    BY <2>1, TableFrame, Zenon DEF IInv, TypeInv
  <2>3. QED
    BY <2>1, <2>2, EndsInv, ZenonT(30)
<1>3. QED
  BY <1>1, <1>2, Zenon

LEMMA PrepareInv ==
    ASSUME IInv, NEW p \in Process, Prepare(p)
    PROVE  IInv'
<1> DEFINE t == Cardinality(DOMAIN pending)
<1> USE DEF Prepare, Goes, chainVars
<1>1. /\ token' = [token EXCEPT ![p] = t]
      /\ pending' = [x \in DOMAIN pending \cup {t} |-> IF x = t THEN p ELSE pending[x]]
  BY Zenon
<1> HIDE DEF t
<1>2. Moves(p, "prepared") /\ Settled /\ WriterAt(p, "prepared")
  BY Zenon DEF Moves, Settled, Running, Over, Place, Early, WriterAt
<1>3. TypeInv'
  BY <1>1, ZenonT(30) DEF TypeInv, IInv, Place, Early
<1>4. CallInv'
  BY DEF CallInv, CallAt, TypeInv, IInv, Running, Over, Early, Saving, Fresh, HasAccount
<1>5. TableInv'
  <2>1. Prepared' = Prepared \cup {p} /\ Redeems(p)'
    BY <1>1 DEF Prepared, Redeems, IInv, TypeInv, Place, Early
  <2>2. QED
    BY <2>1, Zenon DEF TableInv, LoneClientServed
<1>6. QED
  BY <1>2, <1>3, <1>4, <1>5, MoveKeepsFiles, Zenon DEF IInv

LEMMA FinishInv ==
    ASSUME IInv, NEW p \in Process, Finish(p)
    PROVE  IInv'
<1>1. PICK to \in {"check_identity", "ended"} :
        Goes(p, to) /\ (to = "check_identity" => registration' = Submitted(registration, p))
  BY Zenon DEF Finish
<1>2. registration' \in {registration, Submitted(registration, p)}
  BY Zenon DEF Finish
<1>3. /\ pc[p] = "prepared" /\ pc' = [pc EXCEPT ![p] = to]
      /\ UNCHANGED <<files, call, transfer, controller, overlapped>> /\ Forget(p)
  BY <1>1, Zenon DEF Finish, Goes
<1>4. registration[p] = "none" /\ call[p].kind = "own" /\ Fresh(p)
  BY <1>3, Zenon DEF IInv, CallInv, CallAt, Early, Running, Over
<1>5. Moves(p, to) /\ Settled /\ WriterAt(p, to)
  BY <1>2, <1>3, <1>4, Zenon DEF Moves, Settled, Running, Over, Place, Saving, WriterAt, Submitted,
                          IInv, TypeInv
<1>6. TypeInv'
  BY <1>2, <1>3, Zenon DEF TypeInv, IInv, Place, Over, Saving, Submitted, Forget
<1>7. CallInv'
  BY <1>1, <1>2, <1>3, <1>4 DEF CallInv, CallAt, TypeInv, IInv, Running, Over, Early, Saving, Fresh,
                                HasAccount, Submitted
<1>8. TableInv'
  <2>1. Prepared' \subseteq Prepared \ {p} /\ p \in Prepared
    BY <1>3, Zenon DEF IInv, TypeInv, Prepared
  <2>2. \A q \in Prepared' : q \in disturbed'
    BY <1>3, <2>1, Zenon DEF IInv, TableInv, Forget
  <2>3. QED
    BY <2>2, Zenon DEF TableInv, LoneClientServed
<1>9. QED
  BY <1>5, <1>6, <1>7, <1>8, MoveKeepsFiles, Zenon DEF IInv

LEMMA RestartInv ==
    ASSUME IInv, Restart
    PROVE  IInv'
<1> USE DEF Restart
<1>1. TableInv'
  BY Zenon DEF TableInv, LoneClientServed, Prepared
<1>2. CASE serving \in Process /\ pc[serving] \in {"funding", "registering"}
  <2>1. pc' = [pc EXCEPT ![serving] = "ended"]
    BY <1>2, ZenonT(30) DEF IInv, TypeInv
  <2>2. Running(serving)
    BY <1>2, Zenon DEF Running, Over
  <2>3. QED
    BY <1>1, <1>2, <2>1, <2>2, EndsInv, Zenon
<1>3. CASE ~(serving \in Process /\ pc[serving] \in {"funding", "registering"})
  <2>1. pc' = pc
    BY <1>3, Zenon DEF IInv, TypeInv
  <2>2. QED
    BY <1>1, <2>1, ToldNobody, Zenon
<1>4. QED
  BY <1>2, <1>3, Zenon

-----------------------------------------------------------------------------
(***************************************************************************)
(* Every step.                                                             *)
(***************************************************************************)
LEMMA InitInv == Init => IInv
<1> SUFFICES ASSUME Init PROVE IInv
  BY Zenon
<1> USE DEF Init, KeystoreInit, DoorInit
<1>1. TypeInv
  BY Zenon DEF TypeInv, File, Place, Over
<1>2. CallInv
  BY Zenon DEF CallInv, CallAt, Running, Over, Early, Saving
<1>3. FileInv
  BY RegistrationAssumption, Zenon DEF FileInv, Alone, Readable, Label
<1>4. OneAtATime /\ WriterInv /\ DoneInv /\ TableInv
  BY Zenon DEF OneAtATime, WriterInv, DoneInv, TableInv, LoneClientServed, Prepared, Running, Over
<1>5. QED
  BY <1>1, <1>2, <1>3, <1>4, Zenon DEF IInv

LEMMA LibraryInv ==
    ASSUME IInv, NEW p \in Process, LibraryStep(p), UNCHANGED doorVars
    PROVE  IInv'
<1>1. CASE \E h \in Home : Room(h) /\ (bootstrap_new_agent(p, h) \/ register_or_load_agent(p, h))
  <2>1. PICK h \in Home : bootstrap_new_agent(p, h) \/ register_or_load_agent(p, h)
    BY <1>1, Zenon
  <2>2. CASE FastPath(p, "bootstrap", h) \/ FastPath(p, "load", h)
    BY <2>2, FastPathInv, Zenon
  <2>3. CASE /\ Invoke(p, "funding", "bootstrap", h, p, p)
             /\ transfer' = Submitted(transfer, p)
             /\ UNCHANGED <<files, registration, controller>>
    BY <2>3, BeginInv, Zenon DEF Kind
  <2>4. CASE /\ Invoke(p, "registering", "load", h, p, Caller)
             /\ registration' = Submitted(registration, p)
             /\ UNCHANGED <<files, transfer, controller>>
    BY <2>4, BeginInv, Zenon DEF Kind
  <2>5. QED
    BY <2>1, <2>2, <2>3, <2>4, Zenon DEF bootstrap_new_agent, register_or_load_agent
<1>2. CASE SubmitRegistration(p)
  BY <1>2, SubmitRegistrationInv, Zenon
<1>3. CASE RegistrationFinal(p)
  BY <1>3, RegistrationFinalInv, Zenon
<1>4. CASE SubmitError(p)
  <2>1. /\ Running(p) /\ pc' = [pc EXCEPT ![p] = "ended"]
        /\ UNCHANGED <<files, call, chainVars, overlapped, pending, token, disturbed>>
    BY <1>4, Zenon DEF SubmitError, Running, Over, doorVars
  <2>2. TableInv'
    BY <2>1, TableFrame, Zenon DEF IInv, TypeInv
  <2>3. QED
    BY <2>1, <2>2, EndsInv, Zenon
<1>5. CASE Save(p)
  BY <1>5, CheckInv, BeginIdentityInv, EndIdentityInv, BeginAccountInv, EndAccountInv, Zenon
     DEF Save, SaveIdentity, SaveAccount
<1>6. CASE IncludeTransfer(p) \/ IncludeRegistration(p) \/ deregister_agent(p)
  BY <1>6, ChainInv, Zenon
<1>7. QED
  BY <1>1, <1>2, <1>3, <1>4, <1>5, <1>6, Zenon DEF LibraryStep

LEMMA DoorInv ==
    ASSUME IInv, NEW p \in Process, DoorStep(p)
    PROVE  IInv'
<1>1. CASE \E kind \in {"own", "plain"}, h \in Home : Room(h) /\ register_me(p, kind, h)
  <2>1. PICK kind \in {"own", "plain"}, h \in Home : register_me(p, kind, h)
    BY <1>1, Zenon
  <2> DEFINE account == IF kind = "own" THEN p ELSE Alice
  <2>2. /\ Invoke(p, "asking", kind, h, p, account)
        /\ UNCHANGED <<files, chainVars, doorVars>>
    BY <2>1, Zenon DEF register_me
  <2>3. /\ account \in {p, Caller, Alice}
        /\ account \in IF kind \in {"bootstrap", "own"} THEN {p} ELSE {Caller, Alice}
    BY <2>1, Zenon
  <2> HIDE DEF account
  <2>4. QED
    BY <2>2, <2>3, BeginInv, Zenon DEF Kind, chainVars
<1>2. CASE Fund(p) \/ Register(p)
  BY <1>2, FundInv, RegisterInv, Zenon
<1>3. CASE Answer(p) \/ Complain(p)
  BY <1>3, AnswerInv, ComplainInv, Zenon
<1>4. CASE Prepare(p) \/ Finish(p)
  BY <1>4, PrepareInv, FinishInv
<1>5. CASE WriteSeed(p) \/ WriteDid(p)
  BY <1>5, WriteSeedInv, WriteDidInv, Zenon
<1>6. CASE NoAnswer(p) \/ Kill(p)
  <2>1. /\ Running(p) /\ pc' = [pc EXCEPT ![p] = "ended"] /\ Forget(p)
        /\ UNCHANGED <<files, call, chainVars, overlapped, pending>>
    BY <1>6, Zenon DEF NoAnswer, Kill, Crash, Goes, Running, Over
  <2>2. TableInv'
    BY <2>1, ForgetFrame, Zenon DEF Place, Over
  <2>3. QED
    BY <2>1, <2>2, EndsInv, Zenon
<1>7. QED
  BY <1>1, <1>2, <1>3, <1>4, <1>5, <1>6, Zenon DEF DoorStep

LEMMA StepInv == IInv /\ [Next]_vars => IInv'
<1>1. ASSUME IInv, Next PROVE IInv'
  BY <1>1, LibraryInv, DoorInv, RestartInv, Zenon DEF Next
<1>2. ASSUME IInv, UNCHANGED vars PROVE IInv'
  <2>1. UNCHANGED <<files, pc, call, chainVars, overlapped, token, pending, disturbed>>
    BY <1>2, Zenon DEF vars, doorVars
  <2>2. TableInv'
    BY <1>2, <2>1, TableFrame, Zenon
  <2>3. QED
    BY <1>2, <2>1, <2>2, ToldNobody, Zenon
<1>3. QED
  BY <1>1, <1>2, Zenon

\* The inductive invariant holds in every run of the clients, the door and the
\* chain.
THEOREM RegistrationInvariant == Spec => []IInv
BY InitInv, StepInv, PTL DEF Spec

-----------------------------------------------------------------------------
(***************************************************************************)
(* What follows.                                                           *)
(***************************************************************************)
\* For any number of invocations and homes: in a home that invocations have used
\* one after the other, an account key belongs to the identity beside it, and to
\* the controller of that agent, whatever killed attempts have left
\* (save_identity, bootstrap_new_agent, register-me).
THEOREM KeysMatch == Spec => []FilesMatch
<1>1. IInv => FilesMatch
  <2> SUFFICES ASSUME IInv, NEW h \in Alone, Readable(h, "account")
               PROVE  /\ files[h]["identity"] = files[h]["account"]
                      /\ controller[files[h]["identity"]] \in {None, Gone, files[h]["account"]}
    BY Zenon DEF FilesMatch
  <2>1. h \in Home /\ files[h]["account"] \in Process
    BY DEF IInv, TypeInv, Alone, Readable, Label, File
  <2>2. PICK q \in Process : q = files[h]["account"]
    BY <2>1, Zenon
  <2>3. files[h]["identity"] = q /\ Owned("account", q)
    BY <2>2, Zenon DEF IInv, FileInv
  <2>4. call[q].account = q
    BY <2>3, Zenon DEF Owned, Fresh
  <2>5. controller[q] \in {None, Gone, q}
    BY <2>4, Zenon DEF IInv, CallInv, CallAt
  <2>6. QED
    BY <2>2, <2>3, <2>5, Zenon
<1>2. QED
  BY <1>1, RegistrationInvariant, PTL

\* For any number of invocations and homes: the keys that a client has returned
\* with Ok are in the keystore, for good, and belong to an agent that has been
\* registered, unless register-me with its own controller has made them
\* (bootstrap_new_agent, register_or_load_agent, register-me).
THEOREM ReturnedKeysSaved == Spec => []ReturnedIsSaved
<1>1. IInv => ReturnedIsSaved
  <2> SUFFICES ASSUME IInv, NEW p \in Process, pc[p] = "done", call[p].home \in Alone
               PROVE  /\ files[call[p].home]["identity"] = call[p].did
                      /\ "account" \in LabelsOf(call[p].kind) =>
                            files[call[p].home]["account"] = call[p].account
                      /\ call[call[p].did].kind # "own" => controller[call[p].did] # None
    BY Zenon DEF ReturnedIsSaved
  <2>1. /\ files[call[p].home]["identity"] = call[p].did /\ call[p].did \in Process
        /\ HasAccount(p) => files[call[p].home]["account"] = call[p].account
    BY Zenon DEF IInv, DoneInv
  <2>2. "account" \in LabelsOf(call[p].kind) => HasAccount(p)
    BY Zenon DEF LabelsOf, HasAccount
  <2>3. Owned("identity", call[p].did)
    BY <2>1, Zenon DEF IInv, FileInv
  <2>4. call[call[p].did].kind # "own" => controller[call[p].did] # None
    BY <2>1, <2>3, Zenon DEF Owned, IInv, CallInv, CallAt
  <2>5. QED
    BY <2>1, <2>2, <2>4, Zenon
<1>2. QED
  BY <1>1, RegistrationInvariant, PTL

\* For any number of clients: one that was alone with the table of prepared
\* extrinsics since it was given its token finds its own extrinsic under it
\* (prepare and finish of register-door).
THEOREM LoneClientFinishes == Spec => []LoneClientServed
<1>1. IInv => LoneClientServed
  BY Zenon DEF IInv, TableInv
<1>2. QED
  BY <1>1, RegistrationInvariant, PTL

\* An invocation leaves "idle" by being invoked.
LEMMA LeavesIdle ==
    ASSUME IInv, Next, NEW q \in Process, pc[q] = "idle", pc'[q] # "idle"
    PROVE  \E h \in Home : \/ bootstrap_new_agent(q, h) \/ register_or_load_agent(q, h)
                           \/ \E kind \in {"own", "plain"} : register_me(q, kind, h)
<1> USE DEF IInv, TypeInv
<1>1. ASSUME NEW p \in Process, LibraryStep(p)
      PROVE  \E h \in Home : bootstrap_new_agent(q, h) \/ register_or_load_agent(q, h)
  <2>1. CASE \E h \in Home : Room(h) /\ (bootstrap_new_agent(p, h) \/ register_or_load_agent(p, h))
    <3>1. p = q
      BY <2>1, Zenon DEF bootstrap_new_agent, register_or_load_agent, FastPath, Invoke
    <3>2. QED
      BY <2>1, <3>1, Zenon
  <2>2. CASE \/ SubmitRegistration(p) \/ RegistrationFinal(p) \/ SubmitError(p)
             \/ IncludeTransfer(p) \/ IncludeRegistration(p) \/ deregister_agent(p)
    BY <2>2, Zenon DEF SubmitRegistration, RegistrationFinal, SubmitError, Running, Over,
                IncludeTransfer, IncludeRegistration, deregister_agent
  <2>3. CASE Save(p)
    BY <2>3, Zenon DEF Save, SaveIdentity, SaveAccount, CheckFile, BeginWrite, EndWrite
  <2>4. QED
    BY <1>1, <2>1, <2>2, <2>3, Zenon DEF LibraryStep
<1>2. ASSUME NEW p \in Process, DoorStep(p)
      PROVE  \E h \in Home, kind \in {"own", "plain"} : register_me(q, kind, h)
  <2>1. CASE \E kind \in {"own", "plain"}, h \in Home : Room(h) /\ register_me(p, kind, h)
    <3>1. p = q
      BY <2>1, Zenon DEF register_me, Invoke
    <3>2. QED
      BY <2>1, <3>1, Zenon
  <2>2. CASE \/ Fund(p) \/ Register(p) \/ Answer(p) \/ Complain(p)
             \/ Prepare(p) \/ Finish(p) \/ WriteSeed(p) \/ WriteDid(p)
             \/ NoAnswer(p) \/ Kill(p)
    BY <2>2, Zenon DEF Fund, Register, Answer, Complain, Prepare, Finish, WriteSeed, WriteDid,
                WriteCopy, NoAnswer, Kill, Crash, Running, Over, Goes, Told
  <2>3. QED
    BY <1>2, <2>1, <2>2, Zenon DEF DoorStep
<1>3. ~Restart
  BY Zenon DEF Restart
<1>4. QED
  BY <1>1, <1>2, <1>3, Zenon DEF Next

LEMMA InvokeFacts ==
    ASSUME TypeInv, NEW q \in Process, NEW at, NEW kind, NEW h, NEW did, NEW account,
           Invoke(q, at, kind, h, did, account)
    PROVE  /\ pc'[q] = at /\ call'[q].kind = kind /\ call'[q].home = h
           /\ call'[q].did = did /\ call'[q].account = account
BY Zenon DEF TypeInv, Invoke

LEMMA BootstrapAgain ==
    ASSUME IInv, Next, NEW p \in Process, NEW q \in Process,
           pc[p] = "done", call[p].kind = "bootstrap", call[p].home \in Alone,
           pc[q] = "idle", pc'[q] # "idle",
           call'[q].kind = "bootstrap", call'[q].home = call[p].home
    PROVE  /\ pc'[q] = "done"
           /\ call'[q].did = call[p].did /\ call'[q].account = call[p].account
<1>1. PICK h \in Home : \/ bootstrap_new_agent(q, h) \/ register_or_load_agent(q, h)
                        \/ \E kind \in {"own", "plain"} : register_me(q, kind, h)
  BY LeavesIdle, Zenon
<1>2. TypeInv
  BY Zenon DEF IInv
<1>3. ~register_or_load_agent(q, h)
  BY <1>2, InvokeFacts DEF register_or_load_agent, FastPath
<1>4. \A kind \in {"own", "plain"} : ~register_me(q, kind, h)
  BY <1>2, InvokeFacts DEF register_me
<1>5. bootstrap_new_agent(q, h)
  BY <1>1, <1>3, <1>4, Zenon
<1>6. h = call[p].home
  BY <1>2, <1>5, InvokeFacts DEF bootstrap_new_agent, FastPath
<1>7. /\ files[h]["identity"] = call[p].did /\ call[p].did \in Process
      /\ files[h]["account"] = call[p].account /\ call[p].account \in Process
  BY <1>6, Zenon DEF IInv, DoneInv, HasAccount
<1>8. \A l \in LabelsOf("bootstrap") : identity_exists(h, l) /\ Readable(h, l)
  BY <1>7, RegistrationAssumption, Zenon DEF LabelsOf, identity_exists, Readable
<1>9. Invoke(q, "done", "bootstrap", h, call[p].did, call[p].account)
  BY <1>5, <1>7, <1>8, Zenon DEF bootstrap_new_agent, Persisted, FastPath
<1> QED
  BY <1>2, <1>9, InvokeFacts

\* For any number of invocations and homes: a bootstrap_new_agent that has
\* returned Ok makes every later one for that home return the same agent, without
\* a transfer or a registration ("idempotent").
THEOREM BootstrapIdempotent == Spec => Idempotent
<1> DEFINE Once == \A p, q \in Process :
               /\ pc[p] = "done" /\ call[p].kind = "bootstrap" /\ call[p].home \in Alone
               /\ pc[q] = "idle" /\ pc'[q] # "idle"
               /\ call'[q].kind = "bootstrap" /\ call'[q].home = call[p].home
               => /\ pc'[q] = "done"
                  /\ call'[q].did = call[p].did /\ call'[q].account = call[p].account
<1>1. IInv /\ [Next]_vars => [Once]_vars
  BY BootstrapAgain, Zenon
<1>2. QED
  BY <1>1, RegistrationInvariant, PTL DEF Spec, Idempotent

-----------------------------------------------------------------------------
(***************************************************************************)
(* The copies of register-me, and all that is on disk.  The labels of a    *)
(* directory share its copies, so this part of the invariant is about      *)
(* directories, and holds beside the first, which is about homes: the last *)
(* process to write the seed is the only one that may still write the DID, *)
(* unless two have raced (CopierInv); and a key that is copied is in the   *)
(* keystore (CopiedInv).                                                   *)
(***************************************************************************)
CopyType ==
    /\ copies \in [Directory -> [CopyFile -> File]]
    /\ copier \in [Directory -> Process \cup {None}]

\* What the copies of d hold, by where the last process to write its seed stands.
CopierAt(d) ==
    LET c == copier[d] IN
    /\ c = None => \A f \in CopyFile : copies[d][f] = None
    /\ c # None => /\ DirectoryOf(call[c].home) = d
                   /\ pc[c] \in {"write_did", "done", "ended"}
                   /\ pc[c] = "write_did" => copies[d]["controller.seed"] = c
                   /\ pc[c] = "done" => \A f \in CopyFile : copies[d][f] = c
    /\ \A q \in Process : pc[q] = "write_did" /\ DirectoryOf(call[q].home) = d => q = c

CopierInv == \A d \in Directory \ raced : CopierAt(d)

\* The keys of q are in the keystore.
KeptAt(q) ==
    /\ pc[q] # "idle"
    /\ registration[q] # "none"
    /\ call[q].home \in Alone => \A l \in Label : files[call[q].home][l] = q

CopiedInv ==
    \A d \in Directory, f \in CopyFile : copies[d][f] \in Process => KeptAt(copies[d][f])

SavedInv ==
    \A h \in Home, l \in Label : files[h][l] \in Process => registration[files[h][l]] # "none"

DiskInv == CopyType /\ CopierInv /\ CopiedInv /\ SavedInv

-----------------------------------------------------------------------------
(***************************************************************************)
(* What every step keeps, but for those that make copies.                  *)
(***************************************************************************)
\* A step that does not copy neither brings q to its second copy nor past it.
SteadyAt(q) ==
    /\ pc[q] # "idle" => call'[q] = call[q] /\ pc'[q] # "idle"
    /\ pc[q] \in {"done", "ended"} => pc'[q] = pc[q]
    /\ pc[q] = "write_did" => pc'[q] \in {"write_did", "ended"}
    /\ pc'[q] = "write_did" => pc[q] = "write_did"

Kept == \A q \in Process : registration[q] # "none" => registration'[q] # "none"

\* A key comes to disk from a process that is saving; in a home of its own it stays.
FilesSteady ==
    /\ Alone' \subseteq Alone
    /\ \A h \in Home, l \in Label :
           /\ files'[h][l] \in Process => \/ files'[h][l] = files[h][l]
                                          \/ pc[files'[h][l]] \in Saving
           /\ h \in Alone /\ files[h][l] \in Process => files'[h][l] = files[h][l]

Steady ==
    (\A q \in Process : SteadyAt(q)) /\ Kept /\ FilesSteady /\ UNCHANGED copyVars

LEMMA SameFiles ==
    ASSUME files' = files, overlapped \subseteq overlapped'
    PROVE  FilesSteady
BY Zenon DEF FilesSteady, Alone

LEMMA GoesSteady ==
    ASSUME IInv, NEW p \in Process, NEW to, pc' = [pc EXCEPT ![p] = to], Running(p),
           to \notin {"idle", "write_did"}, pc[p] = "write_did" => to = "ended", call' = call
    PROVE  \A q \in Process : SteadyAt(q)
<1>1. pc'[p] = to /\ \A q \in Process : q # p => pc'[q] = pc[q]
  BY Zenon DEF IInv, TypeInv
<1> QED BY <1>1, Zenon DEF SteadyAt, Running, Over

LEMMA KeptBy ==
    ASSUME IInv, NEW p \in Process,
           registration' = registration \/ registration' = Submitted(registration, p)
    PROVE  Kept
<1>1. \A q \in Process : registration'[q] \in {registration[q], "pending"}
  BY Zenon DEF IInv, TypeInv, Submitted
<1> QED BY <1>1, Zenon DEF Kept

\* A step that moves p on and writes none of its files.
LEMMA MoveSteady ==
    ASSUME IInv, NEW p \in Process, NEW to, pc' = [pc EXCEPT ![p] = to], Running(p),
           to \notin {"idle", "write_did"}, pc[p] = "write_did" => to = "ended",
           registration' = registration \/ registration' = Submitted(registration, p),
           UNCHANGED <<files, call, overlapped, copyVars>>
    PROVE  Steady
BY GoesSteady, KeptBy, SameFiles, Zenon DEF Steady

\* A write of save_identity is over no key, in a home that p has to itself.
LEMMA WriteSteady ==
    ASSUME IInv, NEW p \in Process, NEW l \in Label, NEW key \in {p, Torn}, NEW to,
           Writes(p, l, key, to), pc[p] \in Saving \ {"write_did"}, to \notin {"idle", "write_did"},
           call[p].home \in Alone => files[call[p].home][l] \notin Process
    PROVE  Steady
<1>1. /\ pc' = [pc EXCEPT ![p] = to] /\ Running(p) /\ SetFile(call[p].home, l, key)
      /\ UNCHANGED <<call, registration, overlapped, copyVars>>
  BY Zenon DEF Writes, chainVars, doorVars
<1>2. call[p].home \in Home
  BY <1>1, Zenon DEF IInv, CallInv, CallAt, Call, Running, Over
<1>3. PICK h \in Home : h = call[p].home
  BY <1>2, Zenon
<1>4. key \in File
  BY Zenon DEF File
<1>5. /\ files'[h][l] = key
      /\ \A g \in Home, m \in Label : g # h \/ m # l => files'[g][m] = files[g][m]
  <2>1. SetFile(h, l, key) /\ TypeInv
    BY <1>1, <1>3, Zenon DEF IInv
  <2>2. QED
    BY <1>4, <2>1, Zenon DEF TypeInv, SetFile
<1>6. FilesSteady
  <2>1. Alone' = Alone
    BY <1>1, Zenon DEF Alone
  <2>2. ASSUME NEW g \in Home, NEW m \in Label
        PROVE  /\ files'[g][m] \in Process => \/ files'[g][m] = files[g][m]
                                              \/ pc[files'[g][m]] \in Saving
               /\ g \in Alone /\ files[g][m] \in Process => files'[g][m] = files[g][m]
    <3>1. CASE g = h /\ m = l
      BY <1>3, <1>5, <3>1, RegistrationAssumption, Zenon
    <3>2. CASE g # h \/ m # l
      BY <1>5, <3>2, Zenon
    <3>3. QED
      BY <3>1, <3>2, Zenon
  <2>3. QED
    BY <2>1, <2>2, Zenon DEF FilesSteady
<1>7. \A q \in Process : SteadyAt(q)
  BY <1>1, GoesSteady, Zenon
<1>8. Kept
  BY <1>1, KeptBy, Zenon
<1> QED BY <1>1, <1>6, <1>7, <1>8, Zenon DEF Steady

LEMMA InvokeSteady ==
    ASSUME IInv, NEW p \in Process, NEW at, NEW kind, NEW h, NEW did, NEW account,
           Invoke(p, at, kind, h, did, account), at \notin {"idle", "write_did"},
           registration' = registration \/ registration' = Submitted(registration, p),
           UNCHANGED <<files, doorVars>>
    PROVE  Steady
<1>1. /\ pc[p] = "idle" /\ pc'[p] = at
      /\ \A q \in Process : q # p => pc'[q] = pc[q] /\ call'[q] = call[q]
  BY Zenon DEF IInv, TypeInv, Invoke
<1>2. \A q \in Process : SteadyAt(q)
  BY <1>1, Zenon DEF SteadyAt
<1>3. overlapped \subseteq overlapped' /\ files' = files /\ UNCHANGED copyVars
  BY Zenon DEF Invoke, Enter, doorVars
<1> QED BY <1>2, <1>3, SameFiles, KeptBy, Zenon DEF Steady

\* A step that leaves the clients where they are.
LEMMA StillSteady ==
    ASSUME IInv, Kept, UNCHANGED <<files, pc, call, overlapped, copyVars>>
    PROVE  Steady
<1>1. \A q \in Process : SteadyAt(q)
  BY Zenon DEF SteadyAt
<1> QED BY <1>1, SameFiles, Zenon DEF Steady

LEMMA SaveSteady ==
    ASSUME IInv, NEW p \in Process, Save(p), UNCHANGED doorVars
    PROVE  Steady
<1> USE DEF Save
<1>1. CASE \/ CheckFile(p, "check_identity", "identity", "write_identity")
           \/ CheckFile(p, "check_account", "account", "write_account")
  <2>1. PICK to \in {"ended", "write_identity", "write_account"} :
          /\ pc' = [pc EXCEPT ![p] = to] /\ pc[p] \in {"check_identity", "check_account"}
          /\ UNCHANGED <<files, call>>
    BY <1>1, Zenon DEF CheckFile
  <2>2. Running(p) /\ to \notin {"idle", "write_did"} /\ pc[p] # "write_did"
    BY <2>1, Zenon DEF Running, Over
  <2>3. registration' = registration /\ UNCHANGED <<overlapped, copyVars>>
    BY Zenon DEF chainVars, doorVars
  <2>4. QED
    BY <2>1, <2>2, <2>3, MoveSteady, Zenon
<1>2. CASE BeginWrite(p, "write_identity", "identity", "writing_identity")
  <2>1. Writes(p, "identity", Torn, "writing_identity") /\ pc[p] = "write_identity"
    BY <1>2, Zenon DEF BeginWrite, Writes, Running, Over
  <2>2. call[p].home \in Alone => files[call[p].home]["identity"] \notin Process
    BY <2>1, RegistrationAssumption, Zenon DEF IInv, WriterInv, Writes
  <2>3. /\ pc[p] \in Saving \ {"write_did"} /\ "writing_identity" \notin {"idle", "write_did"}
        /\ "identity" \in Label /\ Torn \in {p, Torn}
    BY <2>1, Zenon DEF Label, Saving
  <2>4. QED
    BY <2>1, <2>2, <2>3, WriteSteady, Zenon
<1>3. CASE EndWrite(p, "writing_identity", "identity", AfterIdentity(p))
  <2>1. Writes(p, "identity", p, AfterIdentity(p)) /\ pc[p] = "writing_identity"
    BY <1>3, Zenon DEF EndWrite, Writes, Running, Over
  <2>2. call[p].home \in Alone => files[call[p].home]["identity"] \notin Process
    BY <2>1, RegistrationAssumption, Zenon DEF IInv, WriterInv, Writes
  <2>3. AfterIdentity(p) \in {"check_account", "done"}
    BY Zenon DEF AfterIdentity
  <2>4. QED
    BY <2>1, <2>2, <2>3, WriteSteady, Zenon DEF Label, Saving
<1>4. CASE BeginWrite(p, "write_account", "account", "writing_account")
  <2>1. Writes(p, "account", Torn, "writing_account") /\ pc[p] = "write_account"
    BY <1>4, Zenon DEF BeginWrite, Writes, Running, Over
  <2>2. call[p].home \in Alone => files[call[p].home]["account"] \notin Process
    BY <2>1, RegistrationAssumption, Zenon DEF IInv, WriterInv, Writes
  <2>3. /\ pc[p] \in Saving \ {"write_did"} /\ "writing_account" \notin {"idle", "write_did"}
        /\ "account" \in Label /\ Torn \in {p, Torn}
    BY <2>1, Zenon DEF Label, Saving
  <2>4. QED
    BY <2>1, <2>2, <2>3, WriteSteady, Zenon
<1>5. CASE EndWrite(p, "writing_account", "account", AfterAccount(p))
  <2>1. Writes(p, "account", p, AfterAccount(p)) /\ pc[p] = "writing_account"
    BY <1>5, Zenon DEF EndWrite, Writes, Running, Over
  <2>2. call[p].home \in Alone => files[call[p].home]["account"] \notin Process
    BY <2>1, RegistrationAssumption, Zenon DEF IInv, WriterInv, Writes
  <2>3. AfterAccount(p) \in {"write_seed", "done"}
    BY Zenon DEF AfterAccount
  <2>4. QED
    BY <2>1, <2>2, <2>3, WriteSteady, Zenon DEF Label, Saving
<1>6. QED
  BY <1>1, <1>2, <1>3, <1>4, <1>5, Zenon DEF SaveIdentity, SaveAccount

LEMMA LibrarySteady ==
    ASSUME IInv, NEW p \in Process, LibraryStep(p), UNCHANGED doorVars
    PROVE  Steady
<1>1. CASE \E h \in Home : Room(h) /\ (bootstrap_new_agent(p, h) \/ register_or_load_agent(p, h))
  <2>1. PICK h \in Home : bootstrap_new_agent(p, h) \/ register_or_load_agent(p, h)
    BY <1>1, Zenon
  <2>2. /\ registration' = registration \/ registration' = Submitted(registration, p)
        /\ files' = files
    BY <2>1, Zenon DEF bootstrap_new_agent, register_or_load_agent, FastPath, chainVars
  <2>3. ASSUME NEW kind, FastPath(p, kind, h) PROVE Steady
    <3> DEFINE at == IF \A l \in LabelsOf(kind) : Readable(h, l) THEN "done" ELSE "ended"
               did == files[h]["identity"]
               account == IF kind = "bootstrap" THEN files[h]["account"] ELSE Caller
    <3>1. Invoke(p, at, kind, h, did, account) /\ at \notin {"idle", "write_did"}
      BY <2>3, Zenon DEF FastPath
    <3> HIDE DEF at, did, account
    <3>2. QED
      BY <2>2, <3>1, InvokeSteady, Zenon
  <2>4. ASSUME NEW at \in {"funding", "registering"}, NEW kind, NEW account,
               Invoke(p, at, kind, h, p, account)
        PROVE  Steady
    <3>1. at \notin {"idle", "write_did"}
      BY <2>4, Zenon
    <3>2. QED
      BY <2>2, <2>4, <3>1, InvokeSteady, Zenon
  <2>5. QED
    BY <2>1, <2>3, <2>4, Zenon DEF bootstrap_new_agent, register_or_load_agent
<1>2. CASE SubmitRegistration(p) \/ RegistrationFinal(p) \/ SubmitError(p)
  <2>1. PICK to \in {"registering", "check_identity", "ended"} : pc' = [pc EXCEPT ![p] = to]
    BY <1>2, Zenon DEF SubmitRegistration, RegistrationFinal, SubmitError
  <2>2. /\ pc[p] \in {"funding", "registering"} /\ UNCHANGED <<files, call, overlapped>>
        /\ registration' = registration \/ registration' = Submitted(registration, p)
    BY <1>2, Zenon DEF SubmitRegistration, RegistrationFinal, SubmitError, chainVars
  <2>3. Running(p) /\ to \notin {"idle", "write_did"} /\ pc[p] # "write_did"
    BY <2>1, <2>2, Zenon DEF Running, Over
  <2>4. QED
    BY <2>1, <2>2, <2>3, MoveSteady, Zenon DEF doorVars
<1>3. CASE Save(p)
  BY <1>3, SaveSteady, Zenon
<1>4. CASE IncludeTransfer(p) \/ IncludeRegistration(p) \/ deregister_agent(p)
  <2>1. UNCHANGED <<files, pc, call, overlapped, copyVars>>
    BY <1>4, Zenon DEF IncludeTransfer, IncludeRegistration, deregister_agent, doorVars
  <2>2. Kept
    BY <1>4, Zenon DEF IncludeTransfer, IncludeRegistration, deregister_agent, Kept, IInv, TypeInv
  <2>3. QED
    BY <2>1, <2>2, StillSteady, Zenon
<1>5. QED
  BY <1>1, <1>2, <1>3, <1>4, Zenon DEF LibraryStep

LEMMA DoorSteady ==
    ASSUME IInv, NEW p \in Process, DoorStep(p)
    PROVE  Steady \/ WriteSeed(p) \/ WriteDid(p)
<1>1. CASE \E kind \in {"own", "plain"}, h \in Home : Room(h) /\ register_me(p, kind, h)
  <2>1. PICK kind \in {"own", "plain"}, h \in Home : register_me(p, kind, h)
    BY <1>1, Zenon
  <2>2. PICK account : Invoke(p, "asking", kind, h, p, account)
    BY <2>1, Zenon DEF register_me
  <2>3. registration' = registration /\ files' = files /\ UNCHANGED doorVars
    BY <2>1, Zenon DEF register_me, chainVars
  <2>4. "asking" \notin {"idle", "write_did"}
    BY Zenon
  <2>5. QED
    BY <2>2, <2>3, <2>4, InvokeSteady, Zenon
<1>2. CASE \/ Fund(p) \/ Register(p) \/ Prepare(p) \/ Finish(p) \/ NoAnswer(p)
  <2>1. PICK to \in {"funding", "registering", "prepared", "check_identity", "ended"} :
          pc' = [pc EXCEPT ![p] = to]
    BY <1>2, Zenon DEF Fund, Register, Prepare, Finish, NoAnswer, Goes
  <2>2. /\ pc[p] \in {"asking", "funded", "prepared"} /\ UNCHANGED <<files, call, overlapped, copyVars>>
        /\ registration' = registration \/ registration' = Submitted(registration, p)
    BY <1>2, Zenon DEF Fund, Register, Prepare, Finish, NoAnswer, chainVars
  <2>3. Running(p) /\ to \notin {"idle", "write_did"} /\ pc[p] # "write_did"
    BY <2>1, <2>2, Zenon DEF Running, Over
  <2>4. QED
    BY <2>1, <2>2, <2>3, MoveSteady, Zenon
<1>3. CASE Answer(p) \/ Complain(p)
  <2>1. registration' = registration /\ UNCHANGED <<files, call, overlapped, copyVars>>
    BY <1>3, Zenon DEF Answer, Complain, chainVars
  <2>2. CASE pc' = pc
    BY <2>1, <2>2, StillSteady, Zenon DEF Kept
  <2>3. CASE pc' # pc
    <3>1. PICK to \in {"funded", "check_identity", "ended"} :
            pc' = [pc EXCEPT ![p] = to] /\ pc[p] \in {"funding", "registering"}
      BY <1>3, <2>3, Zenon DEF Answer, Complain, Told
    <3>2. Running(p) /\ to \notin {"idle", "write_did"} /\ pc[p] # "write_did"
      BY <3>1, Zenon DEF Running, Over
    <3>3. QED
      BY <2>1, <3>1, <3>2, MoveSteady, Zenon
  <2>4. QED
    BY <2>2, <2>3, Zenon
<1>4. CASE Kill(p)
  <2>1. Crash(p) /\ UNCHANGED copyVars
    BY <1>4, Zenon DEF Kill
  <2>2. "ended" \notin {"idle", "write_did"}
    BY Zenon
  <2>3. /\ Running(p) /\ pc' = [pc EXCEPT ![p] = "ended"] /\ registration' = registration
        /\ UNCHANGED <<files, call, overlapped>>
    BY <2>1, Zenon DEF Crash, chainVars
  <2>4. QED
    BY <2>1, <2>2, <2>3, MoveSteady, Zenon
<1>5. QED
  BY <1>1, <1>2, <1>3, <1>4, Zenon DEF DoorStep

LEMMA RestartSteady ==
    ASSUME IInv, Restart
    PROVE  Steady
<1>1. registration' = registration /\ UNCHANGED <<files, call, overlapped, copyVars>>
  BY Zenon DEF Restart, chainVars
<1>2. \A q \in Process : \/ pc'[q] = pc[q]
                         \/ pc'[q] = "ended" /\ pc[q] \in {"funding", "registering"}
  BY Zenon DEF Restart
<1>3. \A q \in Process : SteadyAt(q)
  BY <1>1, <1>2, Zenon DEF SteadyAt
<1> QED BY <1>1, <1>3, SameFiles, Zenon DEF Steady, Kept

-----------------------------------------------------------------------------
(***************************************************************************)
(* The invariant of the copies and of the disk.                            *)
(***************************************************************************)
\* The keys of a process stay in the keystore.
LEMMA KeptStays ==
    ASSUME IInv, NEW q \in Process, KeptAt(q), Kept, FilesSteady,
           pc'[q] # "idle", call'[q] = call[q]
    PROVE  KeptAt(q)'
<1>1. registration'[q] # "none"
  BY Zenon DEF KeptAt, Kept
<1>2. ASSUME call'[q].home \in Alone', NEW l \in Label
      PROVE  files'[call'[q].home][l] = q
  <2>1. PICK h \in Home : h = call[q].home /\ h \in Alone
    BY <1>2, Zenon DEF FilesSteady, Alone
  <2>2. files[h][l] = q
    BY <2>1, Zenon DEF KeptAt
  <2>3. QED
    BY <2>1, <2>2, Zenon DEF FilesSteady
<1> QED BY <1>1, <1>2, Zenon DEF KeptAt

LEMMA SavedStays ==
    ASSUME IInv, SavedInv, Kept, FilesSteady
    PROVE  SavedInv'
<1> SUFFICES ASSUME NEW h \in Home, NEW l \in Label, files'[h][l] \in Process
             PROVE  registration'[files'[h][l]] # "none"
  BY Zenon DEF SavedInv
<1>1. PICK q \in Process : q = files'[h][l]
  BY Zenon
<1>2. files[h][l] = q \/ pc[q] \in Saving
  BY <1>1, Zenon DEF FilesSteady
<1>3. registration[q] # "none"
  BY <1>2, Zenon DEF SavedInv, IInv, CallInv, CallAt
<1> QED BY <1>1, <1>3, Zenon DEF Kept

\* The copies of a directory that a step leaves alone.
LEMMA CopierStays ==
    ASSUME CopyType, NEW d \in Directory, CopierAt(d), copies'[d] = copies[d], copier'[d] = copier[d],
           \A q \in Process : SteadyAt(q)
    PROVE  CopierAt(d)'
<1>1. copier[d] = None \/ copier[d] \in Process
  BY Zenon DEF CopyType
<1>2. \A q \in Process : pc'[q] = "write_did" => pc[q] = "write_did" /\ call'[q] = call[q]
  BY DEF SteadyAt
<1>3. \A q \in Process : pc'[q] = "write_did" /\ DirectoryOf(call'[q].home) = d => q = copier[d]
  BY <1>2, Zenon DEF CopierAt
<1>4. CASE copier[d] = None
  BY <1>3, <1>4, Zenon DEF CopierAt
<1>5. CASE copier[d] # None
  <2>1. PICK c \in Process : c = copier[d]
    BY <1>1, <1>5, Zenon
  <2>2. SteadyAt(c)
    BY <2>1, Zenon
  <2>3. /\ DirectoryOf(call[c].home) = d /\ pc[c] \in {"write_did", "done", "ended"}
        /\ pc[c] = "write_did" => copies[d]["controller.seed"] = c
        /\ pc[c] = "done" => \A f \in CopyFile : copies[d][f] = c
    BY <1>5, <2>1, Zenon DEF CopierAt
  <2>4. call'[c] = call[c] /\ pc'[c] \in {pc[c], "ended"}
    BY <2>2, <2>3, Zenon DEF SteadyAt
  <2>5. QED
    BY <1>3, <1>5, <2>1, <2>3, <2>4, Zenon DEF CopierAt
<1> QED BY <1>4, <1>5, Zenon

LEMMA SteadyDisk ==
    ASSUME IInv, DiskInv, Steady
    PROVE  DiskInv'
<1>1. /\ \A q \in Process : SteadyAt(q)
      /\ Kept /\ FilesSteady /\ copies' = copies /\ copier' = copier /\ raced' = raced
  BY Zenon DEF Steady, copyVars
<1>2. CopyType' /\ SavedInv'
  BY <1>1, SavedStays, Zenon DEF DiskInv, CopyType
<1>3. CopierInv'
  BY <1>1, CopierStays, Zenon DEF DiskInv, CopierInv
<1>4. CopiedInv'
  <2> SUFFICES ASSUME NEW d \in Directory, NEW f \in CopyFile, copies[d][f] \in Process
               PROVE  KeptAt(copies[d][f])'
    BY <1>1, Zenon DEF CopiedInv
  <2>1. PICK q \in Process : q = copies[d][f]
    BY Zenon
  <2>2. KeptAt(q)
    BY <2>1, Zenon DEF DiskInv, CopiedInv
  <2>3. pc'[q] # "idle" /\ call'[q] = call[q]
    BY <1>1, <2>2, Zenon DEF KeptAt, SteadyAt
  <2>4. KeptAt(q)'
    BY <1>1, <2>2, <2>3, KeptStays, Zenon
  <2>5. QED
    BY <1>1, <2>1, <2>4, Zenon
<1> QED BY <1>2, <1>3, <1>4, Zenon DEF DiskInv

\* One copy of directory d is written.
CopySet(d, f, key) ==
    /\ copies' \in [Directory -> [CopyFile -> File]]
    /\ copies'[d][f] = key
    /\ \A g \in CopyFile : g # f => copies'[d][g] = copies[d][g]
    /\ \A e \in Directory : e # d => copies'[e] = copies[e]

LEMMA SetCopyFact ==
    ASSUME CopyType, NEW d \in Directory, NEW f \in CopyFile, NEW key \in File, SetCopy(d, f, key)
    PROVE  CopySet(d, f, key)
BY Zenon DEF CopyType, SetCopy, CopySet

\* What the writes of the two copies share: all but the copies and pc is as it was.
CopyStep(p, d, f, key, to) ==
    /\ d = DirectoryOf(call[p].home)
    /\ SetCopy(d, f, key) /\ pc' = [pc EXCEPT ![p] = to]
    /\ UNCHANGED <<files, call, registration, overlapped>>

LEMMA CopyStepDisk ==
    ASSUME IInv, DiskInv, NEW p \in Process, NEW d \in Directory, NEW f \in CopyFile,
           NEW key \in {p, Torn}, NEW to \in {"write_did", "done", "ended"},
           pc[p] \in {"write_seed", "write_did"}, CopyStep(p, d, f, key, to)
    PROVE  CopiedInv' /\ SavedInv'
<1>1. /\ copies'[d][f] = key
      /\ \A g \in CopyFile : g # f => copies'[d][g] = copies[d][g]
      /\ \A e \in Directory : e # d => copies'[e] = copies[e]
  <2>1. key \in File /\ CopyType /\ SetCopy(d, f, key)
    BY Zenon DEF CopyStep, DiskInv, File
  <2>2. CopySet(d, f, key)
    BY <2>1, SetCopyFact, Zenon
  <2>3. QED
    BY <2>2, Zenon DEF CopySet
<1>2. Kept /\ FilesSteady /\ SavedInv'
  <2>1. Kept /\ FilesSteady
    BY SameFiles, Zenon DEF CopyStep, Kept
  <2>2. QED
    BY <2>1, SavedStays, Zenon DEF DiskInv
<1>3. \A q \in Process : (pc[q] # "idle" => pc'[q] # "idle") /\ call'[q] = call[q]
  BY Zenon DEF CopyStep, IInv, TypeInv
<1>4. KeptAt(p)
  <2>1. registration[p] # "none" /\ Running(p) /\ pc[p] # "idle"
    BY Zenon DEF IInv, CallInv, CallAt, Saving, Running, Over
  <2>2. call[p].home \in Alone => /\ files[call[p].home]["identity"] = p
                                 /\ files[call[p].home]["account"] = p
    BY <2>1, Zenon DEF IInv, WriterInv
  <2>3. QED
    BY <2>1, <2>2, Zenon DEF KeptAt, Label
<1>5. \A q \in Process : KeptAt(q) => KeptAt(q)'
  BY <1>2, <1>3, KeptStays, Zenon DEF KeptAt
<1>6. CopiedInv'
  <2> SUFFICES ASSUME NEW e \in Directory, NEW g \in CopyFile, copies'[e][g] \in Process
               PROVE  KeptAt(copies[e][g])'
    BY Zenon DEF CopiedInv
  <2>1. PICK q \in Process : q = copies'[e][g]
    BY Zenon
  <2>2. CASE e = d /\ g = f
    <3>1. q = p
      BY <1>1, <2>1, <2>2, RegistrationAssumption, Zenon
    <3>2. QED
      BY <1>4, <1>5, <2>1, <3>1, Zenon
  <2>3. CASE ~(e = d /\ g = f)
    <3>1. q = copies[e][g]
      BY <1>1, <2>1, <2>3, Zenon
    <3>2. KeptAt(q)
      BY <3>1, Zenon DEF DiskInv, CopiedInv
    <3>3. QED
      BY <1>5, <2>1, <3>2, Zenon
  <2>4. QED
    BY <2>2, <2>3, Zenon
<1> QED BY <1>2, <1>6, Zenon

\* The directory of a process that has been invoked.
LEMMA HasDirectory ==
    ASSUME IInv, NEW p \in Process, pc[p] # "idle"
    PROVE  DirectoryOf(call[p].home) \in Directory
<1>1. call[p].home \in Directory \X KeyLabel
  BY Zenon DEF IInv, CallInv, CallAt, Call, Home
<1> QED BY <1>1 DEF DirectoryOf

LEMMA WriteSeedDisk ==
    ASSUME IInv, DiskInv, NEW p \in Process, WriteSeed(p)
    PROVE  DiskInv'
<1>1. PICK d \in Directory : d = DirectoryOf(call[p].home) /\ pc[p] = "write_seed"
  <2>1. pc[p] = "write_seed" /\ pc[p] # "idle"
    BY Zenon DEF WriteSeed
  <2>2. QED
    BY <2>1, HasDirectory, Zenon
<1>2. PICK key \in {p, Torn}, to \in {"write_did", "ended"} :
        CopyStep(p, d, "controller.seed", key, to) /\ (to = "write_did" => key = p)
  <2>1. UNCHANGED <<files, call, registration, overlapped>>
    BY Zenon DEF WriteSeed, chainVars
  <2>2. \/ SetCopy(d, "controller.seed", p) /\ Goes(p, "write_did")
        \/ SetCopy(d, "controller.seed", Torn) /\ Goes(p, "ended")
    BY <1>1, Zenon DEF WriteSeed, WriteCopy
  <2>3. \/ CopyStep(p, d, "controller.seed", p, "write_did")
        \/ CopyStep(p, d, "controller.seed", Torn, "ended")
    BY <1>1, <2>1, <2>2, Zenon DEF CopyStep, Goes
  <2>4. QED
    BY <2>3, Zenon
<1>3. /\ copier' = [copier EXCEPT ![d] = p]
      /\ raced \subseteq raced'
      /\ d \notin raced' => \A q \in Process \ {p} :
                               ~(pc[q] = "write_did" /\ DirectoryOf(call[q].home) = d)
  BY <1>1, Zenon DEF WriteSeed
<1>4. /\ copies' \in [Directory -> [CopyFile -> File]]
      /\ copies'[d]["controller.seed"] = key
      /\ \A e \in Directory : e # d => copies'[e] = copies[e]
  <2>1. key \in File /\ CopyType /\ SetCopy(d, "controller.seed", key) /\ "controller.seed" \in CopyFile
    BY <1>2, Zenon DEF CopyStep, DiskInv, File, CopyFile
  <2>2. CopySet(d, "controller.seed", key)
    BY <2>1, SetCopyFact, Zenon
  <2>3. QED
    BY <2>2, Zenon DEF CopySet, CopyFile
<1>5. /\ copier' \in [Directory -> Process \cup {None}] /\ copier'[d] = p
      /\ \A e \in Directory : e # d => copier'[e] = copier[e]
  BY <1>3, Zenon DEF DiskInv, CopyType
<1>6. CopiedInv' /\ SavedInv'
  BY <1>1, <1>2, CopyStepDisk, Zenon DEF CopyFile
<1>7. call' = call /\ pc'[p] = to /\ \A q \in Process : q # p => pc'[q] = pc[q]
  BY <1>2, Zenon DEF CopyStep, IInv, TypeInv
<1>8. ASSUME d \notin raced' PROVE CopierAt(d)'
  <2>1. /\ copier'[d] = p /\ p # None
        /\ pc'[p] \in {"write_did", "ended"} /\ DirectoryOf(call'[p].home) = d
        /\ pc'[p] = "write_did" => copies'[d]["controller.seed"] = p
        /\ \A q \in Process : pc'[q] = "write_did" /\ DirectoryOf(call'[q].home) = d => q = p
    BY <1>1, <1>2, <1>3, <1>4, <1>5, <1>7, <1>8, RegistrationAssumption, Zenon
  <2>2. QED
    BY <2>1, Zenon DEF CopierAt
<1>9. ASSUME NEW e \in Directory \ raced', e # d PROVE CopierAt(e)'
  <2>1. CopierAt(e) /\ copier'[e] = copier[e] /\ copies'[e] = copies[e]
    BY <1>3, <1>4, <1>5, <1>9, Zenon DEF DiskInv, CopierInv
  <2>2. copier[e] # None => copier[e] \in Process /\ copier[e] # p
    BY <1>1, <2>1, Zenon DEF CopierAt, DiskInv, CopyType
  <2>3. copier[e] # None => pc'[copier[e]] = pc[copier[e]]
    BY <1>7, <2>2, Zenon
  <2>4. \A q \in Process : pc'[q] = "write_did" /\ DirectoryOf(call[q].home) = e => pc[q] = "write_did"
    BY <1>1, <1>7, <1>9, Zenon
  <2>5. QED
    BY <1>7, <2>1, <2>3, <2>4 DEF CopierAt
<1> QED
  <2>1. CopierInv'
    BY <1>8, <1>9, Zenon DEF CopierInv
  <2>2. QED
    BY <1>4, <1>5, <1>6, <2>1, Zenon DEF DiskInv, CopyType

LEMMA WriteDidDisk ==
    ASSUME IInv, DiskInv, NEW p \in Process, WriteDid(p)
    PROVE  DiskInv'
<1>1. PICK d \in Directory : d = DirectoryOf(call[p].home) /\ pc[p] = "write_did"
  <2>1. pc[p] = "write_did" /\ pc[p] # "idle"
    BY Zenon DEF WriteDid
  <2>2. QED
    BY <2>1, HasDirectory, Zenon
<1>2. PICK key \in {p, Torn}, to \in {"done", "ended"} :
        CopyStep(p, d, "owner.did", key, to) /\ (to = "done" => key = p)
  <2>1. UNCHANGED <<files, call, registration, overlapped>>
    BY Zenon DEF WriteDid, chainVars
  <2>2. \/ SetCopy(d, "owner.did", p) /\ Goes(p, "done")
        \/ SetCopy(d, "owner.did", Torn) /\ Goes(p, "ended")
    BY <1>1, Zenon DEF WriteDid, WriteCopy
  <2>3. \/ CopyStep(p, d, "owner.did", p, "done")
        \/ CopyStep(p, d, "owner.did", Torn, "ended")
    BY <1>1, <2>1, <2>2, Zenon DEF CopyStep, Goes
  <2>4. QED
    BY <2>3, Zenon
<1>3. copier' = copier /\ raced' = raced
  BY Zenon DEF WriteDid
<1>4. /\ copies' \in [Directory -> [CopyFile -> File]]
      /\ copies'[d]["owner.did"] = key
      /\ copies'[d]["controller.seed"] = copies[d]["controller.seed"]
      /\ \A e \in Directory : e # d => copies'[e] = copies[e]
  <2>1. key \in File /\ CopyType /\ SetCopy(d, "owner.did", key) /\ "owner.did" \in CopyFile
    BY <1>2, Zenon DEF CopyStep, DiskInv, File, CopyFile
  <2>2. CopySet(d, "owner.did", key)
    BY <2>1, SetCopyFact, Zenon
  <2>3. QED
    BY <2>2, Zenon DEF CopySet, CopyFile
<1>5. CopiedInv' /\ SavedInv'
  BY <1>1, <1>2, CopyStepDisk, Zenon DEF CopyFile
<1>6. call' = call /\ pc'[p] = to /\ \A q \in Process : q # p => pc'[q] = pc[q]
  BY <1>2, Zenon DEF CopyStep, IInv, TypeInv
<1>7. ASSUME d \notin raced' PROVE CopierAt(d)'
  <2>1. CopierAt(d)
    BY <1>3, <1>7, Zenon DEF DiskInv, CopierInv
  <2>2. copier[d] = p /\ p # None /\ copies[d]["controller.seed"] = p
    BY <1>1, <2>1, RegistrationAssumption, Zenon DEF CopierAt
  <2>3. pc'[p] = "done" => \A f \in CopyFile : copies'[d][f] = p
    BY <1>2, <1>4, <1>6, <2>2, Zenon DEF CopyFile
  <2>4. \A q \in Process : pc'[q] = "write_did" /\ DirectoryOf(call'[q].home) = d => q = p
    BY <1>6, <2>1, <2>2, Zenon DEF CopierAt
  <2>5. QED
    BY <1>1, <1>3, <1>6, <2>2, <2>3, <2>4, Zenon DEF CopierAt
<1>8. ASSUME NEW e \in Directory \ raced', e # d PROVE CopierAt(e)'
  <2>1. CopierAt(e) /\ copier'[e] = copier[e] /\ copies'[e] = copies[e]
    BY <1>3, <1>4, <1>8, Zenon DEF DiskInv, CopierInv
  <2>2. copier[e] # None => copier[e] \in Process /\ copier[e] # p
    BY <1>1, <1>8, <2>1, Zenon DEF CopierAt, DiskInv, CopyType
  <2>3. copier[e] # None => pc'[copier[e]] = pc[copier[e]]
    BY <1>6, <2>2, Zenon
  <2>4. \A q \in Process : pc'[q] = "write_did" => pc[q] = "write_did"
    BY <1>1, <1>6, Zenon
  <2>5. QED
    BY <1>6, <2>1, <2>3, <2>4 DEF CopierAt
<1> QED
  <2>1. CopierInv'
    BY <1>7, <1>8, Zenon DEF CopierInv
  <2>2. QED
    BY <1>3, <1>4, <1>5, <2>1, Zenon DEF DiskInv, CopyType

LEMMA InitDisk == Init => DiskInv
<1> SUFFICES ASSUME Init PROVE DiskInv
  BY Zenon
<1> USE DEF Init, KeystoreInit, DoorInit
<1>1. CopyType
  BY Zenon DEF CopyType, File
<1>2. CopierInv
  BY Zenon DEF CopierInv, CopierAt
<1>3. CopiedInv /\ SavedInv
  BY RegistrationAssumption, Zenon DEF CopiedInv, SavedInv
<1> QED BY <1>1, <1>2, <1>3, Zenon DEF DiskInv

LEMMA StepDisk == IInv /\ DiskInv /\ [Next]_vars => DiskInv'
<1>1. ASSUME IInv, DiskInv, NEW p \in Process, LibraryStep(p), UNCHANGED doorVars PROVE DiskInv'
  BY <1>1, LibrarySteady, SteadyDisk, Zenon
<1>2. ASSUME IInv, DiskInv, NEW p \in Process, DoorStep(p) PROVE DiskInv'
  BY <1>2, DoorSteady, SteadyDisk, WriteSeedDisk, WriteDidDisk, Zenon
<1>3. ASSUME IInv, DiskInv, Restart PROVE DiskInv'
  BY <1>3, RestartSteady, SteadyDisk, Zenon
<1>4. ASSUME IInv, DiskInv, UNCHANGED vars PROVE DiskInv'
  <2>1. Kept /\ UNCHANGED <<files, pc, call, overlapped, copyVars>>
    BY <1>4, Zenon DEF vars, doorVars, chainVars, Kept
  <2>2. QED
    BY <1>4, <2>1, StillSteady, SteadyDisk, Zenon
<1> QED BY <1>1, <1>2, <1>3, <1>4, Zenon DEF Next

\* What is on disk, in every run.
THEOREM DiskInvariant == Spec => []DiskInv
BY InitDisk, StepDisk, RegistrationInvariant, PTL DEF Spec

\* For any number of invocations, directories and labels: unless two runs of
\* register-me have written controller.seed and owner.did of a directory at once,
\* the two are the pair of the last run to write them when it has returned, they
\* differ only while it is between its writes or after it was cut off there, and
\* the keystore holds, too, whatever key they hold (register-me.rs:121-124).
THEOREM CopiesOfLastRun == Spec => []CopiesMatch
<1>1. IInv /\ DiskInv => CopiesMatch
  <2> SUFFICES ASSUME IInv, DiskInv, NEW d \in Directory \ raced
               PROVE  LET seed == copies[d]["controller.seed"]
                          did  == copies[d]["owner.did"]
                      IN  /\ copier[d] # None /\ pc[copier[d]] = "done"
                             => seed = copier[d] /\ did = copier[d]
                          /\ seed # did => pc[copier[d]] \in {"write_did", "ended"}
                          /\ \A p \in {seed, did} \cap Process : call[p].home \in Alone =>
                                 \A l \in Label : files[call[p].home][l] = p
    BY Zenon DEF CopiesMatch
  <2> DEFINE seed == copies[d]["controller.seed"]
             did  == copies[d]["owner.did"]
  <2>1. CopierAt(d) /\ "controller.seed" \in CopyFile /\ "owner.did" \in CopyFile
    BY Zenon DEF DiskInv, CopierInv, CopyFile
  <2>2. copier[d] # None /\ pc[copier[d]] = "done" => seed = copier[d] /\ did = copier[d]
    BY <2>1, Zenon DEF CopierAt
  <2>3. seed # did => pc[copier[d]] \in {"write_did", "ended"}
    BY <2>1, <2>2, Zenon DEF CopierAt
  <2>4. \A p \in {seed, did} \cap Process : KeptAt(p)
    BY <2>1, Zenon DEF DiskInv, CopiedInv
  <2>5. QED
    BY <2>2, <2>3, <2>4, Zenon DEF KeptAt
<1> QED BY <1>1, RegistrationInvariant, DiskInvariant, PTL

\* For any number of invocations, directories and labels: a key that can be read
\* from the keystore or from the copies is one that an extrinsic was submitted for,
\* however clients overlap, are killed, or lose their entry in the table of the
\* door (finish of register-door; register-me.rs:114-119).
THEOREM SavedKeysSubmitted == Spec => []SavedIsSubmitted
<1>1. IInv /\ DiskInv => SavedIsSubmitted
  <2> SUFFICES ASSUME IInv, DiskInv PROVE SavedIsSubmitted
    BY Zenon
  <2>1. \A h \in Home, l \in Label : Readable(h, l) => files[h][l] \in Process
    BY DEF IInv, TypeInv, Readable, File
  <2>2. \A h \in Home, l \in Label : Readable(h, l) => registration[files[h][l]] # "none"
    BY <2>1, Zenon DEF DiskInv, SavedInv
  <2>3. \A d \in Directory, f \in CopyFile :
            copies[d][f] \in Process => registration[copies[d][f]] # "none"
    BY Zenon DEF DiskInv, CopiedInv, KeptAt
  <2>4. QED
    BY <2>2, <2>3, Zenon DEF SavedIsSubmitted
<1> QED BY <1>1, RegistrationInvariant, DiskInvariant, PTL
=============================================================================
