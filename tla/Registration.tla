---------------------------- MODULE Registration ----------------------------
(***************************************************************************)
(* All the ways to register an agent together: invocations of the library  *)
(* and of register-me, on homes they may share, one door and one chain.    *)
(***************************************************************************)
EXTENDS RegisterDoor

CONSTANTS DefaultLabel, \* KEY_LABEL is not set
          MaxMixed      \* bound: the invocations, when not all are of the default label

ASSUME RegistrationAssumption ==
    /\ {Caller, Alice, None, Torn, Gone} \cap Process = {}
    /\ {Caller, Alice} \cap {None, Gone} = {} /\ None # Torn /\ None # Gone

vars == <<files, pc, call, chainVars, overlapped, doorVars>>

NoCall == [kind |-> "none"]

Init ==
    /\ KeystoreInit
    /\ pc = [p \in Process |-> "idle"]
    /\ call = [p \in Process |-> NoCall]
    /\ transfer = [p \in Process |-> "none"]
    /\ registration = [p \in Process |-> "none"]
    /\ controller = [p \in Process |-> None]
    /\ overlapped = {}
    /\ DoorInit

\* One more invocation, of home h, is within the bound.
Room(h) ==
    LET invoked == {p \in Process : pc[p] # "idle"}
    IN  \/ \A g \in {h} \cup {call[p].home : p \in invoked} : g[2] = DefaultLabel
        \/ Cardinality(invoked) < MaxMixed

LibraryStep(p) ==
    \/ \E h \in Home : Room(h) /\ (bootstrap_new_agent(p, h) \/ register_or_load_agent(p, h))
    \/ SubmitRegistration(p) \/ RegistrationFinal(p) \/ SubmitError(p)
    \/ Save(p)
    \/ IncludeTransfer(p) \/ IncludeRegistration(p) \/ deregister_agent(p)

DoorStep(p) ==
    \/ \E kind \in {"own", "plain"}, h \in Home : Room(h) /\ register_me(p, kind, h)
    \/ Fund(p) \/ Register(p) \/ Answer(p) \/ Complain(p)
    \/ Prepare(p) \/ Finish(p) \/ WriteSeed(p) \/ WriteDid(p) \/ NoAnswer(p) \/ Kill(p)

Next ==
    \/ \E p \in Process : LibraryStep(p) /\ UNCHANGED doorVars
    \/ \E p \in Process : DoorStep(p)
    \/ Restart

Spec == Init /\ [][Next]_vars

-----------------------------------------------------------------------------
(***************************************************************************)
(* Properties                                                              *)
(***************************************************************************)
Alone == Home \ overlapped

\* Whatever crashes, retries and other clients have left in a home, an account
\* key that can be read there is that of the identity beside it, and if that
\* agent is registered, the account is its controller: no client pairs the
\* identity of one attempt with the account of another.  This is for homes that
\* invocations have used one after the other; save_identity checks and then
\* writes, without a lock (keystore.rs:156-189).
FilesMatch ==
    \A h \in Alone : Readable(h, "account") =>
        /\ files[h]["identity"] = files[h]["account"]
        /\ controller[files[h]["identity"]] \in {None, Gone, files[h]["account"]}

\* An invocation that has returned Ok leaves in the keystore, for good, the keys it
\* has returned, and they are those of an agent that has been registered.  Only the
\* keys of register-me with its own controller, which does not wait for the
\* registration, may be those of an agent that never was.  Nothing is said of the
\* copies, which any later run may replace.
ReturnedIsSaved ==
    \A p \in Process : pc[p] = "done" /\ call[p].home \in Alone =>
        /\ files[call[p].home]["identity"] = call[p].did
        /\ "account" \in LabelsOf(call[p].kind) =>
              files[call[p].home]["account"] = call[p].account
        /\ call[call[p].did].kind # "own" => controller[call[p].did] # None

\* controller.seed and owner.did are shared by the labels of a directory, and each
\* run of register-me with its own controller writes over them
\* (register-me.rs:121-124).  They are the pair of the last run to write them once
\* it has returned; they are of two agents, or torn, only while that run is between
\* its writes or after it was cut off there.  And whatever seed or DID they hold,
\* the keystore holds it too, under the label of its run: replacing the copies
\* loses no key.
CopiesMatch ==
    \A d \in Directory \ raced :
        LET seed == copies[d]["controller.seed"]
            did  == copies[d]["owner.did"]
        IN  /\ copier[d] # None /\ pc[copier[d]] = "done" => seed = copier[d] /\ did = copier[d]
            /\ seed # did => pc[copier[d]] \in {"write_did", "ended"}
            /\ \A p \in {seed, did} \cap Process : call[p].home \in Alone =>
                   \A l \in Label : files[call[p].home][l] = p

\* Keys reach the disk only after an extrinsic with them has been submitted,
\* whatever overlaps, crashes and restarts of the door there have been: a client
\* whose prepared extrinsic was replaced or forgotten leaves no file for an agent
\* that cannot exist (register-me.rs:114-119).
SavedIsSubmitted ==
    /\ \A h \in Home, l \in Label : Readable(h, l) => registration[files[h][l]] # "none"
    /\ \A d \in Directory, f \in CopyFile :
           copies[d][f] \in Process => registration[copies[d][f]] # "none"

\* "Idempotent": after bootstrap_new_agent has succeeded, every later call of it
\* for the same home returns the same agent and submits nothing.
Idempotent ==
    [][\A p, q \in Process :
           /\ pc[p] = "done" /\ call[p].kind = "bootstrap" /\ call[p].home \in Alone
           /\ pc[q] = "idle" /\ pc'[q] # "idle"
           /\ call'[q].kind = "bootstrap" /\ call'[q].home = call[p].home
           => /\ pc'[q] = "done"
              /\ call'[q].did = call[p].did /\ call'[q].account = call[p].account]_vars

\* A stranger who is alone at the door between prepare and finish, and whose door
\* is not restarted, finds its own extrinsic under its token, whatever entries
\* clients that never finished have left in the table (register-door.rs:114).
LoneClientServed ==
    \A p \in Prepared \ disturbed : Redeems(p)

\* "Otherwise: generates a fresh sr25519 account, [...] registers the new agent
\* [...], and persists both the ML-DSA identity and the account seed"
\* (offchain-agent-registry lib.rs:508-513): once its agent is registered, nothing
\* on disk keeps bootstrap_new_agent from saving the keys.  A home that holds one
\* of the two files does: an attempt that was killed between the two saves, or
\* another client, has left it.
PersistsBoth ==
    \A p \in Process : call[p].kind = "bootstrap" /\ call[p].home \in Alone =>
        /\ pc[p] = "check_identity" => ~identity_exists(call[p].home, "identity")
        /\ pc[p] = "check_account" => ~identity_exists(call[p].home, "account")
=============================================================================
