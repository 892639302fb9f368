---------------------------- MODULE RegisterDoor ----------------------------
(***************************************************************************)
(* bin/register-door.rs and bin/register-me.rs: an HTTP server that pays   *)
(* for the registrations of strangers, and the program a stranger runs.    *)
(*                                                                         *)
(* register-me comes in two kinds.  "plain": the door signs the extrinsic  *)
(* and controls the agent.  "own" (OWN_CONTROLLER=1): the door funds a     *)
(* fresh account and prepares an unsigned extrinsic, which it keeps in     *)
(* memory under a token until the stranger sends the signature.            *)
(*                                                                         *)
(* The door serves one request at a time.  The parsing of requests, the    *)
(* block of the challenge and /v1/submit, which forwards an extrinsic that *)
(* no client here makes, are left out.                                     *)
(***************************************************************************)
EXTENDS AgentBootstrap, FiniteSets, Naturals

CONSTANT Alice          \* signer() of the door

VARIABLES serving,      \* the client whose request the door is waiting on
          pending,      \* token -> the client whose extrinsic was prepared
          token,        \* Process -> the token it holds
          disturbed,    \* history: the clients that hold a token and were not alone
                        \* with the table since they were given it
          copies,       \* Directory -> (file -> whose seed or DID it holds)
          copier,       \* history: Directory -> the last process to write its seed
          raced         \* history: the directories where a process has written its
                        \* seed while another was between its two copies

copyVars == <<copies, copier, raced>>
doorVars == <<serving, pending, token, disturbed, copyVars>>

\* What register-me with its own controller leaves for other tools, in the clear:
\* the same two files for every label of a directory.
CopyFile == {"controller.seed", "owner.did"}

DoorInit ==
    /\ serving = None
    /\ pending = [t \in {} |-> None]
    /\ token = [p \in Process |-> None]
    /\ disturbed = {}
    /\ copies = [d \in Directory |-> [f \in CopyFile |-> None]]
    /\ copier = [d \in Directory |-> None]
    /\ raced = {}

Goes(p, to) == pc' = [pc EXCEPT ![p] = to]

\* The client is told, if it is still there.
Told(p, from, to) == pc' = IF pc[p] = from THEN [pc EXCEPT ![p] = to] ELSE pc

\* The token is used up, or its client is gone.
Forget(p) ==
    /\ token' = [token EXCEPT ![p] = None]
    /\ disturbed' = disturbed \ {p}

Prepared == {p \in Process : pc[p] = "prepared"}

-----------------------------------------------------------------------------
(***************************************************************************)
(* The requests of register-me, from the key pair and the challenge on.    *)
(***************************************************************************)
register_me(p, kind, h) ==
    /\ Invoke(p, "asking", kind, h, p, IF kind = "own" THEN p ELSE Alice)
    /\ UNCHANGED <<files, chainVars, doorVars>>

\* POST /v1/fund: the door waits until its transfer is final.
Fund(p) ==
    /\ pc[p] = "asking" /\ call[p].kind = "own"
    /\ serving = None
    /\ serving' = p
    /\ transfer' = Submitted(transfer, p)
    /\ Goes(p, "funding")
    /\ UNCHANGED <<files, call, registration, controller, overlapped, pending, token, disturbed, copyVars>>

\* POST /v1/register: the door signs, and waits until the registration is final.
Register(p) ==
    /\ pc[p] = "asking" /\ call[p].kind = "plain"
    /\ serving = None
    /\ serving' = p
    /\ registration' = Submitted(registration, p)
    /\ Goes(p, "registering")
    /\ UNCHANGED <<files, call, transfer, controller, overlapped, pending, token, disturbed, copyVars>>

\* 200 OK of the two requests above.
Answer(p) ==
    /\ serving = p
    /\ serving' = None
    /\ \/ call[p].kind = "own" /\ transfer[p] = "included" /\ Told(p, "funding", "funded")
       \/ /\ call[p].kind = "plain" /\ registration[p] = "included"
          /\ Told(p, "registering", "check_identity")
    /\ UNCHANGED <<files, call, chainVars, overlapped, pending, token, disturbed, copyVars>>

\* 400 Bad Request of the two: the extrinsic failed, or the door lost sight of it.
Complain(p) ==
    /\ serving = p
    /\ serving' = None
    /\ Told(p, IF call[p].kind = "own" THEN "funding" ELSE "registering", "ended")
    /\ UNCHANGED <<files, call, chainVars, overlapped, pending, token, disturbed, copyVars>>

\* Mutant: an entry that is there already is kept.
Prepare_kept(p) ==
    /\ pc[p] = "funded"
    /\ serving = None
    /\ LET t == Cardinality(DOMAIN pending) IN
       /\ token' = [token EXCEPT ![p] = t]
       /\ pending' = [x \in DOMAIN pending \cup {t} |-> IF x \in DOMAIN pending THEN pending[x] ELSE p]
    /\ disturbed' = IF Prepared = {} THEN disturbed ELSE disturbed \cup Prepared \cup {p}
    /\ Goes(p, "prepared")
    /\ UNCHANGED <<files, call, chainVars, overlapped, serving, copyVars>>

\* POST /v1/prepare: the new token is the size of the table.
Prepare(p) ==
    /\ pc[p] = "funded"
    /\ serving = None
    /\ LET t == Cardinality(DOMAIN pending) IN
       /\ token' = [token EXCEPT ![p] = t]
       /\ pending' = [x \in DOMAIN pending \cup {t} |-> IF x = t THEN p ELSE pending[x]]
    /\ disturbed' = IF Prepared = {} THEN disturbed ELSE disturbed \cup Prepared \cup {p}
    /\ Goes(p, "prepared")
    /\ UNCHANGED <<files, call, chainVars, overlapped, serving, copyVars>>

\* The table holds, under p's token, the extrinsic that was prepared for p.
Redeems(p) == token[p] \in DOMAIN pending /\ pending[token[p]] = p

\* Mutant: register-me does not look at the answer before it saves its keys.
Finish_unread(p) ==
    /\ pc[p] = "prepared"
    /\ serving = None
    /\ pending' = [x \in DOMAIN pending \ {token[p]} |-> pending[x]]
    /\ registration' = IF Redeems(p) THEN Submitted(registration, p) ELSE registration
    /\ Goes(p, "check_identity")
    /\ Forget(p)
    /\ UNCHANGED <<files, call, transfer, controller, overlapped, serving, copyVars>>

\* POST /v1/finish with the signature over the payload that p was shown: the pool
\* accepts it only with the extrinsic that was prepared for p.  The answer may be
\* lost.  register-me saves its keys without waiting for the registration.
Finish(p) ==
    /\ pc[p] = "prepared"
    /\ serving = None
    /\ pending' = [x \in DOMAIN pending \ {token[p]} |-> pending[x]]
    /\ \/ /\ ~Redeems(p)
          /\ Goes(p, "ended")                  \* unknown token; refused by the pool
          /\ UNCHANGED registration
       \/ /\ Redeems(p)
          /\ registration' = Submitted(registration, p)
          /\ \E to \in {"check_identity", "ended"} : Goes(p, to)
    /\ Forget(p)
    /\ UNCHANGED <<files, call, transfer, controller, overlapped, serving, copyVars>>

SetCopy(d, f, key) == copies' = [copies EXCEPT ![d] = [@ EXCEPT ![f] = key]]

\* fs::write, over what is there; it may be cut short, and the process with it.
WriteCopy(p, f, next) ==
    \/ SetCopy(DirectoryOf(call[p].home), f, p) /\ Goes(p, next)
    \/ SetCopy(DirectoryOf(call[p].home), f, Torn) /\ Goes(p, "ended")

\* Mutant: a copy that is there already is kept.
WriteSeed_kept(p) ==
    LET d == DirectoryOf(call[p].home) IN
    /\ pc[p] = "write_seed"
    /\ IF copies[d]["controller.seed"] = None
       THEN WriteCopy(p, "controller.seed", "write_did")
       ELSE Goes(p, "write_did") /\ UNCHANGED copies
    /\ copier' = [copier EXCEPT ![d] = p]
    /\ raced' = IF \E q \in Process \ {p} : pc[q] = "write_did" /\ DirectoryOf(call[q].home) = d
                THEN raced \cup {d} ELSE raced
    /\ UNCHANGED <<files, call, chainVars, overlapped, serving, pending, token, disturbed>>

WriteSeed(p) ==
    LET d == DirectoryOf(call[p].home) IN
    /\ pc[p] = "write_seed"
    /\ WriteCopy(p, "controller.seed", "write_did")
    /\ copier' = [copier EXCEPT ![d] = p]
    /\ raced' = IF \E q \in Process \ {p} : pc[q] = "write_did" /\ DirectoryOf(call[q].home) = d
                THEN raced \cup {d} ELSE raced
    /\ UNCHANGED <<files, call, chainVars, overlapped, serving, pending, token, disturbed>>

WriteDid(p) ==
    /\ pc[p] = "write_did"
    /\ WriteCopy(p, "owner.did", "done")
    /\ UNCHANGED <<files, call, chainVars, overlapped, serving, pending, token, disturbed, copier, raced>>

\* The panic of http(): a refusal, or no door.
NoAnswer(p) ==
    /\ pc[p] \in {"asking", "funded", "prepared"}
    /\ Goes(p, "ended")
    /\ Forget(p)
    /\ UNCHANGED <<files, call, chainVars, overlapped, serving, pending, copyVars>>

\* Crash, of any client; the door is another process, and serves on.
Kill(p) == Crash(p) /\ Forget(p) /\ UNCHANGED <<serving, pending, copyVars>>

\* The door ends on an error of its node connection, or is killed, and is started
\* again: the table of prepared extrinsics was in memory.
Restart ==
    /\ serving' = None
    /\ pending' = [t \in {} |-> None]
    /\ disturbed' = disturbed \cup Prepared
    /\ pc' = [p \in Process |-> IF p = serving /\ pc[p] \in {"funding", "registering"}
                                THEN "ended" ELSE pc[p]]
    /\ UNCHANGED <<files, call, chainVars, overlapped, token, copyVars>>
=============================================================================
