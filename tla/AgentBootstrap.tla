--------------------------- MODULE AgentBootstrap ---------------------------
(***************************************************************************)
(* offchain-agent-registry: bootstrap_new_agent and register_or_load_agent.*)
(*                                                                         *)
(* Every invocation is a process that may be killed between two steps,     *)
(* while the extrinsics it has submitted take effect.  Its fresh identity  *)
(* and account are known by the process.                                   *)
(***************************************************************************)
EXTENDS Keystore

CONSTANTS Caller,       \* the account that signs for register_or_load_agent
          Gone          \* deregistered

VARIABLES transfer,     \* Process -> the transfer_keep_alive that funds its account
          registration, \* Process -> the register_agent extrinsic of its identity
          controller,   \* on chain: DID -> its controller
          overlapped    \* history: the homes that two invocations have used at once

chainVars == <<transfer, registration, controller>>

\* Returned with Ok, or ended by an error, a panic or a kill.
Over == {"idle", "done", "ended"}

Running(p) == pc[p] \notin Over

\* Invocation p enters home h.
Enter(p, h) ==
    overlapped' = IF \E q \in Process : Running(q) /\ call[q].home = h
                  THEN overlapped \cup {h} ELSE overlapped

Invoke(p, at, kind, h, did, account) ==
    /\ pc[p] = "idle"
    /\ pc' = [pc EXCEPT ![p] = at]
    /\ call' = [call EXCEPT ![p] = [kind |-> kind, home |-> h, did |-> did, account |-> account]]
    /\ Enter(p, h)

Submitted(extrinsic, p) == [extrinsic EXCEPT ![p] = "pending"]

-----------------------------------------------------------------------------
(***************************************************************************)
(* bootstrap_new_agent ("bootstrap") and register_or_load_agent ("load").  *)
(***************************************************************************)
Persisted(kind, h) == \A l \in LabelsOf(kind) : identity_exists(h, l)

\* The keys on disk are returned, without a look at the chain.
FastPath(p, kind, h) ==
    /\ Persisted(kind, h)
    /\ Invoke(p, IF \A l \in LabelsOf(kind) : Readable(h, l) THEN "done" ELSE "ended",
              kind, h, files[h]["identity"],
              IF kind = "bootstrap" THEN files[h]["account"] ELSE Caller)
    /\ UNCHANGED <<files, chainVars>>

\* A fresh account, and the transfer from the sponsor.
bootstrap_new_agent(p, h) ==
    \/ FastPath(p, "bootstrap", h)
    \/ /\ ~Persisted("bootstrap", h)
       /\ Invoke(p, "funding", "bootstrap", h, p, p)
       /\ transfer' = Submitted(transfer, p)
       /\ UNCHANGED <<files, registration, controller>>

register_or_load_agent(p, h) ==
    \/ FastPath(p, "load", h)
    \/ /\ ~Persisted("load", h)
       /\ Invoke(p, "registering", "load", h, p, Caller)
       /\ registration' = Submitted(registration, p)
       /\ UNCHANGED <<files, transfer, controller>>

FromLibrary(p) == call[p].kind \in {"bootstrap", "load"}

\* The transfer is final; register_agent is signed by the fresh account.
SubmitRegistration(p) ==
    /\ FromLibrary(p) /\ pc[p] = "funding"
    /\ transfer[p] = "included"
    /\ pc' = [pc EXCEPT ![p] = "registering"]
    /\ registration' = Submitted(registration, p)
    /\ UNCHANGED <<files, call, transfer, controller, overlapped>>

\* Mutant: the keys are saved as soon as the extrinsic is submitted.
RegistrationFinal_submitted(p) ==
    /\ FromLibrary(p) /\ pc[p] = "registering"
    /\ pc' = [pc EXCEPT ![p] = "check_identity"]
    /\ UNCHANGED <<files, call, chainVars, overlapped>>

RegistrationFinal(p) ==
    /\ FromLibrary(p) /\ pc[p] = "registering"
    /\ registration[p] = "included"
    /\ pc' = [pc EXCEPT ![p] = "check_identity"]
    /\ UNCHANGED <<files, call, chainVars, overlapped>>

\* Funding, Register: an extrinsic failed, or the connection did.
SubmitError(p) ==
    /\ FromLibrary(p) /\ pc[p] \in {"funding", "registering"}
    /\ pc' = [pc EXCEPT ![p] = "ended"]
    /\ UNCHANGED <<files, call, chainVars, overlapped>>

Save(p) == (SaveIdentity(p) \/ SaveAccount(p)) /\ UNCHANGED <<chainVars, overlapped>>

\* The process is killed, or an I/O error ends it; a file it was writing stays torn.
Crash(p) ==
    /\ Running(p)
    /\ pc' = [pc EXCEPT ![p] = "ended"]
    /\ UNCHANGED <<files, call, chainVars, overlapped>>

-----------------------------------------------------------------------------
(***************************************************************************)
(* The chain, as the clients see it.                                       *)
(***************************************************************************)
IncludeTransfer(p) ==
    /\ transfer[p] = "pending"
    /\ transfer' = [transfer EXCEPT ![p] = "included"]
    /\ UNCHANGED <<files, pc, call, registration, controller, overlapped>>

\* The account of a pending registration is funded: see SubmitRegistration.
IncludeRegistration(p) ==
    /\ registration[p] = "pending"
    /\ registration' = [registration EXCEPT ![p] = "included"]
    /\ controller' = [controller EXCEPT ![p] = call[p].account]
    /\ UNCHANGED <<files, pc, call, transfer, overlapped>>

\* The call of the controller, through the client of the same name.
deregister_agent(did) ==
    /\ controller[did] \notin {None, Gone}
    /\ controller' = [controller EXCEPT ![did] = Gone]
    /\ UNCHANGED <<files, pc, call, transfer, registration, overlapped>>
=============================================================================
