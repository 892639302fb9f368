------------------------------ MODULE Keystore ------------------------------
(***************************************************************************)
(* The encrypted keystore of offchain-agent-registry and the processes that*)
(* save keys in it.                                                        *)
(*                                                                         *)
(* A home is a keystore directory with a key label.  It holds the identity *)
(* ("{label}.json", the DID and its ML-DSA key) and the account            *)
(* ("{label}-account.json", the seed of the account).  Keys are fresh in   *)
(* every invocation of a client, so a file is known by the process whose   *)
(* key it holds.  Encryption is left out: a whole file decrypts.           *)
(*                                                                         *)
(* No key label is another one with "-account" after it, so the files of   *)
(* two homes are different files.                                          *)
(***************************************************************************)
CONSTANTS Process,      \* the invocations of the clients
          Directory,    \* KEYSTORE_DIR
          KeyLabel,     \* KEY_LABEL
          None,         \* no file; not registered; nobody
          Torn          \* a file whose write has begun and not ended

VARIABLES files,        \* Home -> (label -> whose key the file holds)
          pc,           \* Process -> where the invocation stands
          call          \* Process -> kind, home and result of the invocation

Home == Directory \X KeyLabel

DirectoryOf(h) == h[1]

Label == {"identity", "account"}

Kind == {"bootstrap", "load", "own", "plain"}

\* The keys a client of this kind saves.
LabelsOf(kind) == IF kind \in {"bootstrap", "own"} THEN {"identity", "account"} ELSE {"identity"}

KeystoreInit == files = [h \in Home |-> [l \in Label |-> None]]

\* Mutant: the path is joined with another directory.
identity_exists_elsewhere(h, l) == FALSE

identity_exists(h, l) == files[h][l] # None

\* load_identity succeeds.
Readable(h, l) == files[h][l] \notin {None, Torn}

SetFile(h, l, key) == files' = [files EXCEPT ![h] = [@ EXCEPT ![l] = key]]

-----------------------------------------------------------------------------
(***************************************************************************)
(* save_identity: the check, and the fs::write that follows it, which      *)
(* creates or truncates the file before its content is there.              *)
(***************************************************************************)
CheckFile(p, check, l, write) ==
    /\ pc[p] = check
    /\ pc' = [pc EXCEPT ![p] = IF identity_exists(call[p].home, l)
                               THEN "ended"                       \* AlreadyExists
                               ELSE write]
    /\ UNCHANGED <<files, call>>

BeginWrite(p, write, l, writing) ==
    /\ pc[p] = write
    /\ SetFile(call[p].home, l, Torn)
    /\ pc' = [pc EXCEPT ![p] = writing]
    /\ UNCHANGED call

EndWrite(p, writing, l, next) ==
    /\ pc[p] = writing
    /\ SetFile(call[p].home, l, p)
    /\ pc' = [pc EXCEPT ![p] = next]
    /\ UNCHANGED call

\* Where a client goes once its identity is saved.
AfterIdentity(p) == IF "account" \in LabelsOf(call[p].kind) THEN "check_account" ELSE "done"

\* Mutant: an identity that is there already is kept.
SaveIdentity_kept(p) ==
    \/ /\ pc[p] = "check_identity" /\ identity_exists(call[p].home, "identity")
       /\ pc' = [pc EXCEPT ![p] = AfterIdentity(p)]
       /\ UNCHANGED <<files, call>>
    \/ /\ pc[p] = "check_identity" /\ ~identity_exists(call[p].home, "identity")
       /\ CheckFile(p, "check_identity", "identity", "write_identity")
    \/ BeginWrite(p, "write_identity", "identity", "writing_identity")
    \/ EndWrite(p, "writing_identity", "identity", AfterIdentity(p))

SaveIdentity(p) ==
    \/ CheckFile(p, "check_identity", "identity", "write_identity")
    \/ BeginWrite(p, "write_identity", "identity", "writing_identity")
    \/ EndWrite(p, "writing_identity", "identity", AfterIdentity(p))

AfterAccount(p) == IF call[p].kind = "own" THEN "write_seed" ELSE "done"

SaveAccount(p) ==
    \/ CheckFile(p, "check_account", "account", "write_account")
    \/ BeginWrite(p, "write_account", "account", "writing_account")
    \/ EndWrite(p, "writing_account", "account", AfterAccount(p))
=============================================================================
