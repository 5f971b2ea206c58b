------------------------------- MODULE Issuer -------------------------------
(***************************************************************************)
(* The issuer service: credential requests, registry synchronisation and   *)
(* revocation (issuer-service/server.js, lib/revoke.js, lib/noteMerkle.js),*)
(* over the three roots of contracts/credential_registry, which the        *)
(* handlers write through the admin account: module AdminWrites, which     *)
(* AdminTx implements.                                                     *)
(*                                                                         *)
(* One commitment per wallet, so a wallet stands for its commitment and    *)
(* for the root of the tree that holds it alone.  The root of a list of    *)
(* leaves is the list of the leaves it takes in.                           *)
(***************************************************************************)
EXTENDS AdminWrites, SequencesExt

CONSTANTS
    Requests,   \* requests to /credential and /registry/sync-root
    Cli,        \* the stellar command the revocation handler runs
    Wallets,
    Baseline,   \* the commitment of fixtures/revoked_commitments.json
    LEAVES,     \* leaves of a revocation or note tree (8)
    MaxCrashes, \* bound on restarts explored
    MaxRows     \* bound on the rows of the revocation file explored

ASSUME WritersAssumption == Writers = Requests \cup {Cli} /\ Cli \notin Requests
ASSUME IssuerBounds ==
    LEAVES \in Nat \ {0} /\ MaxCrashes \in Nat /\ MaxRows \in Nat
ASSUME BaselineAssumption == Baseline \notin Wallets /\ NoWrite \notin Wallets

VARIABLES
    registry,   \* CredentialRegistry: root, revocation root, note root
    rpcReg,     \* the roots the RPC server answers
    revoked,    \* revoked_commitments.json
    notes,      \* note_commitments.json
    req,        \* request -> its handler
    revoking,   \* the commitment the revocation handler blocks the process for
    issued,     \* history: credentials answered
    crashes     \* history: restarts

files      == <<revoked, notes>>
issuerVars == <<writeVars, registry, rpcReg, files, req, revoking, issued, crashes>>

-----------------------------------------------------------------------------
First(s) == SubSeq(s, 1, IF Len(s) < LEAVES THEN Len(s) ELSE LEAVES)

NoteRoot(rows) == First(rows)

\* Fault: the witness of the last revocation alone.
RevWitnessOfLast(rows) ==
    IF rows = <<>> THEN <<>> ELSE <<rows[Len(rows)].commitment>>

\* loadRevoked: the file, and the fixture's one row if it is not in it.
Fixture == [commitment |-> Baseline, onChain |-> TRUE]
HasRow(rows, k) == \E i \in DOMAIN rows : rows[i].commitment = k
LoadRevoked == IF HasRow(revoked, Baseline) THEN revoked ELSE Append(revoked, Fixture)

RevWitness(rows) == First([i \in DOMAIN rows |-> rows[i].commitment])

SetRoot(w)       == [field |-> "root", value |-> w]
SetNoteRoot(n)   == [field |-> "note", value |-> n]
SetRevRoot(r)    == [field |-> "rev", value |-> r]

-----------------------------------------------------------------------------
(* Handlers.  A step runs from one await to the next.                      *)

In(r, pc) == req[r].pc = pc /\ revoking = NoWrite
Become(r, pc) == req' = [req EXCEPT ![r].pc = pc]

Fresh == [pc |-> "idle", kind |-> "sync", wallet |-> NoWrite, chain |-> NoWrite]
Gone  == [Fresh EXCEPT !.pc = "answered"]
Answer(r) == req' = [req EXCEPT ![r] = Gone]

Return(c) ==
    /\ write' = [write EXCEPT ![c] = Resting]
    /\ Disown({c})

Arrive(r, kind, w) ==
    /\ In(r, "idle")
    /\ req' = [req EXCEPT ![r] = [pc |-> "roots", kind |-> kind, wallet |-> w, chain |-> NoWrite]]
    /\ UNCHANGED <<writeVars, registry, rpcReg, files, revoking, issued, crashes>>

\* Fault: the roots are taken as they come.
BuildUnchecked(w, chain) == TRUE

\* buildProverInputs does not throw.
Builds(w, chain) == chain.root = w /\ chain.rev = RevWitness(LoadRevoked)

\* Fault: the note is saved with the answer.
AppendLater(r) == notes' = notes /\ Start(r, SetNoteRoot(NoteRoot(Append(notes, r))))

AppendNote(r) ==
    /\ notes' = Append(notes, r)
    /\ Start(r, SetNoteRoot(NoteRoot(notes')))

\* The credential of request r, with the note it names (NoWrite: none).
Credential(r, chain, note) ==
    [wallet |-> req[r].wallet, note |-> note, root |-> chain.root, rev |-> chain.rev]

\* The note cannot be saved: the handler logs it and answers all the same,
\* noteCommitment null.
IssueWithoutNote(r, chain) ==
    /\ issued' = issued \cup {Credential(r, chain, NoWrite)}
    /\ Answer(r)
    /\ UNCHANGED <<writeVars, files>>

IssueWithNote(r, chain) ==
    /\ AppendNote(r)
    /\ req' = [req EXCEPT ![r].pc = "noting", ![r].chain = chain]
    /\ UNCHANGED <<revoked, issued>>

\* What both handlers do with the roots they will answer from.
Proceed(r, chain) ==
    IF req[r].kind = "credential" /\ Builds(req[r].wallet, chain)
    THEN IssueWithNote(r, chain) \/ IssueWithoutNote(r, chain)
    ELSE Answer(r) /\ UNCHANGED <<writeVars, files, issued>>

\* The first readOnChainRoots returns.
ReadRoots(r) ==
    /\ In(r, "roots")
    /\ IF rpcReg.root = req[r].wallet
       THEN Proceed(r, rpcReg)
       ELSE /\ Start(r, SetRoot(req[r].wallet))
            /\ Become(r, "setting")
            /\ UNCHANGED <<files, issued>>
    /\ UNCHANGED <<registry, rpcReg, revoking, crashes>>

\* syncCredentialRootOnChain returns or throws (503).
RootWritten(r) ==
    /\ In(r, "setting")
    /\ \/ Is(r, "done") /\ Become(r, "reread")
       \/ Is(r, "failed") /\ Answer(r)
    /\ Return(r)
    /\ UNCHANGED <<registry, rpcReg, files, revoking, issued, crashes>>

\* The second readOnChainRoots returns.
RereadRoots(r) ==
    /\ In(r, "reread")
    /\ Proceed(r, rpcReg)
    /\ UNCHANGED <<registry, rpcReg, revoking, crashes>>

ReadFails(r) ==
    /\ In(r, "roots") \/ In(r, "reread")
    /\ Answer(r)
    /\ UNCHANGED <<writeVars, registry, rpcReg, files, revoking, issued, crashes>>

\* syncNoteRootOnChain returns; a failure is logged and forgotten.
Issue(r) ==
    /\ In(r, "noting")
    /\ Is(r, "done") \/ Is(r, "failed")
    /\ Answer(r)
    /\ Return(r)
    /\ issued' = issued \cup {Credential(r, req[r].chain, r)}
    /\ UNCHANGED <<registry, rpcReg, files, revoking, crashes>>

Handler(r) ==
    ReadRoots(r) \/ RootWritten(r) \/ RereadRoots(r) \/ ReadFails(r) \/ Issue(r)

-----------------------------------------------------------------------------
(* Revocation runs the command synchronously: no handler step interleaves. *)

RowsWith(k) ==
    IF HasRow(LoadRevoked, k) THEN LoadRevoked
    ELSE Append(LoadRevoked, [commitment |-> k, onChain |-> FALSE])

MarkOnChain(rows, k) ==
    [i \in DOMAIN rows |-> IF rows[i].commitment = k THEN [rows[i] EXCEPT !.onChain = TRUE]
                           ELSE rows[i]]

\* A commitment that is not on chain yet, new or left by a failed revocation.
Revocable(k) ==
    /\ revoking = NoWrite
    /\ ~ \E i \in DOMAIN LoadRevoked : LoadRevoked[i] = [commitment |-> k, onChain |-> TRUE]
    /\ Len(RowsWith(k)) <= MaxRows

Run(k) ==
    /\ Start(Cli, SetRevRoot(RevWitness(RowsWith(k))))
    /\ revoking' = k
    /\ UNCHANGED <<registry, rpcReg, notes, req, issued, crashes>>

\* Fault: the row is saved as on chain before the command has run.
RevokeMarked(k) == Revocable(k) /\ revoked' = MarkOnChain(RowsWith(k), k) /\ Run(k)

Revoke(k) ==
    /\ Revocable(k)
    /\ revoked' = IF HasRow(LoadRevoked, k) THEN revoked ELSE RowsWith(k)
    /\ Run(k)

\* The command exits; with an error the row stays as it was saved.
Revoked ==
    /\ revoking # NoWrite
    /\ \/ Is(Cli, "done") /\ revoked' = MarkOnChain(LoadRevoked, revoking)
       \/ Is(Cli, "failed") /\ UNCHANGED revoked
    /\ revoking' = NoWrite
    /\ Return(Cli)
    /\ UNCHANGED <<registry, rpcReg, notes, req, issued, crashes>>

\* The process restarts: what it was doing is lost, the files are not, and
\* what the network holds may still land.
Crash ==
    /\ crashes < MaxCrashes
    /\ crashes' = crashes + 1
    /\ write' = [c \in Writers |-> Resting]
    /\ Disown(Writers)
    /\ req' = [r \in Requests |-> IF req[r].pc = "idle" THEN Fresh ELSE Gone]
    /\ revoking' = NoWrite
    /\ UNCHANGED <<registry, rpcReg, files, issued>>

-----------------------------------------------------------------------------
(* The chain: set_root, set_revocation_root and set_note_root of           *)
(* CredentialRegistry store what they are given.                           *)

Store(h) ==
    /\ Applied(h)
    /\ registry' = [registry EXCEPT ![h.op.field] = h.op.value]
    /\ UNCHANGED <<rpcReg, files, req, revoking, issued, crashes>>

\* The transaction fails, or the network drops it.
Lose(h) ==
    /\ Dropped(h)
    /\ UNCHANGED <<registry, rpcReg, files, req, revoking, issued, crashes>>

RpcCatchesUp ==
    /\ rpcReg' = registry
    /\ UNCHANGED <<writeVars, registry, files, req, revoking, issued, crashes>>

Others == UNCHANGED <<registry, rpcReg, files, req, revoking, issued, crashes>>

HandOver(c) == Take(c) /\ Others
CallEnds(c) == (TakeAndFail(c) \/ Succeed(c) \/ Fail(c)) /\ Others

-----------------------------------------------------------------------------
\* The registry as the deployment scripts leave it.
IssuerInit ==
    /\ WritesInit
    /\ registry = [root |-> NoWrite, rev |-> <<Baseline>>, note |-> <<>>]
    /\ rpcReg = registry
    /\ revoked = <<>>
    /\ notes = <<>>
    /\ req = [r \in Requests |-> Fresh]
    /\ revoking = NoWrite
    /\ issued = {}
    /\ crashes = 0

IssuerNext ==
    \/ \E r \in Requests :
           \/ Handler(r)
           \/ \E kind \in {"credential", "sync"}, w \in Wallets : Arrive(r, kind, w)
    \/ \E c \in Writers : HandOver(c) \/ CallEnds(c)
    \/ \E k \in Wallets : Revoke(k)
    \/ Revoked
    \/ \E h \in held : Store(h) \/ Lose(h)
    \/ RpcCatchesUp
    \/ Crash

IssuerSpec == IssuerInit /\ [][IssuerNext]_issuerVars

-----------------------------------------------------------------------------
Commitments == Wallets \cup {Baseline}

\* The credential root is one register every wallet writes in turn, and the
\* RPC server may answer an old one: a credential that is issued still carries
\* its own wallet's root, and the note it names, if it names one, is in the
\* file (server.js 348-434).
IssuedIsOwn ==
    \A c \in issued : /\ c.root = c.wallet
                      /\ c.note # NoWrite => c.note \in ToSet(notes)

\* The note root on chain is always the root of the note file at some length,
\* across restarts and writes that land late or out of order
\* (noteMerkle.js 34-41: the file is saved before the root is sent).
NoteRootIsOfFile ==
    \E n \in 0..Len(notes) : registry.note = NoteRoot(SubSeq(notes, 1, n))

\* A row marked onChain is in the revocation root of the registry, although
\* the process may stop between the two saves and the command may fail after
\* its transaction was taken (revoke.js 82-149).
OnChainRowsAreInRoot ==
    \A i \in DOMAIN LoadRevoked :
        LoadRevoked[i].onChain => LoadRevoked[i].commitment \in ToSet(registry.rev)

\* No revocation is ever undone on chain by a write that lands late, and the
\* leaves keep their order (revoke.js 82-149).
RevRootGrows == [][IsPrefix(registry.rev, registry'.rev)]_issuerVars

\* What the circuit's header says a proof shows: the commitment is in the tree
\* of the credential root and is not among the leaves of the revocation root.
\* The circuit recomputes both roots from the witness and compares them.
Provable(c) == c.root = c.wallet

ProvableIsUnrevoked == \A c \in issued : Provable(c) => c.wallet \notin ToSet(c.rev)
=============================================================================
