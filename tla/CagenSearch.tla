----------------------------- MODULE CagenSearch -----------------------------
(***************************************************************************)
(* cagen's search (cmd/cagen/main.go) for two certificates that between    *)
(* them fit every number of bytes before the first slice boundary.  One    *)
(* worker per processor makes certificates and tries each at every length; *)
(* what fits is added to the shared Result and saved, and a certificate    *)
(* that fitted somewhere is compared with every one before it.  The first  *)
(* pair that covers all the lengths replaces the result, and ends cagen.   *)
(*                                                                         *)
(* Whether a certificate can be made to fit is module Stuffing's subject   *)
(* and a constant here.  A step is what runs between two points where      *)
(* another worker can: os.WriteFile truncates the file in one and fills it *)
(* in another, with the lock held.  Operators whose name starts with Slip  *)
(* are the ones after them with a plausible mistake.                       *)
(***************************************************************************)
EXTENDS Naturals, Sequences, FiniteSets

CONSTANTS
    Workers,     \* the goroutines of main
    Lens,        \* the values of firstSliceLen, 0 .. SliceLen - 1
    Candidates,  \* the certificates that may be generated
    Fits,        \* per candidate the lengths it can be stuffed for
    NoCert,      \* no certificate
    NoWorker     \* nobody

ASSUME SearchAssumption ==
    /\ Lens \subseteq Nat
    /\ Fits \in [Candidates -> SUBSET Lens]
    /\ NoCert \notin Candidates /\ NoWorker \notin Workers

VARIABLES
    FoundCerts,  \* the result: per length a certificate
    fslCerts,    \* the certificates that fitted somewhere, in order
    resultFile,  \* what the result file holds
    lock,        \* the worker that has Result.lock
    step,        \* per worker where it is
    caPEM,       \* per worker its certificate
    todo,        \* per worker the lengths not tried yet
    partner,     \* per worker the certificate that completes its own
    phase,       \* of the process
    made         \* history: the certificates generated so far

resultVars == <<FoundCerts, resultFile>>
workerVars == <<step, caPEM, todo, partner>>
searchVars == <<resultVars, fslCerts, lock, workerVars, phase, made>>

Phases == {"running", "killed", "found", "failed", "panicked"}
Steps == {"idle", "trying", "writing", "saving", "savingWrite"}

Nothing == [l \in Lens |-> NoCert]
Absent == [state |-> "absent", certs |-> Nothing]
Torn == [state |-> "torn", certs |-> Nothing]
Whole(certs) == [state |-> "whole", certs |-> certs]

\* What loadResult makes of the file; it cannot decode a torn one.
Loaded == resultFile.certs

SearchInit ==
    /\ FoundCerts = Nothing /\ resultFile = Absent
    /\ fslCerts = <<>> /\ lock = NoWorker
    /\ step = [w \in Workers |-> "idle"]
    /\ caPEM = [w \in Workers |-> NoCert]
    /\ todo = [w \in Workers |-> {}]
    /\ partner = [w \in Workers |-> NoCert]
    /\ phase = "running" /\ made = {}

AtStep(w, s) == phase = "running" /\ step[w] = s
Moves(w, s) == step' = [step EXCEPT ![w] = s]

-----------------------------------------------------------------------------
(* certsetup *)

\* A key, its certificate, and every length yet to try.
Generate(w) ==
    /\ AtStep(w, "idle")
    /\ \E c \in Candidates \ made :
          /\ caPEM' = [caPEM EXCEPT ![w] = c]
          /\ made' = made \cup {c}
    /\ todo' = [todo EXCEPT ![w] = Lens]
    /\ Moves(w, "trying")
    /\ UNCHANGED <<resultVars, fslCerts, lock, partner, phase>>

\* The length that is tried next.
FirstSliceLen(w) == CHOOSE l \in todo[w] : \A m \in todo[w] : l <= m

Tried(w) == todo' = [todo EXCEPT ![w] = @ \ {FirstSliceLen(w)}]

\* The certificate does not fit, or one that does is known: AddCertLocked
\* returns without writing.
KeepResult(w) ==
    /\ AtStep(w, "trying") /\ todo[w] # {}
    /\ \/ FirstSliceLen(w) \notin Fits[caPEM[w]]
       \/ lock = NoWorker /\ FoundCerts[FirstSliceLen(w)] # NoCert
    /\ Tried(w)
    /\ UNCHANGED <<resultVars, fslCerts, lock, step, caPEM, partner, phase,
                   made>>

\* AddCert takes the lock until the file is written.
Locks(w) == lock = NoWorker /\ lock' = w

\* writeResult: os.WriteFile has opened and truncated the file.
Truncate == resultFile' = Torn

AddCert(w) ==
    /\ AtStep(w, "trying") /\ todo[w] # {}
    /\ FirstSliceLen(w) \in Fits[caPEM[w]]
    /\ FoundCerts[FirstSliceLen(w)] = NoCert
    /\ Locks(w)
    /\ FoundCerts' = [FoundCerts EXCEPT ![FirstSliceLen(w)] = caPEM[w]]
    /\ Truncate /\ Tried(w)
    /\ Moves(w, "writing")
    /\ UNCHANGED <<fslCerts, caPEM, partner, phase, made>>

\* The write ends and AddCert returns, or the saving of a pair goes on.
FinishWrite(w) ==
    /\ \/ AtStep(w, "writing") /\ lock' = NoWorker /\ Moves(w, "trying")
       \/ AtStep(w, "savingWrite") /\ lock' = lock /\ Moves(w, "saving")
    /\ resultFile' = Whole(FoundCerts)
    /\ UNCHANGED <<FoundCerts, fslCerts, caPEM, todo, partner, phase, made>>

\* The write fails: log.Fatal.  (A file that cannot be opened ends the process
\* with the file as it was, which Kill does as well.)
WriteFails(w) ==
    /\ AtStep(w, "writing") \/ AtStep(w, "savingWrite")
    /\ phase' = "failed"
    /\ UNCHANGED <<resultVars, fslCerts, lock, workerVars, made>>

\* A certificate that fits nowhere is forgotten.
Discard(w) ==
    /\ AtStep(w, "trying") /\ todo[w] = {} /\ Fits[caPEM[w]] = {}
    /\ Moves(w, "idle")
    /\ UNCHANGED <<resultVars, fslCerts, lock, caPEM, todo, partner, phase,
                   made>>

Covers(c, d) == Fits[c] \cup Fits[d] = Lens

\* NoPairMissed: the loop ends before the last of them.
SlipEarlier == 1 .. Len(fslCerts) - 1

Earlier == 1 .. Len(fslCerts)

\* A certificate that fitted somewhere joins the others; no earlier one has
\* the lengths that it lacks.
JoinFsl(w) ==
    /\ AtStep(w, "trying") /\ todo[w] = {} /\ Fits[caPEM[w]] # {}
    /\ lock = NoWorker
    /\ fslCerts' = Append(fslCerts, caPEM[w])

Unpaired(w) ==
    /\ JoinFsl(w)
    /\ \A i \in Earlier : ~Covers(fslCerts[i], caPEM[w])
    /\ Moves(w, "idle")
    /\ UNCHANGED <<resultVars, lock, caPEM, todo, partner, phase, made>>

\* The first earlier one that has them: the result begins anew.
Pair(w) ==
    /\ JoinFsl(w)
    /\ \E i \in Earlier :
          /\ Covers(fslCerts[i], caPEM[w])
          /\ \A k \in Earlier :
                Covers(fslCerts[k], caPEM[w]) => i <= k
          /\ partner' = [partner EXCEPT ![w] = fslCerts[i]]
    /\ lock' = w
    /\ FoundCerts' = Nothing
    /\ Moves(w, "saving")
    /\ UNCHANGED <<resultFile, caPEM, todo, phase, made>>

Lacking(c) == {l \in Fits[c] : FoundCerts[l] = NoCert}

\* PairSaved: the lengths that the partner had to itself are left out.
SlipPairMember(w) == caPEM[w]

\* The certificate to save from: the partner's lengths come first, then
\* those that only the worker's own has, each in the order of a map.
PairMember(w) == IF Lacking(partner[w]) # {} THEN partner[w] ELSE caPEM[w]

SavePair(w) ==
    /\ AtStep(w, "saving")
    /\ \E l \in Lacking(PairMember(w)) :
          FoundCerts' = [FoundCerts EXCEPT ![l] = PairMember(w)]
    /\ Truncate
    /\ Moves(w, "savingWrite")
    /\ UNCHANGED <<fslCerts, lock, caPEM, todo, partner, phase, made>>

\* log.Fatalf, with the pair on disk.
EndFound(w) ==
    /\ AtStep(w, "saving") /\ Lacking(PairMember(w)) = {}
    /\ phase' = "found"
    /\ UNCHANGED <<resultVars, fslCerts, lock, workerVars, made>>

-----------------------------------------------------------------------------
(* The process *)

\* It is killed at any moment.
Kill ==
    /\ phase = "running" /\ phase' = "killed"
    /\ UNCHANGED <<resultVars, fslCerts, lock, workerVars, made>>

\* main: Must(loadResult(...)) panics if the file does not decode.  Of all
\* else nothing is left but the file.
Start ==
    /\ phase \in {"killed", "found", "failed"}
    /\ phase' = IF resultFile.state = "torn" THEN "panicked" ELSE "running"
    /\ FoundCerts' = Loaded
    /\ fslCerts' = <<>> /\ lock' = NoWorker
    /\ step' = [w \in Workers |-> "idle"]
    /\ caPEM' = [w \in Workers |-> NoCert]
    /\ todo' = [w \in Workers |-> {}]
    /\ partner' = [w \in Workers |-> NoCert]
    /\ UNCHANGED <<resultFile, made>>

Work(w) ==
    \/ Generate(w) \/ KeepResult(w) \/ AddCert(w)
    \/ FinishWrite(w) \/ WriteFails(w)
    \/ Discard(w) \/ Unpaired(w) \/ Pair(w) \/ SavePair(w) \/ EndFound(w)

SearchNext == (\E w \in Workers : Work(w)) \/ Kill \/ Start

SearchSpec == SearchInit /\ [][SearchNext]_searchVars

-----------------------------------------------------------------------------
(* Properties *)

Results == [Lens -> Candidates \cup {NoCert}]

\* The type of every variable (Result and the workers of main).
SearchTypeOK ==
    /\ FoundCerts \in Results
    /\ resultFile \in [state : {"absent", "torn", "whole"}, certs : Results]
    /\ fslCerts \in Seq(Candidates)
    /\ lock \in Workers \cup {NoWorker}
    /\ step \in [Workers -> Steps]
    /\ caPEM \in [Workers -> Candidates \cup {NoCert}]
    /\ todo \in [Workers -> SUBSET Lens]
    /\ partner \in [Workers -> Candidates \cup {NoCert}]
    /\ phase \in Phases /\ made \subseteq Candidates

\* When cagen announces a pair (certsetup's log.Fatalf), the result file is
\* whole, has for every length a certificate that fits it, and has at most
\* two certificates, so that the two can be built into the firmware.
PairSaved ==
    phase = "found" =>
        /\ resultFile.state = "whole"
        /\ \A l \in Lens :
              /\ resultFile.certs[l] \in Candidates
              /\ l \in Fits[resultFile.certs[l]]
        /\ \E c, d \in Candidates :
              \A l \in Lens : resultFile.certs[l] \in {c, d}

\* While the workers look on, no two certificates of fslCerts that cover
\* all the lengths have been passed over, in whatever order the workers
\* came by with them.
NoPairMissed ==
    phase = "running" /\ lock = NoWorker =>
        \A i, k \in 1 .. Len(fslCerts) :
            i < k => ~Covers(fslCerts[i], fslCerts[k])

\* When nobody writes, the file has what the workers believe it has, so
\* that a restart goes on from there (AddCertLocked's writeResult).
ProgressSaved ==
    phase = "running" /\ lock = NoWorker =>
        /\ resultFile.certs = FoundCerts
        /\ resultFile.state = "absent" => FoundCerts = Nothing
        /\ resultFile.state # "torn"
=============================================================================
