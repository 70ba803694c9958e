------------------------------- MODULE MCAccounts ------------------------------
(* Small instances of what an account owns besides money: its sessions and     *)
(* second factor, and what its clients share. They share no state, so a        *)
(* behaviour is one of one of them, picked by focus, while the others rest.    *)
EXTENDS Sessions, Clients, TLC

CONSTANTS s1, s2, s3, a1, a2, b1, b2, c1, o1, o2, q1, q2

VARIABLE focus

all == <<focus, vars, agentVars, adVars, spoolVars, clientVars>>

\* Three sessions in chains, without a second factor ...
OneFactor == /\ totp' = totp /\ codes' = codes
             /\ \A r \in Requests : req'[r].op \notin {"setup", "enable"}

\* ... or two with a second factor and a backup code.
TwoSessions == row'[s3] = "none"

\* One turn that completes and is reported failed too, around a stay in the background; two
\* policies, of which the second takes force after the start.
At(i, t, type, unit) == [id |-> i, at |-> t, type |-> type, unit |-> unit]
Telemetry ==
  {At(1, 1, "session.started", "none"), At(2, 1, "turn.processing_started", "u"),
   At(3, 2, "surface.visible", "none"), At(4, 3, "turn.completed", "u"),
   At(5, 2, "user.backgrounded", "none"), At(6, 5, "user.returned", "none"),
   At(7, 4, "session.ended", "none"), At(8, 3, "turn.failed", "u")}

\* The editor stores a new pair before it uses it, the command line after.
Terminal == INSTANCE ClientTokens WITH stored <- token, MaxTurns <- 2, StoreFirst <- FALSE

AnyInit ==
  /\ focus \in {"chains", "factors", "agent", "ads", "spool", "editor", "terminal"}
  /\ Init /\ Agent!Init /\ Ads!Init /\ Spool!Init
  /\ IF focus = "terminal" THEN Terminal!Init ELSE Client!Init
  /\ focus = "spool" \/ lock = Spool!Free

AnyNext ==
  /\ UNCHANGED focus
  /\ \/ /\ focus = "chains" /\ Next /\ OneFactor
        /\ UNCHANGED <<agentVars, adVars, spoolVars, clientVars>>
     \/ /\ focus = "factors" /\ Next /\ TwoSessions
        /\ UNCHANGED <<agentVars, adVars, spoolVars, clientVars>>
     \/ /\ focus = "agent" /\ Agent!Next
        /\ UNCHANGED <<vars, adVars, spoolVars, clientVars>>
     \/ /\ focus = "ads" /\ Ads!Next
        /\ UNCHANGED <<vars, agentVars, spoolVars, clientVars>>
     \/ /\ focus = "spool" /\ Spool!Next
        /\ UNCHANGED <<vars, agentVars, adVars, clientVars>>
     \/ /\ focus = "editor" /\ Client!Next
        /\ UNCHANGED <<vars, agentVars, adVars, spoolVars>>
     \/ /\ focus = "terminal" /\ Terminal!Next
        /\ UNCHANGED <<vars, agentVars, adVars, spoolVars>>

AnySpec == AnyInit /\ [][AnyNext]_all

\* The names a and b, which the focuses share, are interchangeable in each of them.
Interchangeable == Permutations({a1, a2}) \cup Permutations({b1, b2})
===============================================================================
