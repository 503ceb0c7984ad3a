----------------------------- MODULE Identities -----------------------------
(***************************************************************************)
(* What a public device may rely on (DeviceSessions): the identity it      *)
(* enrolled with stays its own, whatever answers are lost.                 *)
(***************************************************************************)
EXTENDS Integers

CONSTANTS Devs, MaxKey, MaxGen, MaxFams, WindowLimit, TotalActive, MaxSessFaults

\* The bounds are numbers.
ASSUME IdentityBounds ==
    /\ MaxKey \in Nat /\ MaxGen \in Nat /\ MaxFams \in Nat /\ WindowLimit \in Nat
    /\ TotalActive \in Nat /\ MaxSessFaults \in Nat

VARIABLES
    fam, creds, sess, res, paired, admitted, net, client, sock, writes, gone, overtaken, blocked,
    ids, sessFaults

sessVars == <<fam, creds, sess, res, paired, admitted, net, client, sock, writes, gone, overtaken,
              blocked, ids, sessFaults>>

Sessions == INSTANCE DeviceSessions WITH faults <- sessFaults, MaxFaults <- MaxSessFaults

\* A device has at most one valid bearer and one valid secret, it holds a secret that the server
\* accepts whatever answers of a rotation were lost, and it stays the same user
\* (DeviceSessions).
SessionsAreBound ==
    /\ [](Sessions!OneBearer /\ Sessions!KeepsAKey)
    /\ [][Sessions!IdentityKept]_sessVars

=============================================================================
