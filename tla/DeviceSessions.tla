--------------------------- MODULE DeviceSessions ---------------------------
(***************************************************************************)
(* Public identities (security/sessions.py, security/access.py,            *)
(* api/sessions.py) and the desktop's identity manager                     *)
(* (desktop/electron/public-identity-session.cjs over credential-vault.cjs).*)
(* An installation enrols once with an id and a secret of its own, renews  *)
(* its short session with the secret, and may rotate the secret; a second  *)
(* device joins the user of the first.  Answers get lost, a request that   *)
(* the client has given up may still be in progress at the server, clients *)
(* restart, sessions and credentials expire, families are revoked, and the *)
(* admission of a new identity first deletes those that nobody can use.    *)
(*                                                                         *)
(* Every device is one installation with one enrollment id.  Its secrets   *)
(* are numbered in the order it makes them.  A row that has expired or is  *)
(* revoked is not told from one that is gone: both are answered 401.       *)
(***************************************************************************)
EXTENDS Integers, FiniteSets

CONSTANTS
    Devs,         \* installations
    MaxKey,       \* the last secret of an installation: bound on the rotations
    MaxGen,       \* bound on the renewals of a family
    MaxFams,      \* bound on the identities ever made
    WindowLimit,  \* new identities admitted in one window
    TotalActive,  \* identities that may be active at once
    MaxFaults     \* bound on lost answers and restarts

NoSecret == -1
NoTok == <<0, 0>>
Secrets == 0 .. MaxKey

VARIABLES
    fam,       \* the identity of a device: [id, user, secret, gen, revoked]; id 0 without one
    creds,     \* the credentials that are accepted: <<device, key>>
    sess,      \* the access sessions that are accepted: <<family, generation>>
    res,       \* the users that own a row of the tables the cleanup looks at
    paired,    \* the families whose device is named by a pairing of the hub
    admitted,  \* the admissions of the window
    net,       \* the requests in progress, and the answers on their way
    client,    \* the identity manager of a device, with its vault
    sock,      \* the session an event socket of the device was opened with
    writes,    \* authenticated requests that will store a resource, by user
    gone,      \* history: devices whose credential expired or was revoked
    overtaken, \* history: devices whose rotation committed too late for its reconciliation
    blocked,   \* history: an identity that nobody uses could not be deleted
    ids,       \* the identities made so far
    faults

vars == <<fam, creds, sess, res, paired, admitted, net, client, sock, writes, gone, overtaken, blocked, ids, faults>>

NoFam == [id |-> 0, user |-> 0, secret |-> NoSecret, gen |-> 0, revoked |-> FALSE]
NewClient ==
    [vault |-> "none", key |-> NoSecret, pend |-> NoSecret, made |-> 0, tok |-> NoTok, at |-> "idle"]

Init ==
    /\ fam = [d \in Devs |-> NoFam]
    /\ creds = {} /\ sess = {} /\ res = {} /\ paired = {} /\ admitted = 0
    /\ net = {} /\ client = [d \in Devs |-> NewClient]
    /\ sock = [d \in Devs |-> NoTok] /\ writes = {}
    /\ gone = {} /\ overtaken = {} /\ blocked = FALSE /\ ids = 0 /\ faults = 0

Request(d, op, key, new, tok) ==
    [dev |-> d, op |-> op, key |-> key, new |-> new, tok |-> tok, auth |-> FALSE, late |-> FALSE,
     ans |-> "none", got |-> NoTok]

-----------------------------------------------------------------------------
(* The client.  One operation of a device at a time (serialize).           *)

Sends(d, r, at) ==
    /\ net' = net \cup {r}
    /\ client' = [client EXCEPT ![d] = at]
    /\ UNCHANGED <<fam, creds, sess, res, paired, admitted, sock, writes, gone, overtaken, blocked, ids, faults>>

\* ensure and enroll: the pair is in the vault before it is sent, and is sent again as it is.
Enroll(d) ==
    LET c == client[d] IN
    /\ c.at = "idle" /\ c.vault \in {"none", "begun"}
    /\ Sends(d, Request(d, "enroll", 0, NoSecret, NoTok),
             [c EXCEPT !.vault = "begun", !.key = 0, !.at = "enroll"])

\* The second device is enrolled with the session and the credential of another one.
Join(e, d) ==
    LET c == client[e] IN
    /\ e # d /\ c.at = "idle" /\ c.vault \in {"none", "begun"}
    /\ client[d].vault = "confirmed" /\ client[d].tok # NoTok
    /\ Sends(e, Request(e, "join", 0, client[d].key, client[d].tok),
             [c EXCEPT !.vault = "begun", !.key = 0, !.at = "join"])

\* renew without a rotation in doubt
Renew(d) ==
    LET c == client[d] IN
    /\ c.at = "idle" /\ c.vault = "confirmed" /\ c.tok = NoTok /\ c.pend = NoSecret
    /\ Sends(d, Request(d, "renew", c.key, NoSecret, NoTok), [c EXCEPT !.at = "renew"])

\* reconcileRotation: the pending credential is tried first ...
TryPending(d) ==
    LET c == client[d] IN
    /\ c.at = "idle" /\ c.vault = "confirmed" /\ c.tok = NoTok /\ c.pend # NoSecret
    /\ Sends(d, Request(d, "renew", c.pend, NoSecret, NoTok), [c EXCEPT !.at = "pending"])

\* ... and then the current one.
TryCurrent(d) ==
    LET c == client[d] IN
    /\ c.at = "next"
    /\ Sends(d, Request(d, "renew", c.key, NoSecret, NoTok), [c EXCEPT !.at = "current"])

\* rotate: a secret that was never used before is in the vault, as pending, before it is sent.
Rotate(d) ==
    LET c == client[d] IN
    /\ c.at = "idle" /\ c.vault = "confirmed" /\ c.tok # NoTok /\ c.pend = NoSecret
    /\ c.made < MaxKey
    /\ Sends(d, Request(d, "rotate", c.key, c.made + 1, c.tok),
             [c EXCEPT !.pend = c.made + 1, !.made = @ + 1, !.at = "rotate"])

\* The access token is answered 401 somewhere.
TokenRefused(d) ==
    /\ client[d].at = "idle" /\ client[d].tok # NoTok /\ client[d].tok \notin sess
    /\ client' = [client EXCEPT ![d].tok = NoTok]
    /\ UNCHANGED <<fam, creds, sess, res, paired, admitted, net, sock, writes, gone, overtaken, blocked, ids, faults>>

\* A mutant: a secret whose trial got no answer is given up with the other's success.
ToldForgets(c, t) ==
    CASE c.at \in {"enroll", "join"} -> [c EXCEPT !.vault = "confirmed", !.tok = t, !.at = "idle"]
      [] c.at \in {"rotate", "pending"} -> [c EXCEPT !.pend = NoSecret, !.tok = t, !.at = "idle"]
      [] c.at = "current" -> [c EXCEPT !.pend = NoSecret, !.tok = t, !.at = "idle"]
      [] OTHER -> [c EXCEPT !.tok = t, !.at = "idle"]

\* confirmEnrollment, commitRotation, abortRotation.
Told(c, t) ==
    CASE c.at \in {"enroll", "join"} -> [c EXCEPT !.vault = "confirmed", !.tok = t, !.at = "idle"]
      [] c.at \in {"rotate", "pending"} -> [c EXCEPT !.key = c.pend, !.pend = NoSecret, !.tok = t, !.at = "idle"]
      [] c.at = "current" -> [c EXCEPT !.pend = NoSecret, !.tok = t, !.at = "idle"]
      [] OTHER -> [c EXCEPT !.tok = t, !.at = "idle"]

\* A mutant: the current secret is not tried when the pending one is refused.
UntoldStops(c) == [c EXCEPT !.at = IF @ = "pending" THEN "pending" ELSE "idle"]

\* An error, or no answer: a rotation stays pending (classifyRotationResponse; the backend
\* gives the definitive rejections 400, 413, 415 and 422 only to a body this client never sends).
Untold(c) == [c EXCEPT !.at = IF @ = "pending" THEN "next" ELSE "idle"]

\* The client has the answer.  A rotation is answered without a new session.
Receive(r) ==
    /\ r \in net /\ r.ans # "none"
    /\ net' = net \ {r}
    /\ client' = [client EXCEPT ![r.dev] =
           IF r.ans = "no" THEN Untold(@) ELSE Told(@, IF r.op = "rotate" THEN @.tok ELSE r.got)]
    /\ UNCHANGED <<fam, creds, sess, res, paired, admitted, sock, writes, gone, overtaken, blocked, ids, faults>>

\* The client gives the request up: it may still be in progress, or its answer is lost.
GiveUp(r) ==
    /\ r \in net /\ ~r.late /\ faults < MaxFaults
    /\ faults' = faults + 1
    /\ net' = (net \ {r}) \cup (IF r.ans = "none" THEN {[r EXCEPT !.late = TRUE]} ELSE {})
    /\ client' = [client EXCEPT ![r.dev] = Untold(@)]
    /\ UNCHANGED <<fam, creds, sess, res, paired, admitted, sock, writes, gone, overtaken, blocked, ids>>

\* The request is lost on its way.
Lose(r) ==
    /\ r \in net /\ r.late /\ ~r.auth
    /\ net' = net \ {r}
    /\ UNCHANGED <<fam, creds, sess, res, paired, admitted, client, sock, writes, gone, overtaken, blocked, ids, faults>>

\* The vault survives a restart of the application, the session does not.
Restart(d) ==
    /\ faults < MaxFaults /\ client[d].vault # "none"
    /\ faults' = faults + 1
    /\ net' = {IF r.dev = d THEN [r EXCEPT !.late = TRUE] ELSE r :
                  r \in {q \in net : q.dev = d => q.ans = "none"}}
    /\ client' = [client EXCEPT ![d].at = "idle", ![d].tok = NoTok]
    /\ sock' = [sock EXCEPT ![d] = NoTok]
    /\ UNCHANGED <<fam, creds, sess, res, paired, admitted, writes, gone, overtaken, blocked, ids>>

-----------------------------------------------------------------------------
(* The server.                                                             *)

OfFamily(f, S) == {t \in S : t[1] = f}

\* A mutant: the sessions of earlier generations stay.
RenewedBeside(d) ==
    /\ fam' = [fam EXCEPT ![d].gen = @ + 1]
    /\ sess' = sess \cup {<<fam[d].id, fam[d].gen + 1>>}

\* _renew_credential_row_tx: every session of the family is revoked, one is made.
Renewed(d) ==
    /\ fam' = [fam EXCEPT ![d].gen = @ + 1]
    /\ sess' = (sess \ OfFamily(fam[d].id, sess)) \cup {<<fam[d].id, fam[d].gen + 1>>}

\* The credential is accepted (_credential_row_tx); the bound is no part of the code.
Accepted(d, k) == <<d, k>> \in creds /\ ~fam[d].revoked
MayRenew(d) == fam[d].gen < MaxGen

\* The server answers; the answer to a request that was given up reaches nobody.
Answers(r, ans, tok) ==
    net' = (net \ {r}) \cup (IF r.late THEN {} ELSE {[r EXCEPT !.ans = ans, !.got = tok]})

Refuse(r) ==
    /\ Answers(r, "no", NoTok)
    /\ UNCHANGED <<fam, creds, sess, res, paired, admitted, client, sock, writes, gone, overtaken, ids, faults>>

\* validate_public_token
ValidToken(t) == t \in sess

\* The session of the request is validated by the middleware (resolve_http_principal).
Authenticate(r) ==
    /\ r \in net /\ r.ans = "none" /\ r.op \in {"rotate", "join"} /\ ~r.auth
    /\ IF ValidToken(r.tok)
       THEN /\ net' = (net \ {r}) \cup {[r EXCEPT !.auth = TRUE]}
            /\ UNCHANGED <<fam, creds, sess, res, paired, admitted, client, sock, writes, gone, overtaken, blocked, ids, faults>>
       ELSE Refuse(r) /\ UNCHANGED blocked

\* renew_public_session
ServeRenew(r) ==
    /\ r \in net /\ r.ans = "none" /\ r.op = "renew"
    /\ IF Accepted(r.dev, r.key)
       THEN /\ MayRenew(r.dev)
            /\ Renewed(r.dev) /\ Answers(r, "yes", <<fam[r.dev].id, fam[r.dev].gen + 1>>)
            /\ UNCHANGED <<creds, res, paired, admitted, client, sock, writes, gone, overtaken, blocked, ids, faults>>
       ELSE Refuse(r) /\ UNCHANGED blocked

\* The secret an answer tells the client to keep.
Proven(r) == IF r.op = "rotate" THEN r.new ELSE r.key

\* A rotation the client no longer waits for: it has settled for the old secret, or the answer
\* that makes it do so is on its way.
Overtakes(r) ==
    /\ r.late
    /\ \/ client[r.dev].pend # r.new
       \/ \E q \in net : q.dev = r.dev /\ q.ans = "yes" /\ Proven(q) # r.new

\* rotate_device_credential: the credential decides; the session was looked at before.
ServeRotate(r) ==
    /\ r \in net /\ r.ans = "none" /\ r.op = "rotate" /\ r.auth
    /\ IF Accepted(r.dev, r.key) /\ fam[r.dev].id = r.tok[1]
       THEN /\ creds' = (creds \ {<<r.dev, r.key>>}) \cup {<<r.dev, r.new>>}
            /\ fam' = [fam EXCEPT ![r.dev].secret = r.new]
            /\ Answers(r, "yes", NoTok)
            /\ overtaken' = IF Overtakes(r) THEN overtaken \cup {r.dev} ELSE overtaken
            /\ UNCHANGED <<sess, res, paired, admitted, client, sock, writes, gone, blocked, ids, faults>>
       ELSE Refuse(r) /\ UNCHANGED blocked

\* _active_enrollment_count_tx
IsActive(d) == fam[d].id # 0 /\ ((\E k \in Secrets : Accepted(d, k)) \/ OfFamily(fam[d].id, sess) # {})
Active == {d \in Devs : IsActive(d)}

\* A mutant: resources do not keep an identity.
OrphansAnyway == {d \in Devs : fam[d].id # 0 /\ ~IsActive(d)}

\* _cleanup_orphaned_enrollments_tx: nobody can use them and the user owns nothing.
Orphans == {d \in Devs : fam[d].id # 0 /\ ~IsActive(d) /\ fam[d].user \notin res}

\* The pairings of the hub refer to the row of the device: its deletion fails.
Stuck == \E d \in Orphans : fam[d].id \in paired

Kept == [d \in Devs |-> IF d \in Orphans THEN NoFam ELSE fam[d]]

\* _admit_new_enrollment_tx: the orphans first, then the windows and the total.
Admits == admitted < WindowLimit /\ Cardinality(Active \ Orphans) < TotalActive

\* enroll_public_device and enroll_additional_device for an id that is new.
ServeNew(r, user) ==
    IF Stuck \/ ~Admits
    THEN Refuse(r) /\ blocked' = (blocked \/ Stuck)
    ELSE /\ ids < MaxFams
         /\ ids' = ids + 1 /\ admitted' = admitted + 1
         /\ fam' = [Kept EXCEPT ![r.dev] =
                [id |-> ids + 1, user |-> user, secret |-> r.key, gen |-> 0, revoked |-> FALSE]]
         /\ creds' = creds \cup {<<r.dev, r.key>>}
         /\ sess' = sess \cup {<<ids + 1, 0>>}
         /\ Answers(r, "yes", <<ids + 1, 0>>)
         /\ UNCHANGED <<res, paired, client, sock, writes, gone, overtaken, blocked, faults>>

\* For an id that is known: the secret it is bound to, or a conflict.
ServeKnown(r, owns) ==
    IF owns /\ fam[r.dev].secret = r.key /\ Accepted(r.dev, r.key)
    THEN /\ MayRenew(r.dev)
         /\ Renewed(r.dev) /\ Answers(r, "yes", <<fam[r.dev].id, fam[r.dev].gen + 1>>)
         /\ UNCHANGED <<creds, res, paired, admitted, client, sock, writes, gone, overtaken, blocked, ids, faults>>
    ELSE Refuse(r) /\ UNCHANGED blocked

ServeEnroll(r) ==
    /\ r \in net /\ r.ans = "none" /\ r.op = "enroll"
    /\ IF fam[r.dev].id = 0 THEN ServeNew(r, ids + 1) ELSE ServeKnown(r, TRUE)

ServeJoin(r) ==
    /\ r \in net /\ r.ans = "none" /\ r.op = "join" /\ r.auth
    /\ LET by == {d \in Devs : fam[d].id = r.tok[1] /\ Accepted(d, r.new)} IN
       IF by = {} THEN Refuse(r) /\ UNCHANGED blocked
       ELSE LET user == fam[CHOOSE d \in by : TRUE].user IN
            IF fam[r.dev].id = 0 THEN ServeNew(r, user) ELSE ServeKnown(r, fam[r.dev].user = user)

Revokes(d) ==
    /\ ValidToken(client[d].tok) /\ client[d].tok[1] = fam[d].id /\ ~fam[d].revoked
    /\ fam' = [fam EXCEPT ![d].revoked = TRUE]
    /\ sess' = sess \ OfFamily(fam[d].id, sess)
    /\ creds' = {k \in creds : k[1] # d}
    /\ gone' = gone \cup {d}
    /\ UNCHANGED <<res, paired, admitted, net, client, sock, writes, overtaken, blocked, ids, faults>>

\* revoke_session_family: sessions and credentials go at once.
RevokeFamily(d) == Revokes(d)

\* revoke_device: with the credential as well.
RevokeDevice(d) == Accepted(d, client[d].key) /\ Revokes(d)

\* A pairing of the hub names the device.
Pair(d) ==
    /\ ValidToken(client[d].tok) /\ client[d].tok[1] = fam[d].id
    /\ paired' = paired \cup {fam[d].id}
    /\ UNCHANGED <<fam, creds, sess, res, admitted, net, client, sock, writes, gone, overtaken, blocked, ids, faults>>

\* A request that stores something: validated now ...
StoreBegins(d) ==
    /\ ValidToken(client[d].tok) /\ client[d].tok[1] = fam[d].id
    /\ writes' = writes \cup {fam[d].user}
    /\ UNCHANGED <<fam, creds, sess, res, paired, admitted, net, client, sock, gone, overtaken, blocked, ids, faults>>

\* ... and stored later, whatever has become of the session, in one of the tables the cleanup
\* looks at (_USER_RESOURCE_TABLES) or in another: a memory of the chat, the settings of the
\* profile or the selection of a capture count for nothing.
StoreEnds(u, counted) ==
    /\ u \in writes
    /\ writes' = writes \ {u} /\ res' = IF counted THEN res \cup {u} ELSE res
    /\ UNCHANGED <<fam, creds, sess, paired, admitted, net, client, sock, gone, overtaken, blocked, ids, faults>>

\* resolve_websocket_principal
OpenSocket(d) ==
    /\ ValidToken(client[d].tok) /\ sock[d] = NoTok
    /\ sock' = [sock EXCEPT ![d] = client[d].tok]
    /\ UNCHANGED <<fam, creds, sess, res, paired, admitted, net, client, writes, gone, overtaken, blocked, ids, faults>>

\* A mutant: a newer session of the device keeps the socket open.
ActiveFamily(d) == \E t \in sess : t[1] = sock[d][1]

\* assert_active_principal
StillActive(d) == sock[d] \in sess /\ sock[d][2] = fam[d].gen

Revalidate(d) ==
    /\ sock[d] # NoTok /\ ~StillActive(d)
    /\ sock' = [sock EXCEPT ![d] = NoTok]
    /\ UNCHANGED <<fam, creds, sess, res, paired, admitted, net, client, writes, gone, overtaken, blocked, ids, faults>>

SessionExpires(t) ==
    /\ t \in sess
    /\ sess' = sess \ {t}
    /\ UNCHANGED <<fam, creds, res, paired, admitted, net, client, sock, writes, gone, overtaken, blocked, ids, faults>>

CredentialExpires(k) ==
    /\ k \in creds
    /\ creds' = creds \ {k} /\ gone' = gone \cup {k[1]}
    /\ UNCHANGED <<fam, sess, res, paired, admitted, net, client, sock, writes, overtaken, blocked, ids, faults>>

\* _check_admission_window_tx: old admissions leave the window.
WindowPasses ==
    /\ admitted > 0
    /\ admitted' = 0
    /\ UNCHANGED <<fam, creds, sess, res, paired, net, client, sock, writes, gone, overtaken, blocked, ids, faults>>

ClientStep(d) ==
    \/ Enroll(d) \/ Renew(d) \/ TryPending(d) \/ TryCurrent(d) \/ TokenRefused(d)
    \/ \E r \in net : r.dev = d /\ Receive(r)
Serve(d) ==
    \E r \in net : r.dev = d /\ (Authenticate(r) \/ ServeRenew(r) \/ ServeRotate(r) \/ ServeEnroll(r) \/ ServeJoin(r))

Next ==
    \/ \E d \in Devs :
        \/ ClientStep(d) \/ Rotate(d) \/ Restart(d) \/ Serve(d) \/ RevokeFamily(d) \/ RevokeDevice(d) \/ Pair(d)
        \/ StoreBegins(d) \/ OpenSocket(d) \/ Revalidate(d)
        \/ \E e \in Devs : Join(d, e)
    \/ \E r \in net : GiveUp(r) \/ Lose(r)
    \/ \E u \in writes, counted \in BOOLEAN : StoreEnds(u, counted)
    \/ \E t \in sess : SessionExpires(t)
    \/ \E k \in creds : CredentialExpires(k)
    \/ WindowPasses

Spec == Init /\ [][Next]_vars

\* Clients go on, requests are served and sockets are looked at again.  Nobody has to
\* rotate, revoke or store, and nothing has to be lost.
FairSpec ==
    /\ Spec
    /\ \A d \in Devs : WF_vars(ClientStep(d)) /\ WF_vars(Serve(d)) /\ WF_vars(Revalidate(d))

-----------------------------------------------------------------------------
(* Properties.                                                             *)

TypeOK ==
    /\ \A d \in Devs :
        /\ fam[d].id \in 0 .. ids /\ fam[d].user \in 0 .. ids
        /\ fam[d].secret \in Secrets \cup {NoSecret} /\ fam[d].gen \in 0 .. MaxGen
        /\ client[d].vault \in {"none", "begun", "confirmed"}
        /\ client[d].at \in {"idle", "enroll", "join", "renew", "pending", "next", "current", "rotate"}
        /\ client[d].made \in Secrets
        /\ {client[d].key, client[d].pend} \subseteq 0 .. client[d].made \cup {NoSecret}
        /\ client[d].pend # NoSecret => client[d].vault = "confirmed"
    /\ creds \subseteq Devs \X Secrets
    /\ sess \subseteq (1 .. ids) \X (0 .. MaxGen)
    /\ res \subseteq 1 .. ids /\ paired \subseteq 1 .. ids /\ writes \subseteq 1 .. ids
    /\ admitted \in 0 .. WindowLimit /\ faults \in 0 .. MaxFaults /\ ids \in 0 .. MaxFams
    /\ \A r \in net : /\ r.late => r.ans = "none"
                      /\ ~r.late => client[r.dev].at \notin {"idle", "next"}

\* migration 020: one family exposes at most one bearer that is not revoked.  It is that of
\* the newest generation, although late renewals, joins and enrollments still arrive.
OneBearer ==
    \A d \in Devs : fam[d].id # 0 =>
        /\ OfFamily(fam[d].id, sess) \subseteq {<<fam[d].id, fam[d].gen>>}
        /\ Cardinality({k \in creds : k[1] = d}) <= 1

\* A client that has enrolled holds a secret the server accepts, whatever answers were lost
\* around a rotation, unless the credential expired or was revoked, or a rotation that the
\* client had given up was still in progress and committed after its reconciliation had been
\* answered that the old secret works (Overtakes).
KeepsAKey ==
    \A d \in Devs : client[d].vault = "confirmed" /\ d \notin gone \cup overtaken =>
        <<d, client[d].key>> \in creds \/ <<d, client[d].pend>> \in creds

IdentityKept == \A d \in Devs : fam[d].user # 0 /\ fam[d].user \in res => fam'[d].user = fam[d].user

\* A device keeps its user while that user owns a row the cleanup looks at: no cleanup and no
\* enrollment that is sent again gives it another identity.  One that owns nothing but what the
\* cleanup does not count (StoreEnds) can lose it.
IdentityIsStable == [][IdentityKept]_vars

\* sessions.py: identities that nobody can use are deleted when a new one is admitted.  A
\* device that a pairing of the hub names cannot be, and no enrollment succeeds any more.
OrphansAreCollected == ~blocked

SocketsAreValid == \A d \in Devs : sock[d] = NoTok \/ sock[d] \in sess

\* The event socket of a session that was renewed or revoked is closed.
SocketCloses == []<>SocketsAreValid

RotationsAreDecided ==
    \A d \in Devs : client[d].pend = NoSecret \/ d \in gone \cup overtaken \/ client[d].tok # NoTok \/ fam[d].gen = MaxGen

\* A rotation in doubt is decided, unless the identity is lost or the session still works.
RotationSettles == []<>RotationsAreDecided

=============================================================================
