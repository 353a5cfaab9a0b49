---------------------------------- MODULE SignIn ----------------------------------
(* Accounts and sessions of the control plane: registration, password login, the  *)
(* two halves of a password reset, and the two halves of a federated login with   *)
(* its just-in-time provisioning. Every statement on the database is a step of    *)
(* its own: nothing here runs in a transaction, the unique columns of the tables  *)
(* are all that keeps concurrent calls apart. A user is named by its address      *)
(* (unique, never changed, never deleted); a password, a reset token and an SSO   *)
(* state by the call that made it.                                                *)
EXTENDS Naturals, FiniteSets

CONSTANTS Calls,            \* requests on the auth endpoints
          Emails,           \* normalised addresses
          Subjects,         \* subjects of the identity providers
          Oidc, Saml,       \* the configured providers, by type
          RequireVerified,  \* the providers with require_email_verified
          SignupEnabled,    \* auth.signup_enabled
          MaxFaults,        \* bound: statements that fail
          None

Providers == Oidc \cup Saml

VARIABLES users,    \* per address: None, or the password ("" for a federated user)
          links,    \* external_identities: per provider and subject the user, or None
          resets,   \* password_reset_tokens: per token its user and status, or None
          states,   \* the SSO state store: per state its provider
          call,     \* the requests and their locals
          faults    \* statements that have failed

vars == <<users, links, resets, states, call, faults>>

Idle == [step |-> "idle", op |-> None, email |-> None, proof |-> None,
         idp |-> None, sub |-> None, claims |-> None, reply |-> None, seen |-> {}]

Init == /\ users \in [Emails -> {None, "first"}]
        /\ links = [k \in Providers \X Subjects |-> None]
        /\ resets = [t \in Calls |-> None]
        /\ states = [t \in Calls |-> None]
        /\ call = [c \in Calls |-> Idle]
        /\ faults = 0

At(c, step) == call[c].step = step
Answered == {c \in Calls : At(c, "done")}

\* The request arrives: from here on `seen` holds the calls answered before it.
Arrive(c, op, email, proof, idp) ==
    [Idle EXCEPT !.op = op, !.email = email, !.proof = proof, !.idp = idp, !.seen = Answered]

Goto(c, r, step) == call' = [call EXCEPT ![c] = [r EXCEPT !.step = step]]
\* What the caller presented is remembered of a request that was given a session.
Answer(c, r, reply) ==
    LET done == IF reply \in Emails THEN r
                ELSE [r EXCEPT !.proof = None, !.idp = None, !.sub = None]
    IN call' = [call EXCEPT ![c] = [done EXCEPT !.step = "done", !.claims = None, !.reply = reply]]

Fault(c) == /\ faults < MaxFaults
            /\ faults' = faults + 1
            /\ Answer(c, call[c], "failed")
            /\ UNCHANGED <<users, links, resets, states>>

-----------------------------------------------------------------------------
\* Users.Create: INSERT, refused by the unique email.
InsertUser(c, password) ==
    /\ users[call[c].email] = None
    /\ users' = [users EXCEPT ![call[c].email] = password]

EmailTaken(c) ==
    /\ users[call[c].email] # None
    /\ Answer(c, call[c], "error")
    /\ UNCHANGED users

Register(c, e) ==
    /\ At(c, "idle")
    /\ LET r == Arrive(c, "register", e, None, None) IN
       IF ~SignupEnabled \/ users[e] # None THEN Answer(c, r, "refused")
       ELSE Goto(c, r, "create")
    /\ UNCHANGED <<users, links, resets, states, faults>>

CreateAccount(c) ==
    /\ At(c, "create")
    /\ \/ /\ \/ InsertUser(c, c) /\ Answer(c, call[c], call[c].email)
             \/ EmailTaken(c)
          /\ UNCHANGED <<links, resets, states, faults>>
       \/ Fault(c)

\* LoginWithPassword: a user without a password has no password that checks.
LoginWithPassword(c, e, password) ==
    /\ At(c, "idle")
    /\ Answer(c, Arrive(c, "login", e, password, None),
              IF users[e] = password THEN e ELSE "refused")
    /\ UNCHANGED <<users, links, resets, states, faults>>

-----------------------------------------------------------------------------
\* RequestPasswordReset: an unknown address is answered like a known one.
RequestPasswordReset(c, e) ==
    /\ At(c, "idle")
    /\ LET r == Arrive(c, "request", e, None, None) IN
       IF users[e] = None THEN Answer(c, r, "ok") ELSE Goto(c, r, "void")
    /\ UNCHANGED <<users, links, resets, states, faults>>

Unused(t) == resets[t] # None /\ resets[t].status # "used"

KeepUnused(c) ==
    /\ At(c, "void")
    /\ \/ Goto(c, call[c], "mint") /\ UNCHANGED <<users, links, resets, states, faults>>
       \/ Fault(c)

DeleteUnusedForUser(c) ==
    /\ At(c, "void")
    /\ \/ /\ resets' = [t \in Calls |->
                          IF Unused(t) /\ resets[t].user = call[c].email THEN None
                          ELSE resets[t]]
          /\ Goto(c, call[c], "mint")
          /\ UNCHANGED <<users, links, states, faults>>
       \/ Fault(c)

\* The token is stored and mailed; a mail that is not sent changes nothing.
CreateToken(c) ==
    /\ At(c, "mint")
    /\ \/ /\ resets' = [resets EXCEPT ![c] = [user |-> call[c].email, status |-> "fresh"]]
          /\ Answer(c, call[c], "ok")
          /\ UNCHANGED <<users, links, states, faults>>
       \/ Fault(c)

\* The hour of a token passes.
ExpireToken(t) ==
    /\ resets[t] # None
    /\ resets[t].status = "fresh"
    /\ resets' = [resets EXCEPT ![t].status = "expired"]
    /\ UNCHANGED <<users, links, states, call, faults>>

\* ConfirmPasswordReset: the token is read here and consumed two statements later.
ConfirmPasswordReset(c, t) ==
    /\ At(c, "idle")
    /\ LET r == Arrive(c, "confirm", None, t, None) IN
       IF Unused(t) /\ resets[t].status = "fresh"
       THEN Goto(c, [r EXCEPT !.email = resets[t].user], "set")
       ELSE Answer(c, r, "refused")
    /\ UNCHANGED <<users, links, resets, states, faults>>

UpdatePassword(c) ==
    /\ At(c, "set")
    /\ \/ /\ users' = [users EXCEPT ![call[c].email] = c]
          /\ Goto(c, call[c], "consume")
          /\ UNCHANGED <<links, resets, states, faults>>
       \/ Fault(c)

ConsumeAny(c) ==
    /\ At(c, "consume")
    /\ \/ /\ IF resets[call[c].proof] # None
             THEN /\ resets' = [resets EXCEPT ![call[c].proof].status = "used"]
                  /\ Answer(c, call[c], call[c].email)
             ELSE Answer(c, call[c], "error") /\ UNCHANGED resets
          /\ UNCHANGED <<users, links, states, faults>>
       \/ Fault(c)

\* Consume: UPDATE .. WHERE used_at IS NULL; no row is an error, though the password
\* has been written by then.
Consume(c) ==
    /\ At(c, "consume")
    /\ \/ /\ IF Unused(call[c].proof)
             THEN /\ resets' = [resets EXCEPT ![call[c].proof].status = "used"]
                  /\ Answer(c, call[c], call[c].email)
             ELSE Answer(c, call[c], "error") /\ UNCHANGED resets
          /\ UNCHANGED <<users, links, states, faults>>
       \/ Fault(c)

-----------------------------------------------------------------------------
\* BeginSSO: the state goes to the store with its provider and the browser to the
\* provider; without the provider's endpoints nothing is stored.
BeginSSO(c, p) ==
    /\ At(c, "idle")
    /\ LET r == Arrive(c, "begin", None, None, p) IN
       \/ /\ states' = [states EXCEPT ![c] = p]
          /\ Answer(c, r, "ok")
          /\ UNCHANGED faults
       \/ /\ faults < MaxFaults
          /\ faults' = faults + 1
          /\ Answer(c, r, "failed")
          /\ UNCHANGED states
    /\ UNCHANGED <<users, links, resets>>

\* Ten minutes pass.
ExpireState(t) ==
    /\ states[t] # None
    /\ states' = [states EXCEPT ![t] = None]
    /\ UNCHANGED <<users, links, resets, call, faults>>

\* CompleteSSO takes the state out of the store whether or not it is the provider's.
CompleteSSO(c, s, p) ==
    /\ At(c, "idle")
    /\ states' = [states EXCEPT ![s] = None]
    /\ LET r == Arrive(c, "complete", None, s, p) IN
       IF states[s] # p THEN Answer(c, r, "refused") ELSE Goto(c, r, "exchange")
    /\ UNCHANGED <<users, links, resets, faults>>

\* What the id_token (or the userinfo answer of a plain OAuth2 provider) may say.
Tokens == [sub : Subjects \cup {None}, email : Emails \cup {None}, verified : BOOLEAN]

\* Exchange of an OIDC or OAuth2 provider: the userinfo fills what the token leaves out.
OidcClaims(p, token, info) ==
    LET whole == token.sub # None /\ token.email # None
        email == IF token.email # None THEN token.email ELSE info.email
    IN [sub |-> IF token.sub # None THEN token.sub ELSE info.sub,
        email |-> email,
        verified |-> \/ token.verified
                     \/ ~whole /\ info.verified
                     \/ p \notin RequireVerified /\ email # None]

\* ExchangeAssertion: an assertion needs a subject, and its address counts as verified.
SamlClaims(p) ==
    {[sub |-> s, email |-> e, verified |-> e # None] :
        s \in Subjects, e \in IF p \in RequireVerified THEN Emails ELSE Emails \cup {None}}

ClaimsOf(p) == IF p \in Saml THEN SamlClaims(p)
               ELSE {OidcClaims(p, token, info) : token \in Tokens, info \in Tokens}

\* The provider answers with claims, or the exchange fails.
Exchange(c) ==
    /\ At(c, "exchange")
    /\ \/ /\ \E claims \in ClaimsOf(call[c].idp) :
               IF claims.sub = None THEN Answer(c, call[c], "refused")
               ELSE Goto(c, [call[c] EXCEPT !.sub = claims.sub, !.claims = claims], "resolve")
          /\ UNCHANGED <<users, links, resets, states, faults>>
       \/ Fault(c)

Identity(c) == <<call[c].idp, call[c].sub>>

\* ResolveOrProvisionUser: the link first, then a verified address, then a new user.
Resolve(c) ==
    /\ At(c, "resolve")
    /\ LET r == [call[c] EXCEPT !.email = links[Identity(c)]] IN
       CASE r.email # None -> Answer(c, r, r.email)
         [] r.email = None /\ ~(r.claims.email # None /\ r.claims.verified) ->
              Answer(c, r, "refused")
         [] OTHER -> Goto(c, [r EXCEPT !.email = r.claims.email], "match")
    /\ UNCHANGED <<users, links, resets, states, faults>>

\* Mutation: only a user that is new is linked.
MatchUnlinked(c) ==
    /\ At(c, "match")
    /\ IF users[call[c].email] # None THEN Answer(c, call[c], call[c].email)
       ELSE Goto(c, call[c], "provision")
    /\ UNCHANGED <<users, links, resets, states, faults>>

MatchEmail(c) ==
    /\ At(c, "match")
    /\ Goto(c, call[c], IF users[call[c].email] # None THEN "link" ELSE "provision")
    /\ UNCHANGED <<users, links, resets, states, faults>>

Provision(c) ==
    /\ At(c, "provision")
    /\ \/ /\ \/ InsertUser(c, "") /\ Goto(c, call[c], "link")
             \/ EmailTaken(c)
          /\ UNCHANGED <<links, resets, states, faults>>
       \/ Fault(c)

\* ExternalIdentities.Create: INSERT, refused by the unique (provider, subject).
CreateLink(c) ==
    /\ At(c, "link")
    /\ \/ /\ IF links[Identity(c)] = None
             THEN /\ links' = [links EXCEPT ![Identity(c)] = call[c].email]
                  /\ Answer(c, call[c], call[c].email)
             ELSE Answer(c, call[c], "error") /\ UNCHANGED links
          /\ UNCHANGED <<users, resets, states, faults>>
       \/ Fault(c)

-----------------------------------------------------------------------------
Next == \E c \in Calls :
          \/ \E e \in Emails : \/ Register(c, e)
                              \/ RequestPasswordReset(c, e)
                              \/ \E p \in Calls \cup {"first"} : LoginWithPassword(c, e, p)
          \/ \E t \in Calls : ConfirmPasswordReset(c, t)
          \/ \E p \in Providers : \/ BeginSSO(c, p)
                                 \/ \E s \in Calls : CompleteSSO(c, s, p)
          \/ CreateAccount(c) \/ DeleteUnusedForUser(c) \/ CreateToken(c)
          \/ UpdatePassword(c) \/ Consume(c)
          \/ Exchange(c) \/ Resolve(c) \/ MatchEmail(c) \/ Provision(c) \/ CreateLink(c)
          \/ ExpireToken(c) \/ ExpireState(c)

Spec == Init /\ [][Next]_vars

-----------------------------------------------------------------------------
Steps == {"idle", "create", "void", "mint", "set", "consume", "exchange", "resolve",
          "match", "provision", "link", "done"}

TypeOK == /\ users \in [Emails -> {None, "first", ""} \cup Calls]
          /\ links \in [Providers \X Subjects -> Emails \cup {None}]
          /\ resets \in [Calls -> [user : Emails, status : {"fresh", "expired", "used"}] \cup {None}]
          /\ states \in [Calls -> Providers \cup {None}]
          /\ \A c \in Calls : call[c].step \in Steps /\ call[c].seen \subseteq Calls
          /\ faults \in 0..MaxFaults

Session(c) == At(c, "done") /\ call[c].reply \in Emails
(* A reset token and an SSO state are each worth one session: of the requests that *)
(* present the same one, however they overlap, at most one is answered with a      *)
(* session (the UPDATE of Consume and the GETDEL of Take decide which).            *)
OneSessionPerProof ==
    \A c, d \in Calls :
        /\ Session(c) /\ Session(d)
        /\ call[c].op = call[d].op /\ call[c].op \in {"confirm", "complete"}
        /\ call[c].proof = call[d].proof
        => c = d

(* Whatever the provider says about its address, a subject is one user: all the   *)
(* sessions it is given are sessions of the user it is linked to, concurrent      *)
(* first logins included.                                                         *)
SubjectIsOneUser ==
    \A c \in Calls :
        Session(c) /\ call[c].op = "complete" => links[Identity(c)] = call[c].reply

(* A token mailed before a later reset request was answered is worth nothing to    *)
(* a confirmation that arrives afterwards, although deleting the old tokens and    *)
(* storing the new one are two statements.                                         *)
LaterRequestVoids ==
    \A c, r \in Calls :
        /\ Session(c) /\ call[c].op = "confirm"
        /\ call[r].op = "request" /\ call[r].email = call[c].email /\ call[r].reply = "ok"
        /\ r \in call[c].seen
        => call[c].proof \notin call[r].seen
===================================================================================
