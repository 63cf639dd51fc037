------------------------------- MODULE Cloud -------------------------------
(***************************************************************************)
(* What one process remembers between its reads of cloud services          *)
(* (cloud/, secrets.rs): the secrets read within SIGNAL_SECRETS_TTL_SECS,  *)
(* the polling session of each AWS AppConfig profile, the last ETag of     *)
(* each Azure App Configuration key and Cosmos DB item, and the Microsoft  *)
(* Entra token of each scope.  All four are process-wide maps behind a     *)
(* lock that is never held across an await, so a read looks in a map, lets *)
(* go of it, waits for a service, and writes the map long afterwards,      *)
(* while other reads (another client, the reloader, an add-on's thread) do *)
(* the same.                                                               *)
(*                                                                         *)
(* An action is what a read does between two awaits.  A request is served  *)
(* at some moment between its start and its reply, and both happen within  *)
(* FETCH_TIMEOUT; the code's own steps take no time.  A text is the source *)
(* property it was read from and the version of the record it was in.      *)
(***************************************************************************)
EXTENDS Integers, Sequences, FiniteSets

CONSTANTS
    Readers,    \* the reads that may be under way at once
    Worlds,     \* what may be read, the TTL, the expires_in values a token
                \* may be granted with, and a bound on the clock:
                \* [sources, ttl, lives, horizon]
    Timeout,    \* FETCH_TIMEOUT
    Margin,     \* the minute by which a token is given up early
    MaxWrites,  \* bound: how often a record is written
    None

ASSUME CloudAssumption ==
    /\ Timeout \in Nat \ {0}
    /\ Margin \in Nat /\ Margin >= 2 * Timeout
    /\ MaxWrites \in Nat \ {0}
    /\ \A w \in Worlds : w.ttl \in Nat /\ w.horizon \in Nat /\ w.lives \subseteq Nat
    /\ None \notin Nat \cup [expires : Nat, life : Nat, until : Nat]

VARIABLES
    world,
    now,        \* Instant::now()
    writes,     \* external: when each version of a record was written
    secrets,    \* secrets.rs cache(): url -> when it was read, and its value
    sessions,   \* aws.rs sessions(): profile -> next token and last text
    etags,      \* azure.rs etags(): request -> ETag and value
    tokens,     \* azure.rs tokens(): scope -> token and when to give it up
    reads,      \* where each read stands
    returned    \* what the last step returned to a caller, if it did

vars == <<world, now, writes, secrets, sessions, etags, tokens, reads, returned>>

Secret == {"aws-sm", "azure-kv"}
Tagged == {"azappconfig", "cosmos"}
Azure  == Tagged \cup {"azure-kv"}

Records == {s.record : s \in world.sources}

\* A read: its source, what it waits for ("login", "open", "poll", "first",
\* "get"), when it began, when its request went out, its bearer token, the
\* cached entry it cloned, and the reply that is on its way.
NoRead ==
    [at |-> "idle", source |-> None, began |-> 0, sent |-> 0, bearer |-> None,
     held |-> None, reply |-> None]

Init ==
    /\ world \in Worlds
    /\ now = 0
    /\ writes \in [Records -> {<<>>, <<0>>}]
    /\ secrets = <<>> /\ sessions = <<>> /\ etags = <<>> /\ tokens = <<>>
    /\ reads = [r \in Readers |-> NoRead]
    /\ returned = None

Known(map, id) == IF id \in DOMAIN map THEN map[id] ELSE None

Insert(map, id, entry) ==
    [i \in DOMAIN map \cup {id} |-> IF i = id THEN entry ELSE map[i]]

Text(s, version) == [field |-> s.field, version |-> version]

----------------------------------------------------------------------------
(* The services, as the code uses them *)

\* Somebody stores a new version: a rotated secret, a deployed configuration.
Write(d) ==
    /\ Len(writes[d]) < MaxWrites
    /\ writes' = [writes EXCEPT ![d] = Append(@, now)]
    /\ returned' = None
    /\ UNCHANGED <<world, now, secrets, sessions, etags, tokens, reads>>

Plain(is) == [is |-> is, version |-> 0, life |-> 0, at |-> 0]

\* A service handles a request: it refuses it (an error status, a lost
\* connection, an expired session), or answers with the record as it is
\* now.  An unchanged record is "same": an empty body for a session that
\* has sent it, a 304 for its ETag.  "bad" is an answer the code cannot use
\* (not UTF-8, no such property), "untagged" one that carries no ETag.
Answers(s, read) ==
    LET version == Len(writes[s.record])
        mark    == IF read.held = None \/ read.at = "login" THEN None
                   ELSE read.held.mark
    IN  {Plain("refused")} \cup
        IF read.at = "login" THEN {[Plain("grant") EXCEPT !.life = l, !.at = now] : l \in world.lives}
        ELSE IF read.at = "open" THEN {Plain("opened")}
        ELSE IF mark = version THEN {[Plain("same") EXCEPT !.version = version]}
        ELSE IF version = 0 THEN {}
        ELSE {Plain("bad")} \cup
             {[Plain(is) EXCEPT !.version = version] : is \in {"full", "untagged"}}

\* A token that has expired by then is refused.
Serve(r) ==
    LET read == reads[r] IN
    /\ read.at # "idle" /\ read.reply = None
    /\ \E answer \in Answers(read.source, read) :
         /\ read.bearer # None /\ now >= read.bearer.expires => answer.is = "refused"
         /\ answer.is = "untagged" => read.source.kind \in Tagged
         /\ reads' = [reads EXCEPT ![r].reply = answer]
    /\ returned' = None
    /\ UNCHANGED <<world, now, writes, secrets, sessions, etags, tokens>>

\* No request outlasts its timeout.
Tick ==
    /\ now < world.horizon
    /\ \A r \in Readers : reads[r].at # "idle" => now < reads[r].sent + Timeout
    /\ now' = now + 1
    /\ returned' = None
    /\ UNCHANGED <<world, writes, secrets, sessions, etags, tokens, reads>>

----------------------------------------------------------------------------
(* The steps of a read *)

Await(read, at) == [read EXCEPT !.at = at, !.sent = now, !.reply = None]

\* The read goes on to wait for its next answer.
Continue(r, read) == reads' = [reads EXCEPT ![r] = read] /\ returned' = None

\* The read is over, with a text or (None) with an error.
Return(r, read, value) ==
    /\ reads' = [reads EXCEPT ![r] = NoRead]
    /\ returned' = IF value = None THEN None
                   ELSE [source |-> read.source, began |-> read.began, value |-> value]

\* The map's key for a request: the URL.  The label of an App Configuration
\* key is in its URL; the property of a Cosmos DB item is not.
EtagId(s) == <<s.kind, s.record>>

\* The request itself.  Only fetch_cosmos looks for an ETag this late.
Get(read, bearer) ==
    [Await(read, "get") EXCEPT
        !.bearer = bearer,
        !.held = IF read.source.kind = "cosmos" THEN Known(etags, EtagId(read.source)) ELSE @]

\* token(): the cached one while it is usable, else a login.
Usable(token) == token # None /\ now < token.until

WithToken(read) ==
    LET token == Known(tokens, read.source.kind) IN
    IF read.source.kind \notin Azure THEN Get(read, None)
    ELSE IF Usable(token) THEN Get(read, token)
    ELSE Await(read, "login")

RecentAlways(secret) == secret # None

\* at.elapsed() < ttl
Recent(secret) == secret # None /\ now - secret.at < world.ttl

\* A read begins: it looks in its map and starts its first request.
Begin(r) ==
    /\ reads[r].at = "idle"
    /\ \E s \in world.sources :
         LET read   == [NoRead EXCEPT !.source = s, !.began = now]
             secret == Known(secrets, s.record)
             first  == IF s.kind # "appconfig" THEN WithToken([read EXCEPT !.held =
                              IF s.kind = "azappconfig" THEN Known(etags, EtagId(s)) ELSE @])
                       ELSE IF Known(sessions, s.record) = None THEN Await(read, "open")
                       ELSE [Await(read, "poll") EXCEPT !.held = sessions[s.record]]
         IN  IF s.kind \in Secret /\ Recent(secret)
             THEN Return(r, read, secret.value)
             ELSE Continue(r, first)
    /\ UNCHANGED <<world, now, writes, secrets, sessions, etags, tokens>>

Bad(reply) == reply.is \in {"refused", "bad"}

\* expires_in.saturating_sub(60)
KeptForWhole(life) == life

KeptFor(life) == IF life > Margin THEN life - Margin ELSE 0

\* The rest of token(): its lifetime is counted from the reply.
LoggedIn(r) ==
    LET read  == reads[r]
        reply == read.reply
        token == [expires |-> reply.at + reply.life, life |-> reply.life,
                  until |-> now + KeptFor(reply.life)]
    IN  /\ read.at = "login" /\ reply # None
        /\ IF Bad(reply)
           THEN /\ Return(r, read, None)
                /\ UNCHANGED tokens
           ELSE /\ tokens' = Insert(tokens, read.source.kind, token)
                /\ Continue(r, Get(read, token))
        /\ UNCHANGED <<world, now, writes, secrets, sessions, etags>>

\* The rest of cached_read.
GotSecret(r) ==
    LET read  == reads[r]
        value == Text(read.source, read.reply.version)
    IN  /\ read.at = "get" /\ read.reply # None /\ read.source.kind \in Secret
        /\ IF Bad(read.reply)
           THEN /\ Return(r, read, None)
                /\ UNCHANGED secrets
           ELSE /\ Return(r, read, value)
                /\ secrets' = IF world.ttl = 0 THEN secrets
                              ELSE Insert(secrets, read.source.record, [at |-> now, value |-> value])
        /\ UNCHANGED <<world, now, writes, sessions, etags, tokens>>

EtagEntryShared(read, value) ==
    [mark |-> read.reply.version,
     value |-> IF Known(etags, EtagId(read.source)) = None THEN value
               ELSE etags[EtagId(read.source)].value]

EtagEntry(read, value) == [mark |-> read.reply.version, value |-> value]

\* The rest of fetch_app_config and fetch_cosmos.
GotTagged(r) ==
    LET read  == reads[r]
        reply == read.reply
        value == Text(read.source, reply.version)
    IN  /\ read.at = "get" /\ reply # None /\ read.source.kind \in Tagged
        /\ Return(r, read, CASE Bad(reply)        -> None
                              [] reply.is = "same" -> read.held.value
                              [] OTHER             -> value)
        /\ etags' = IF reply.is = "full"
                    THEN Insert(etags, EtagId(read.source), EtagEntry(read, value)) ELSE etags
        /\ UNCHANGED <<world, now, writes, secrets, sessions, tokens>>

\* The rest of a read that remembers nothing: objects, DynamoDB, Firestore.
GotPlain(r) ==
    LET read == reads[r] IN
    /\ read.at = "get" /\ read.reply # None
    /\ read.source.kind \notin Secret \cup Tagged
    /\ Return(r, read, IF Bad(read.reply) THEN None ELSE Text(read.source, read.reply.version))
    /\ UNCHANGED <<world, now, writes, secrets, sessions, etags, tokens>>

\* An AppConfig session is open; its first token has sent nothing yet.
Opened(r) ==
    LET read == reads[r] IN
    /\ read.at = "open" /\ read.reply # None
    /\ IF Bad(read.reply) THEN Return(r, read, None)
       ELSE Continue(r, [Await(read, "first") EXCEPT !.held = [mark |-> 0, value |-> None]])
    /\ UNCHANGED <<world, now, writes, secrets, sessions, etags, tokens>>

RememberTextKept(read, text) ==
    [mark |-> read.reply.version,
     value |-> IF Known(sessions, read.source.record) = None THEN text
               ELSE sessions[read.source.record].value]

Remember(read, text) == [mark |-> read.reply.version, value |-> text]

\* latest() has answered.  A refused poll of a remembered session starts a
\* new one; an empty first answer means nothing is deployed.
Polled(r) ==
    LET read  == reads[r]
        reply == read.reply
        text  == IF reply.is = "same" THEN read.held.value ELSE Text(read.source, reply.version)
        good  == ~Bad(reply) /\ (read.at = "poll" \/ reply.is # "same")
    IN  /\ read.at \in {"poll", "first"} /\ reply # None
        /\ IF read.at = "poll" /\ reply.is = "refused"
           THEN Continue(r, Await(read, "open"))
           ELSE Return(r, read, IF good THEN text ELSE None)
        /\ sessions' = IF good
                       THEN Insert(sessions, read.source.record, Remember(read, text))
                       ELSE sessions
        /\ UNCHANGED <<world, now, writes, secrets, etags, tokens>>

Next ==
    \/ Tick
    \/ \E d \in Records : Write(d)
    \/ \E r \in Readers :
         \/ Begin(r) \/ Serve(r) \/ LoggedIn(r) \/ GotSecret(r) \/ GotTagged(r)
         \/ GotPlain(r) \/ Opened(r) \/ Polled(r)

Spec == Init /\ [][Next]_vars

----------------------------------------------------------------------------
(* Properties *)

Times == 0 .. world.horizon
Marks == 0 .. MaxWrites
Texts == [field : {s.field : s \in world.sources}, version : Marks]

\* Every map and every read keeps its shape: an entry is only ever written
\* with what a service sent, and a read waits only for what its kind of
\* source asks for (the maps of secrets.rs, aws.rs and azure.rs).
TypeOK ==
    /\ now \in Times
    /\ \A d \in Records : Len(writes[d]) \in Marks /\ \A i \in DOMAIN writes[d] : writes[d][i] \in Times
    /\ \A d \in DOMAIN secrets : secrets[d].at \in Times /\ secrets[d].value \in Texts
    /\ \A d \in DOMAIN sessions : sessions[d].mark \in Marks /\ sessions[d].value \in Texts
    /\ \A i \in DOMAIN etags : etags[i].mark \in Marks /\ etags[i].value \in Texts
    /\ \A k \in DOMAIN tokens : k \in Azure /\ tokens[k].life \in world.lives
    /\ \A r \in Readers :
         LET read == reads[r] IN
         /\ read.sent \in Times /\ read.began <= read.sent
         /\ read.at = "login" => read.source.kind \in Azure
         /\ read.at \in {"open", "poll", "first"} => read.source.kind = "appconfig"
         /\ read.at = "get" => (read.bearer # None <=> read.source.kind \in Azure)

\* The version was the record's current one at t, or later.
CurrentSince(d, version, t) ==
    /\ version \in 1 .. Len(writes[d])
    /\ version < Len(writes[d]) => writes[d][version + 1] >= t

\* A rotated secret takes effect within the TTL and one request: whoever
\* wrote the cache last, and however late (secrets.rs cached_read stamps
\* an entry when its reply arrives), a secret is never returned that was
\* replaced more than ttl + FETCH_TIMEOUT ago.
SecretIsFresh ==
    (returned # None /\ returned.source.kind \in Secret) =>
      CurrentSince(returned.source.record, returned.value.version, now - world.ttl - Timeout)

\* A remembered copy is never staler than a download: a configuration
\* returned for an empty poll or a 304 was the stored one at some moment
\* of this very read, whatever other reads did to the session or the ETag
\* between the lookup and the reply (fetch_appconfig, fetch_app_config,
\* fetch_cosmos).  To that end a mark and its text are remembered as one:
\* the text beside a session's next token or an ETag is the one the service
\* had sent when it issued that mark (aws.rs remember, the inserts of
\* azure.rs), in maps of the right types.
ReadIsCurrent ==
    /\ TypeOK
    /\ \A d \in DOMAIN sessions : sessions[d].mark = sessions[d].value.version
    /\ \A i \in DOMAIN etags : etags[i].mark = etags[i].value.version
    /\ (returned # None /\ returned.source.kind \notin Secret) =>
          CurrentSince(returned.source.record, returned.value.version, returned.began)

\* "Refresh a minute early so a token never expires mid-request"
\* (azure.rs:84): no request is under way with an expired token, if the
\* token was granted for longer than a login and a request may take.
TokenOutlivesRequest ==
    \A r \in Readers :
      LET read == reads[r] IN
      (read.at = "get" /\ read.bearer # None /\ read.reply = None
         /\ read.bearer.life > 2 * Timeout) => now < read.bearer.expires
=============================================================================
