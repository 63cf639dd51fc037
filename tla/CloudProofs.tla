---------------------------- MODULE CloudProofs ----------------------------
(***************************************************************************)
(* What the cloud fetchers remember is true, for any number of reads,      *)
(* sources and writes, and every timeout, TTL and lifetime of a token.     *)
(*                                                                         *)
(* The inductive invariant is IInv: what a map may hold (SecretOK, EntryOK,*)
(* TokenOK), what a read that is under way has in its hands (UnderWay) and *)
(* what its answer may be (ReplyOK), whenever the reads of other sources   *)
(* or of the same one write the maps in between.  Its core is Current,     *)
(* which a write cannot take away (StaysCurrent): an answer carries a      *)
(* version that was the record's own after the request went out.           *)
(*                                                                         *)
(* The parts say what they need of the state by parameters: w is the       *)
(* world, n the clock, and h the writes of each record.                    *)
(***************************************************************************)
EXTENDS Cloud, TLAPS

Tokens == [expires : Nat, life : Nat, until : Nat]
TextSet(w) == [field : {s.field : s \in w.sources}, version : Marks]
Entries(w) == [mark : Nat, value : TextSet(w)]
Replies == [is : {"refused", "bad", "full", "untagged", "same", "grant", "opened"},
            version : Nat, life : Nat, at : Nat]
ReadSet(w) ==
    [at : {"idle", "login", "open", "poll", "first", "get"}, source : w.sources \cup {None},
     began : Nat, sent : Nat, bearer : Tokens \cup {None},
     held : Entries(w) \cup {None, [mark |-> 0, value |-> None]}, reply : Replies \cup {None}]

(* CurrentSince of an h that may be old or new.                            *)
Current(h, d, version, t) ==
    /\ version \in 1 .. Len(h[d])
    /\ version < Len(h[d]) => h[d][version + 1] >= t

(* A mark and its text, of a version that was written.                     *)
EntryOK(w, h, d, e) ==
    e \in Entries(w) /\ e.mark = e.value.version /\ e.mark \in 1 .. Len(h[d])

SecretOK(w, n, h, d, e) ==
    /\ e \in [at : Nat, value : TextSet(w)] /\ e.at <= n
    /\ Current(h, d, e.value.version, e.at - Timeout)

(* A token that lives long enough is given up a request before it expires. *)
TokenOK(w, n, k, token) ==
    /\ k \in Azure /\ token \in Tokens /\ token.life \in w.lives
    /\ token.life > 2 * Timeout => token.until <= n \/ token.until + Timeout <= token.expires

ReplyOK(w, n, h, x) ==
    /\ x.at = "login" =>
         /\ x.reply.is \in {"refused", "grant"}
         /\ x.reply.is = "grant" =>
              x.reply.life \in w.lives /\ x.sent <= x.reply.at /\ x.reply.at <= n
    /\ x.at = "open" => x.reply.is \in {"refused", "opened"}
    /\ x.at \in {"poll", "first", "get"} =>
         /\ x.reply.is \in {"refused", "bad", "full", "untagged", "same"}
         /\ x.reply.is = "untagged" => x.source.kind \in Tagged
         /\ x.reply.is \in {"full", "untagged"} =>
              Current(h, x.source.record, x.reply.version, x.sent)
         /\ x.reply.is = "same" =>
              /\ x.held # None /\ x.reply.version = x.held.mark
              /\ x.at # "first" => Current(h, x.source.record, x.reply.version, x.sent)

BearerOK(x) ==
    /\ x.source.kind # "appconfig"
    /\ x.bearer # None <=> x.source.kind \in Azure
    /\ x.bearer # None /\ x.bearer.life > 2 * Timeout => x.sent + Timeout < x.bearer.expires

HeldOK(w, h, x) ==
    /\ x.at = "poll" => EntryOK(w, h, x.source.record, x.held)
    /\ x.at \in {"login", "get"} /\ x.held # None =>
         x.source.kind \in Tagged /\ EntryOK(w, h, x.source.record, x.held)

UnderWay(w, n, h, x) ==
    /\ x.source \in w.sources
    /\ n <= x.sent + Timeout
    /\ x.at = "login" => x.source.kind \in Azure
    /\ x.at \in {"open", "poll", "first"} => x.source.kind = "appconfig"
    /\ x.at = "get" => BearerOK(x)
    /\ HeldOK(w, h, x)
    /\ x.reply # None => ReplyOK(w, n, h, x)

ReadOK(w, n, h, x) ==
    /\ x \in ReadSet(w)
    /\ x.began <= x.sent /\ x.sent <= n
    /\ x.at # "idle" => UnderWay(w, n, h, x)

Clock ==
    /\ world \in Worlds
    /\ now \in Times
    /\ writes \in [Records -> Seq(Times)]
    /\ \A d \in Records : Len(writes[d]) \in Marks /\ \A i \in DOMAIN writes[d] : writes[d][i] <= now

Remembered ==
    /\ \A d \in DOMAIN secrets : d \in Records /\ SecretOK(world, now, writes, d, secrets[d])
    /\ \A d \in DOMAIN sessions : d \in Records /\ EntryOK(world, writes, d, sessions[d])
    /\ \A i \in DOMAIN etags : i[2] \in Records /\ EntryOK(world, writes, i[2], etags[i])
    /\ \A k \in DOMAIN tokens : TokenOK(world, now, k, tokens[k])

Reading ==
    /\ reads \in [Readers -> ReadSet(world)]
    /\ \A r \in Readers : ReadOK(world, now, writes, reads[r])

(* An answer is as fresh as its kind of source promises.                   *)
AnswerOK(w, n, h, answer) ==
    answer # None =>
      /\ answer.source.kind \in Secret =>
           Current(h, answer.source.record, answer.value.version, n - w.ttl - Timeout)
      /\ answer.source.kind \notin Secret =>
           Current(h, answer.source.record, answer.value.version, answer.began)

IInv == Clock /\ Remembered /\ Reading /\ AnswerOK(world, now, writes, returned)

-----------------------------------------------------------------------------

(* A write cannot make a version out of date for a time that has been.     *)
LEMMA StaysCurrent ==
    ASSUME Clock, NEW e \in Records, Write(e), NEW d \in Records, NEW v, NEW t \in Int, t <= now,
           Current(writes, d, v, t)
    PROVE  Current(writes', d, v, t)
    <1>1. writes' = [writes EXCEPT ![e] = Append(@, now)] /\ writes[d] \in Seq(Times) /\ now \in Times
      BY DEF Write, Clock
    <1>2. CASE d # e
      BY <1>1, <1>2 DEF Current, Clock
    <1>3. CASE d = e
      <2>1. writes'[d] = Append(writes[d], now)
        BY <1>1, <1>3 DEF Clock
      <2>2. /\ Len(writes'[d]) = Len(writes[d]) + 1 /\ Len(writes[d]) \in Nat
            /\ writes'[d][Len(writes[d]) + 1] = now
            /\ \A i \in 1 .. Len(writes[d]) : writes'[d][i] = writes[d][i]
        BY <1>1, <2>1
      <2> QED
        BY <2>2, SMTT(40) DEF Current
    <1> QED
      BY <1>2, <1>3

LEMMA WrittenAt ==
    ASSUME Clock, NEW d \in Records, NEW i \in 1 .. Len(writes[d])
    PROVE  writes[d][i] \in Nat /\ writes[d][i] <= now
    <1>1. writes[d] \in Seq(Times) /\ Times \subseteq Nat
      BY DEF Clock, Times
    <1>2. DOMAIN writes[d] = 1 .. Len(writes[d])
      BY <1>1
    <1>3. writes[d][i] \in Times
      BY <1>1
    <1>4. writes[d][i] <= now
      BY <1>2 DEF Clock
    <1> QED
      BY <1>1, <1>3, <1>4

(* What was current after a time was so after an earlier one.              *)
LEMMA CurrentEarlier ==
    ASSUME Clock, NEW d \in Records, NEW v, NEW t \in Int, NEW u \in Int, u <= t,
           Current(writes, d, v, t)
    PROVE  Current(writes, d, v, u)
    <1>1. v \in 1 .. Len(writes[d]) /\ Len(writes[d]) \in Nat
      BY DEF Current, Clock, Marks
    <1>2. ASSUME v < Len(writes[d]) PROVE writes[d][v + 1] \in Nat /\ writes[d][v + 1] >= t
      BY <1>1, <1>2, WrittenAt DEF Current
    <1> QED
      BY <1>1, <1>2 DEF Current

(* A map with one more entry holds what it held, and that entry.           *)
LEMMA Inserted ==
    ASSUME NEW map, NEW id, NEW entry
    PROVE  /\ DOMAIN Insert(map, id, entry) = DOMAIN map \cup {id}
           /\ \A i \in DOMAIN map \cup {id} :
                Insert(map, id, entry)[i] = IF i = id THEN entry ELSE map[i]
    BY DEF Insert

LEMMA Numbers ==
    ASSUME Clock
    PROVE  /\ now \in Nat /\ Timeout \in Nat /\ Timeout >= 1 /\ Margin \in Nat /\ Margin >= 2 * Timeout
           /\ world.ttl \in Nat /\ world.horizon \in Nat /\ world.lives \subseteq Nat
           /\ MaxWrites \in Nat /\ MaxWrites >= 1 /\ now <= world.horizon
           /\ None \notin Nat /\ None \notin Tokens
           /\ \A d \in Records : Len(writes[d]) \in Nat
    BY CloudAssumption DEF Clock, Times, Marks, Tokens

LEMMA InitInv == Init => IInv
    <1> SUFFICES ASSUME Init PROVE IInv
      OBVIOUS
    <1>1. world \in Worlds /\ world.horizon \in Nat /\ now = 0 /\ MaxWrites \in Nat /\ MaxWrites >= 1
      BY CloudAssumption DEF Init
    <1>2. Clock
      <2>1. now \in Times /\ {<<>>, <<0>>} \subseteq Seq(Times)
        BY <1>1 DEF Times
      <2>2. writes \in [Records -> Seq(Times)]
        BY <2>1 DEF Init
      <2>3. ASSUME NEW d \in Records
            PROVE  Len(writes[d]) \in Marks /\ \A i \in DOMAIN writes[d] : writes[d][i] <= now
        <3>1. writes[d] = <<>> \/ writes[d] = <<0>>
          BY DEF Init
        <3>2. CASE writes[d] = <<>>
          BY <1>1, <3>2 DEF Marks
        <3>3. CASE writes[d] = <<0>>
          <4>1. Len(writes[d]) = 1 /\ DOMAIN writes[d] = {1} /\ writes[d][1] = 0
            BY <3>3
          <4> QED
            BY <1>1, <4>1 DEF Marks
        <3> QED
          BY <3>1, <3>2, <3>3
      <2> QED
        BY <1>1, <2>1, <2>2, <2>3 DEF Clock
    <1>3. Remembered
      BY DEF Init, Remembered
    <1>4. Reading
      <2>1. NoRead \in ReadSet(world)
        BY DEF NoRead, ReadSet
      <2> QED
        BY <1>1, <2>1 DEF Init, Reading, ReadOK, NoRead
    <1>5. AnswerOK(world, now, writes, returned)
      BY DEF Init, AnswerOK
    <1> QED
      BY <1>2, <1>3, <1>4, <1>5 DEF IInv

-----------------------------------------------------------------------------

(* A read that goes on, or is over, leaves the others alone.               *)
LEMMA OneRead ==
    ASSUME Clock, Reading, UNCHANGED <<world, now, writes>>, NEW r \in Readers, NEW x,
           ReadOK(world, now, writes, x), reads' = [reads EXCEPT ![r] = x]
    PROVE  Clock' /\ Reading'
    <1>1. Clock'
      <2>1. Times' = Times /\ Records' = Records
        BY DEF Times, Records
      <2> QED
        BY <2>1 DEF Clock, Marks
    <1>2. x \in ReadSet(world)
      BY DEF ReadOK
    <1>3. reads' \in [Readers -> ReadSet(world')] /\ \A q \in Readers : reads'[q] = IF q = r THEN x ELSE reads[q]
      BY <1>2 DEF Reading
    <1>4. Reading'
      BY <1>3 DEF Reading
    <1> QED
      BY <1>1, <1>4

LEMMA NoReadOK == ASSUME Clock PROVE ReadOK(world, now, writes, NoRead)
    <1>1. NoRead \in ReadSet(world)
      BY DEF NoRead, ReadSet
    <1> QED
      BY <1>1, Numbers DEF ReadOK, NoRead

LEMMA Awaits ==
    ASSUME Clock, NEW x \in ReadSet(world), NEW at \in {"login", "open", "poll", "first", "get"}
    PROVE  LET y == Await(x, at) IN
           /\ y \in ReadSet(world) /\ y.at = at /\ y.sent = now /\ y.reply = None
           /\ y.source = x.source /\ y.began = x.began /\ y.bearer = x.bearer /\ y.held = x.held
    <1>1. now \in Nat
      BY Numbers
    <1> QED
      BY <1>1 DEF Await, ReadSet

(* What a map remembers for a source is an entry of its record.            *)
LEMMA EtagOK ==
    ASSUME Remembered, NEW s, Known(etags, EtagId(s)) # None
    PROVE  s.record \in Records /\ EntryOK(world, writes, s.record, Known(etags, EtagId(s)))
    <1>1. EtagId(s) \in DOMAIN etags /\ Known(etags, EtagId(s)) = etags[EtagId(s)]
      BY DEF Known
    <1>2. EtagId(s)[2] = s.record
      BY DEF EtagId
    <1> QED
      BY <1>1, <1>2 DEF Remembered

HeldFits(x) ==
    x.held # None => x.source.kind \in Tagged /\ EntryOK(world, writes, x.source.record, x.held)

LEMMA GetOK ==
    ASSUME Clock, Remembered, NEW x \in ReadSet(world), x.source \in world.sources,
           x.source.kind # "appconfig", x.began <= now, HeldFits(x),
           NEW bearer \in Tokens \cup {None}, bearer # None <=> x.source.kind \in Azure,
           bearer # None /\ bearer.life > 2 * Timeout => now + Timeout < bearer.expires
    PROVE  ReadOK(world, now, writes, Get(x, bearer))
    <1> DEFINE y == Await(x, "get")
               held == IF y.source.kind = "cosmos" THEN Known(etags, EtagId(y.source)) ELSE y.held
               z == [y EXCEPT !.bearer = bearer, !.held = held]
    <1>1. /\ y \in ReadSet(world) /\ y.at = "get" /\ y.sent = now /\ y.reply = None
          /\ y.source = x.source /\ y.began = x.began /\ y.held = x.held
      BY Awaits
    <1>2. Get(x, bearer) = z
      BY <1>1 DEF Get
    <1> HIDE DEF y
    <1>3. held # None => x.source.kind \in Tagged /\ EntryOK(world, writes, x.source.record, held)
      BY <1>1, EtagOK DEF HeldFits, Tagged
    <1>4. held \in Entries(world) \cup {None}
      BY <1>3 DEF EntryOK
    <1> HIDE DEF held
    <1>5. /\ z \in ReadSet(world) /\ z.at = "get" /\ z.sent = now /\ z.reply = None
          /\ z.source = x.source /\ z.began = x.began /\ z.held = held /\ z.bearer = bearer
      BY <1>1, <1>4 DEF ReadSet
    <1> HIDE DEF z
    <1>6. now \in Nat /\ now <= now /\ now <= now + Timeout
      BY Numbers
    <1>7. BearerOK(z) /\ HeldOK(world, writes, z)
      BY <1>3, <1>5 DEF BearerOK, HeldOK
    <1>8. ReadOK(world, now, writes, z)
      BY <1>5, <1>6, <1>7 DEF ReadOK, UnderWay
    <1> QED
      BY <1>2, <1>8

(* A token that is usable outlives a request that starts now.              *)
LEMMA UsableOutlives ==
    ASSUME Clock, Remembered, NEW k \in DOMAIN tokens, Usable(tokens[k])
    PROVE  /\ tokens[k] \in Tokens /\ k \in Azure
           /\ tokens[k].life > 2 * Timeout => now + Timeout < tokens[k].expires
    <1>1. TokenOK(world, now, k, tokens[k]) /\ now < tokens[k].until
      BY DEF Remembered, Usable
    <1>2. /\ tokens[k] \in Tokens /\ tokens[k].until \in Nat /\ tokens[k].expires \in Nat
          /\ tokens[k].life \in Nat
      BY <1>1 DEF TokenOK, Tokens
    <1> QED
      BY <1>1, <1>2, Numbers DEF TokenOK

LEMMA WithTokenOK ==
    ASSUME Clock, Remembered, NEW x \in ReadSet(world), x.source \in world.sources,
           x.source.kind # "appconfig", x.began <= now, HeldFits(x)
    PROVE  ReadOK(world, now, writes, WithToken(x))
    <1> DEFINE k == x.source.kind
               token == Known(tokens, k)
    <1>1. CASE k \notin Azure
      <2>1. ReadOK(world, now, writes, Get(x, None))
        BY <1>1, GetOK
      <2> QED
        BY <1>1, <2>1 DEF WithToken
    <1>2. CASE k \in Azure /\ Usable(token)
      <2>1. k \in DOMAIN tokens /\ token = tokens[k] /\ token # None
        BY <1>2 DEF Usable, Known
      <2>2. token \in Tokens /\ (token.life > 2 * Timeout => now + Timeout < token.expires)
        BY <1>2, <2>1, UsableOutlives
      <2> HIDE DEF token
      <2>3. ReadOK(world, now, writes, Get(x, token))
        BY <1>2, <2>1, <2>2, GetOK
      <2> QED
        BY <1>2, <2>3 DEF WithToken, token
    <1>3. CASE k \in Azure /\ ~Usable(token)
      <2> DEFINE y == Await(x, "login")
      <2>1. /\ y \in ReadSet(world) /\ y.at = "login" /\ y.sent = now /\ y.reply = None
            /\ y.source = x.source /\ y.began = x.began /\ y.held = x.held
        BY Awaits
      <2>2. WithToken(x) = y
        BY <1>3 DEF WithToken
      <2> HIDE DEF y
      <2>3. HeldOK(world, writes, y)
        BY <2>1 DEF HeldFits, HeldOK
      <2>4. now \in Nat /\ now <= now /\ now <= now + Timeout
        BY Numbers
      <2>5. ReadOK(world, now, writes, y)
        BY <1>3, <2>1, <2>3, <2>4 DEF ReadOK, UnderWay
      <2> QED
        BY <2>2, <2>5
    <1> QED
      BY <1>1, <1>2, <1>3

(* Without a write or a tick, what is remembered stays so.                 *)
LEMMA SameMaps ==
    ASSUME Remembered, UNCHANGED <<world, now, writes, secrets, sessions, etags, tokens>>
    PROVE  Remembered'
    <1>1. Records' = Records
      BY DEF Records
    <1> QED
      BY <1>1 DEF Remembered

Started(s) == [NoRead EXCEPT !.source = s, !.began = now]
StartedHolding(s) ==
    [Started(s) EXCEPT !.held = IF s.kind = "azappconfig" THEN Known(etags, EtagId(s)) ELSE @]

LEMMA StartedOK ==
    ASSUME Clock, NEW s \in world.sources
    PROVE  LET x == Started(s) IN
           /\ x \in ReadSet(world) /\ x.source = s /\ x.began = now /\ x.held = None
           /\ \A e \in Entries(world) : LET y == [x EXCEPT !.held = e] IN
                y \in ReadSet(world) /\ y.source = s /\ y.began = now /\ y.held = e
    <1>1. now \in Nat
      BY Numbers
    <1> QED
      BY <1>1 DEF NoRead, ReadSet, Started

LEMMA BeginStep == ASSUME IInv, NEW r \in Readers, Begin(r) PROVE IInv'
    <1> USE DEF IInv
    <1>0. /\ reads[r].at = "idle"
          /\ UNCHANGED <<world, now, writes, secrets, sessions, etags, tokens>>
      BY DEF Begin
    <1>1. Remembered'
      BY <1>0, SameMaps
    <1>2. PICK s \in world.sources :
            LET x == Started(s)
                secret == Known(secrets, s.record)
                first == IF s.kind # "appconfig" THEN WithToken(StartedHolding(s))
                         ELSE IF Known(sessions, s.record) = None THEN Await(x, "open")
                         ELSE [Await(x, "poll") EXCEPT !.held = sessions[s.record]]
            IN  IF s.kind \in Secret /\ Recent(secret)
                THEN Return(r, x, secret.value)
                ELSE Continue(r, first)
      BY DEF Begin, Started, StartedHolding
    <1> DEFINE x == Started(s)
               secret == Known(secrets, s.record)
    <1>3. x \in ReadSet(world) /\ x.source = s /\ x.began = now /\ x.held = None
      BY StartedOK
    <1>4. CASE s.kind \in Secret /\ Recent(secret)
      <2>1. Return(r, x, secret.value)
        BY <1>2, <1>4
      <2>2. s.record \in DOMAIN secrets /\ secret = secrets[s.record]
        BY <1>4 DEF Recent, Known
      <2>3. SecretOK(world, now, writes, s.record, secret) /\ now - secret.at < world.ttl
        BY <1>4, <2>2 DEF Remembered, Recent
      <2>4. secret.at \in Nat
        BY <2>3 DEF SecretOK
      <2>5. s.record \in Records
        BY <2>2 DEF Remembered
      <2>6. Current(writes, s.record, secret.value.version, now - world.ttl - Timeout)
        <3>1. Current(writes, s.record, secret.value.version, secret.at - Timeout)
          BY <2>3 DEF SecretOK
        <3>2. /\ secret.at - Timeout \in Int /\ now - world.ttl - Timeout \in Int
              /\ now - world.ttl - Timeout <= secret.at - Timeout
          BY <2>3, <2>4, Numbers, SMTT(40)
        <3> QED
          BY <2>5, <3>1, <3>2, CurrentEarlier
      <2> HIDE DEF x, secret
      <2>7. AnswerOK(world, now, writes, returned')
        BY <1>3, <1>4, <2>1, <2>6 DEF Return, AnswerOK
      <2>8. reads' = [reads EXCEPT ![r] = NoRead]
        BY <2>1 DEF Return
      <2> QED
        BY <1>0, <1>1, <2>7, <2>8, NoReadOK, OneRead
    <1>5. ASSUME NEW y, ReadOK(world, now, writes, y), Continue(r, y) PROVE IInv'
      <2>1. returned' = None /\ reads' = [reads EXCEPT ![r] = y]
        BY <1>5 DEF Continue
      <2> QED
        BY <1>0, <1>1, <1>5, <2>1, OneRead DEF AnswerOK
    <1>6. CASE ~(s.kind \in Secret /\ Recent(secret)) /\ s.kind # "appconfig"
      <2> DEFINE held == IF s.kind = "azappconfig" THEN Known(etags, EtagId(s)) ELSE x.held
                 y == StartedHolding(s)
      <2>1. Continue(r, WithToken(y))
        BY <1>2, <1>6
      <2>2. held # None => s.kind \in Tagged /\ EntryOK(world, writes, s.record, held)
        BY <1>3, EtagOK DEF Tagged
      <2>3. y \in ReadSet(world) /\ y.source = s /\ y.began = now /\ y.held = held
        <3>1. held \in Entries(world) \cup {None}
          BY <2>2 DEF EntryOK
        <3> HIDE DEF x
        <3>2. y = [x EXCEPT !.held = held]
          BY DEF StartedHolding, x
        <3> HIDE DEF held, y
        <3> QED
          BY <1>3, <3>1, <3>2 DEF ReadSet
      <2> HIDE DEF x, y, held
      <2>4. HeldFits(y) /\ now <= now
        BY <2>2, <2>3, Numbers DEF HeldFits
      <2>5. ReadOK(world, now, writes, WithToken(y))
        BY <1>6, <2>3, <2>4, WithTokenOK
      <2> QED
        BY <1>5, <2>1, <2>5
    <1>7. CASE s.kind = "appconfig" /\ Known(sessions, s.record) = None
      <2> DEFINE y == Await(x, "open")
      <2>1. Continue(r, y)
        BY <1>2, <1>7 DEF Secret
      <2>2. /\ y \in ReadSet(world) /\ y.at = "open" /\ y.sent = now /\ y.reply = None
            /\ y.source = s /\ y.began = now
        BY <1>3, Awaits
      <2> HIDE DEF x, y
      <2>3. now \in Nat /\ now <= now /\ now <= now + Timeout
        BY Numbers
      <2>4. ReadOK(world, now, writes, y)
        BY <1>7, <2>2, <2>3 DEF ReadOK, UnderWay, HeldOK
      <2> QED
        BY <1>5, <2>1, <2>4
    <1>8. CASE s.kind = "appconfig" /\ Known(sessions, s.record) # None
      <2> DEFINE a == Await(x, "poll")
                 y == [a EXCEPT !.held = sessions[s.record]]
      <2>1. Continue(r, y)
        BY <1>2, <1>8 DEF Secret
      <2>2. EntryOK(world, writes, s.record, sessions[s.record])
        BY <1>8 DEF Known, Remembered
      <2>3. /\ a \in ReadSet(world) /\ a.at = "poll" /\ a.sent = now /\ a.reply = None
            /\ a.source = s /\ a.began = now
        BY <1>3, Awaits
      <2> HIDE DEF x, a
      <2>4. /\ y \in ReadSet(world) /\ y.at = "poll" /\ y.sent = now /\ y.reply = None
            /\ y.source = s /\ y.began = now /\ y.held = sessions[s.record]
        BY <2>2, <2>3 DEF ReadSet, EntryOK
      <2> HIDE DEF y
      <2>5. now \in Nat /\ now <= now /\ now <= now + Timeout
        BY Numbers
      <2>6. ReadOK(world, now, writes, y)
        BY <1>8, <2>2, <2>4, <2>5 DEF ReadOK, UnderWay, HeldOK
      <2> QED
        BY <1>5, <2>1, <2>6
    <1> QED
      BY <1>4, <1>6, <1>7, <1>8

(* What a service may answer to a request that waits.                      *)
LEMMA Answered ==
    ASSUME Clock, NEW x \in ReadSet(world), x.source \in world.sources, x.at # "idle",
           NEW answer \in Answers(x.source, x)
    PROVE  LET version == Len(writes[x.source.record]) IN
           \/ answer = Plain("refused")
           \/ x.at = "login" /\ answer.is = "grant" /\ answer.life \in world.lives /\ answer.at = now
              /\ answer.version = 0 /\ answer \in Replies
           \/ x.at = "open" /\ answer = Plain("opened")
           \/ /\ x.at \in {"poll", "first", "get"} /\ answer.is = "same" /\ answer \in Replies
              /\ answer.version = version /\ x.held # None /\ x.held.mark = version
           \/ x.at \in {"poll", "first", "get"} /\ answer = Plain("bad")
           \/ /\ x.at \in {"poll", "first", "get"} /\ answer.is \in {"full", "untagged"}
              /\ answer \in Replies /\ answer.version = version /\ version # 0
    <1> DEFINE version == Len(writes[x.source.record])
               mark == IF x.held = None \/ x.at = "login" THEN None ELSE x.held.mark
    <1>1. x.source.record \in Records /\ version \in Nat /\ None \notin Nat /\ now \in Nat
          /\ world.lives \subseteq Nat
      BY Numbers DEF Records
    <1>2. x.at \in {"login", "open", "poll", "first", "get"}
      BY DEF ReadSet
    <1>3. \/ answer = Plain("refused")
          \/ x.at = "login" /\ \E l \in world.lives :
                answer = [Plain("grant") EXCEPT !.life = l, !.at = now]
          \/ x.at = "open" /\ answer = Plain("opened")
          \/ /\ x.at \notin {"login", "open"}
             /\ mark = version /\ answer = [Plain("same") EXCEPT !.version = version]
          \/ /\ x.at \notin {"login", "open"} /\ version # 0
             /\ answer = Plain("bad") \/ \E is \in {"full", "untagged"} :
                                            answer = [Plain(is) EXCEPT !.version = version]
      BY DEF Answers
    <1> HIDE DEF version
    <1>4. CASE x.at = "login" /\ \E l \in world.lives :
                answer = [Plain("grant") EXCEPT !.life = l, !.at = now]
      <2>1. PICK l \in world.lives : answer = [is |-> "grant", version |-> 0, life |-> l, at |-> now]
        BY <1>4 DEF Plain
      <2> QED
        BY <1>1, <1>4, <2>1 DEF Replies
    <1>5. CASE /\ x.at \notin {"login", "open"}
               /\ mark = version /\ answer = [Plain("same") EXCEPT !.version = version]
      <2>1. answer = [is |-> "same", version |-> version, life |-> 0, at |-> 0]
        BY <1>5 DEF Plain
      <2>2. x.held # None /\ x.held.mark = version
        BY <1>1, <1>5
      <2>3. answer \in Replies /\ answer.is = "same" /\ answer.version = version
        BY <1>1, <2>1 DEF Replies
      <2> QED
        BY <1>2, <1>5, <2>2, <2>3 DEF version
    <1>6. CASE /\ x.at \notin {"login", "open"} /\ version # 0
               /\ \E is \in {"full", "untagged"} : answer = [Plain(is) EXCEPT !.version = version]
      <2>1. PICK is \in {"full", "untagged"} :
              answer = [is |-> is, version |-> version, life |-> 0, at |-> 0]
        BY <1>6 DEF Plain
      <2>2. answer \in Replies /\ answer.is \in {"full", "untagged"} /\ answer.version = version
        BY <1>1, <2>1 DEF Replies
      <2> QED
        BY <1>2, <1>6, <2>2 DEF version
    <1>7. x.at \notin {"login", "open"} => x.at \in {"poll", "first", "get"}
      BY <1>2
    <1> QED
      BY <1>3, <1>4, <1>5, <1>6, <1>7, Zenon DEF version

LEMMA ServedOK ==
    ASSUME Clock, NEW x, ReadOK(world, now, writes, x), x.at # "idle",
           NEW answer \in Answers(x.source, x),
           answer.is = "untagged" => x.source.kind \in Tagged
    PROVE  ReadOK(world, now, writes, [x EXCEPT !.reply = answer])
    <1> DEFINE y == [x EXCEPT !.reply = answer]
               version == Len(writes[x.source.record])
    <1>1. x \in ReadSet(world) /\ UnderWay(world, now, writes, x) /\ x.source \in world.sources
      BY DEF ReadOK, UnderWay
    <1>2. x.at \in {"login", "open", "poll", "first", "get"}
      BY <1>1 DEF ReadSet
    <1>3. \A is \in {"refused", "opened", "bad"} : Plain(is) \in Replies /\ Plain(is).is = is
      BY DEF Plain, Replies
    <1>4. answer \in Replies
      BY <1>1, <1>3, Answered, Zenon
    <1>5. /\ y \in ReadSet(world) /\ y.at = x.at /\ y.source = x.source /\ y.began = x.began
          /\ y.sent = x.sent /\ y.bearer = x.bearer /\ y.held = x.held /\ y.reply = answer
      BY <1>1, <1>4 DEF ReadSet
    <1> HIDE DEF y
    <1>6. version \in Nat /\ x.sent <= now /\ x.sent \in Nat /\ now \in Nat /\ now <= now
      BY <1>1, Numbers DEF ReadOK, ReadSet, Records
    <1> HIDE DEF version
    <1>7. ReplyOK(world, now, writes, y)
      <2>1. CASE answer = Plain("refused")
        BY <1>3, <1>5, <2>1 DEF ReplyOK
      <2>2. CASE /\ x.at = "login" /\ answer.is = "grant" /\ answer.life \in world.lives
                 /\ answer.at = now
        BY <1>5, <1>6, <2>2 DEF ReplyOK
      <2>3. CASE x.at = "open" /\ answer = Plain("opened")
        BY <1>3, <1>5, <2>3 DEF ReplyOK
      <2>4. CASE /\ x.at \in {"poll", "first", "get"} /\ answer.is = "same"
                 /\ answer.version = version /\ x.held # None /\ x.held.mark = version
        <3>1. x.at # "first" => version \in 1 .. version
          <4>1. x.at # "first" => EntryOK(world, writes, x.source.record, x.held)
            BY <1>1, <2>4 DEF UnderWay, HeldOK
          <4> QED
            BY <1>6, <2>4, <4>1 DEF EntryOK, version
        <3>2. x.at # "first" => Current(writes, x.source.record, version, x.sent)
          BY <1>6, <3>1 DEF Current, version
        <3> QED
          BY <1>5, <2>4, <3>2 DEF ReplyOK
      <2>5. CASE x.at \in {"poll", "first", "get"} /\ answer = Plain("bad")
        BY <1>3, <1>5, <2>5 DEF ReplyOK
      <2>6. CASE /\ x.at \in {"poll", "first", "get"} /\ answer.is \in {"full", "untagged"}
                 /\ answer.version = version /\ version # 0
        <3>1. Current(writes, x.source.record, version, x.sent)
          BY <1>6, <2>6 DEF Current, version
        <3> QED
          BY <1>5, <2>6, <3>1 DEF ReplyOK
      <2> QED
        BY <1>1, <2>1, <2>2, <2>3, <2>4, <2>5, <2>6, Answered, Zenon DEF version
    <1>8. BearerOK(x) => BearerOK(y)
      BY <1>5 DEF BearerOK
    <1>9. HeldOK(world, writes, y)
      BY <1>1, <1>5 DEF UnderWay, HeldOK
    <1>10. UnderWay(world, now, writes, y)
      BY <1>1, <1>5, <1>7, <1>8, <1>9 DEF UnderWay
    <1>11. ReadOK(world, now, writes, y)
      BY <1>5, <1>10 DEF ReadOK
    <1> QED
      BY <1>11 DEF y

LEMMA ServeStep == ASSUME IInv, NEW r \in Readers, Serve(r) PROVE IInv'
    <1> USE DEF IInv
    <1>1. PICK answer \in Answers(reads[r].source, reads[r]) :
            /\ answer.is = "untagged" => reads[r].source.kind \in Tagged
            /\ reads' = [reads EXCEPT ![r].reply = answer]
      BY DEF Serve
    <1>2. /\ reads[r].at # "idle" /\ returned' = None
          /\ UNCHANGED <<world, now, writes, secrets, sessions, etags, tokens>>
      BY DEF Serve
    <1>3. ReadOK(world, now, writes, reads[r])
      BY DEF Reading
    <1> DEFINE y == [reads[r] EXCEPT !.reply = answer]
    <1>4. ReadOK(world, now, writes, y)
      BY <1>1, <1>2, <1>3, ServedOK
    <1>5. reads' = [reads EXCEPT ![r] = y]
      BY <1>1
    <1> HIDE DEF y
    <1>6. Clock' /\ Reading'
      BY <1>2, <1>4, <1>5, OneRead
    <1> QED
      BY <1>2, <1>6, SameMaps DEF AnswerOK

LEMMA TickStep == ASSUME IInv, Tick PROVE IInv'
    <1> USE DEF IInv
    <1>1. /\ now < world.horizon /\ now' = now + 1 /\ returned' = None
          /\ UNCHANGED <<world, writes, secrets, sessions, etags, tokens, reads>>
          /\ \A r \in Readers : reads[r].at # "idle" => now < reads[r].sent + Timeout
      BY DEF Tick
    <1>2. now \in Nat /\ world.horizon \in Nat /\ Times' = Times /\ Records' = Records
      BY <1>1, Numbers DEF Times, Records
    <1>3. Clock'
      <2>1. now' \in Times'
        BY <1>1, <1>2 DEF Times
      <2>2. ASSUME NEW d \in Records
            PROVE  Len(writes[d]) \in Marks /\ \A i \in DOMAIN writes[d] : writes[d][i] <= now'
        <3>1. ASSUME NEW i \in DOMAIN writes[d] PROVE writes[d][i] <= now'
          <4>1. i \in 1 .. Len(writes[d])
            BY <3>1 DEF Clock
          <4> QED
            BY <1>1, <1>2, <4>1, WrittenAt
        <3> QED
          BY <3>1 DEF Clock
      <2> QED
        BY <1>1, <1>2, <2>1, <2>2 DEF Clock, Marks
    <1>4. Remembered'
      <2>1. ASSUME NEW d \in DOMAIN secrets
            PROVE  d \in Records /\ SecretOK(world, now + 1, writes, d, secrets[d])
        <3>1. d \in Records /\ SecretOK(world, now, writes, d, secrets[d])
          BY DEF Remembered
        <3>2. secrets[d].at \in Nat /\ secrets[d].at <= now
          BY <3>1 DEF SecretOK
        <3> QED
          BY <1>2, <3>1, <3>2 DEF SecretOK
      <2>2. ASSUME NEW k \in DOMAIN tokens PROVE TokenOK(world, now + 1, k, tokens[k])
        <3>1. TokenOK(world, now, k, tokens[k])
          BY DEF Remembered
        <3>2. tokens[k].until \in Nat
          BY <3>1 DEF TokenOK, Tokens
        <3> QED
          BY <1>2, <3>1, <3>2 DEF TokenOK
      <2> QED
        BY <1>1, <1>2, <2>1, <2>2 DEF Remembered
    <1>5. Reading'
      <2>1. ASSUME NEW r \in Readers PROVE ReadOK(world, now + 1, writes, reads[r])
        <3> DEFINE x == reads[r]
        <3>1. ReadOK(world, now, writes, x) /\ (x.at # "idle" => now < x.sent + Timeout)
          BY <1>1 DEF Reading
        <3> HIDE DEF x
        <3>2. x.sent \in Nat /\ x.sent <= now /\ x \in ReadSet(world)
          BY <3>1 DEF ReadOK, ReadSet
        <3>3. ASSUME x.at # "idle" PROVE UnderWay(world, now + 1, writes, x)
          <4>1. UnderWay(world, now, writes, x)
            BY <3>1, <3>3 DEF ReadOK
          <4>2. now + 1 <= x.sent + Timeout
            BY <1>2, <3>1, <3>2, <3>3, Numbers
          <4>3. ASSUME x.reply # None PROVE ReplyOK(world, now + 1, writes, x)
            <5>1. ReplyOK(world, now, writes, x)
              BY <4>1, <4>3 DEF UnderWay
            <5>2. x.reply.at \in Nat
              BY <3>2, <4>3 DEF ReadSet, Replies
            <5> QED
              BY <1>2, <5>1, <5>2 DEF ReplyOK
          <4> QED
            BY <4>1, <4>2, <4>3 DEF UnderWay
        <3>4. ReadOK(world, now + 1, writes, x)
          BY <1>2, <3>1, <3>2, <3>3 DEF ReadOK
        <3> QED
          BY <3>4 DEF x
      <2> QED
        BY <1>1, <2>1 DEF Reading
    <1> QED
      BY <1>1, <1>3, <1>4, <1>5 DEF AnswerOK

(* A write disturbs nothing that is remembered, on its way or under way.   *)
LEMMA WriteStep == ASSUME IInv, NEW e \in Records, Write(e) PROVE IInv'
    <1> USE DEF IInv
    <1>1. /\ Len(writes[e]) < MaxWrites /\ writes' = [writes EXCEPT ![e] = Append(@, now)]
          /\ returned' = None
          /\ UNCHANGED <<world, now, secrets, sessions, etags, tokens, reads>>
      BY DEF Write
    <1>2. now \in Nat /\ Times' = Times /\ Records' = Records /\ now \in Times
      BY <1>1, Numbers DEF Times, Records, Clock
    <1>3. ASSUME NEW d \in Records
          PROVE  /\ writes'[d] \in Seq(Times) /\ Len(writes'[d]) \in Marks
                 /\ \A i \in DOMAIN writes'[d] : writes'[d][i] <= now
                 /\ 1 .. Len(writes[d]) \subseteq 1 .. Len(writes'[d])
      <2>1. writes[d] \in Seq(Times) /\ Len(writes[d]) \in Nat
        BY DEF Clock
      <2>2. CASE d # e
        BY <1>1, <2>1, <2>2 DEF Clock
      <2>3. CASE d = e
        <3>1. writes'[d] = Append(writes[d], now)
          BY <1>1, <2>3 DEF Clock
        <3>2. /\ writes'[d] \in Seq(Times) /\ Len(writes'[d]) = Len(writes[d]) + 1
              /\ writes'[d][Len(writes[d]) + 1] = now
              /\ \A i \in 1 .. Len(writes[d]) : writes'[d][i] = writes[d][i]
          BY <1>2, <2>1, <3>1
        <3> HIDE DEF IInv
        <3>3. ASSUME NEW i \in DOMAIN writes'[d] PROVE writes'[d][i] <= now
          <4>1. i \in 1 .. Len(writes[d]) \/ i = Len(writes[d]) + 1
            BY <2>1, <3>2
          <4>2. i \in 1 .. Len(writes[d]) => writes[d][i] <= now
            BY WrittenAt DEF IInv
          <4> QED
            BY <1>2, <3>2, <4>1, <4>2
        <3>4. Len(writes'[d]) \in Marks
          BY <1>1, <2>1, <2>3, <3>2, Numbers DEF Marks, IInv
        <3> QED
          BY <2>1, <3>2, <3>3, <3>4
      <2> QED
        BY <2>2, <2>3
    <1>4. ASSUME NEW d \in Records, NEW v, NEW t \in Int, t <= now, Current(writes, d, v, t)
          PROVE  Current(writes', d, v, t)
      BY <1>4, StaysCurrent
    <1>5. Clock'
      <2>1. writes' \in [Records -> Seq(Times)]
        BY <1>1, <1>3 DEF Clock
      <2> QED
        BY <1>1, <1>2, <1>3, <2>1 DEF Clock, Marks
    <1>6. ASSUME NEW d \in Records, NEW x, EntryOK(world, writes, d, x)
          PROVE  EntryOK(world, writes', d, x)
      BY <1>3, <1>6 DEF EntryOK
    <1>7. Remembered'
      <2>1. ASSUME NEW d \in DOMAIN secrets
            PROVE  d \in Records /\ SecretOK(world, now, writes', d, secrets[d])
        <3>1. d \in Records /\ SecretOK(world, now, writes, d, secrets[d])
          BY DEF Remembered
        <3>2. secrets[d].at - Timeout \in Int /\ secrets[d].at - Timeout <= now
          BY <1>2, <3>1, Numbers DEF SecretOK
        <3> QED
          BY <1>4, <3>1, <3>2 DEF SecretOK
      <2> QED
        BY <1>1, <1>2, <1>6, <2>1 DEF Remembered
    <1>8. Reading'
      <2>1. ASSUME NEW r \in Readers PROVE ReadOK(world, now, writes', reads[r])
        <3> DEFINE x == reads[r]
                   d == x.source.record
        <3>1. ReadOK(world, now, writes, x)
          BY DEF Reading
        <3> HIDE DEF x, d
        <3>2. x.sent \in Nat /\ x.sent <= now /\ x \in ReadSet(world)
          BY <3>1 DEF ReadOK, ReadSet
        <3>3. ASSUME x.at # "idle" PROVE UnderWay(world, now, writes', x)
          <4>1. UnderWay(world, now, writes, x)
            BY <3>1, <3>3 DEF ReadOK
          <4>2. d \in Records
            BY <4>1 DEF UnderWay, Records, d
          <4>3. HeldOK(world, writes', x)
            BY <1>6, <4>1, <4>2 DEF UnderWay, HeldOK, d
          <4>4. ASSUME x.reply # None PROVE ReplyOK(world, now, writes', x)
            <5>1. ReplyOK(world, now, writes, x)
              BY <4>1, <4>4 DEF UnderWay
            <5>2. \A v : Current(writes, d, v, x.sent) => Current(writes', d, v, x.sent)
              BY <1>4, <3>2, <4>2
            <5> QED
              BY <5>1, <5>2 DEF ReplyOK, d
          <4> QED
            BY <4>1, <4>3, <4>4 DEF UnderWay
        <3>4. ReadOK(world, now, writes', x)
          BY <3>1, <3>2, <3>3 DEF ReadOK
        <3> QED
          BY <3>4 DEF x
      <2> QED
        BY <1>1, <2>1 DEF Reading
    <1> QED
      BY <1>1, <1>5, <1>7, <1>8 DEF AnswerOK

(* A read that is over, or goes on, when the maps are in order.            *)
LEMMA Over ==
    ASSUME IInv, UNCHANGED <<world, now, writes>>, Remembered',
           NEW r \in Readers, NEW x, NEW value, Return(r, x, value),
           value # None => AnswerOK(world, now, writes,
                             [source |-> x.source, began |-> x.began, value |-> value])
    PROVE  IInv'
    <1>1. reads' = [reads EXCEPT ![r] = NoRead]
      BY DEF Return
    <1>2. Clock' /\ Reading'
      BY <1>1, NoReadOK, OneRead DEF IInv
    <1>3. AnswerOK(world, now, writes, returned')
      <2>1. CASE value = None
        BY <2>1 DEF Return, AnswerOK
      <2>2. CASE value # None
        <3>1. returned' = [source |-> x.source, began |-> x.began, value |-> value]
          BY <2>2 DEF Return
        <3> QED
          BY <2>2, <3>1
      <2> QED
        BY <2>1, <2>2
    <1> QED
      BY <1>2, <1>3 DEF IInv

LEMMA GoesOn ==
    ASSUME IInv, UNCHANGED <<world, now, writes>>, Remembered',
           NEW r \in Readers, NEW y, ReadOK(world, now, writes, y), Continue(r, y)
    PROVE  IInv'
    <1>1. returned' = None /\ reads' = [reads EXCEPT ![r] = y]
      BY DEF Continue
    <1>2. Clock' /\ Reading'
      BY <1>1, OneRead DEF IInv
    <1> QED
      BY <1>1, <1>2 DEF IInv, AnswerOK

(* A record that was sent was current after its request, and so after the  *)
(* read began.                                                             *)
LEMMA FullText ==
    ASSUME Clock, NEW x, ReadOK(world, now, writes, x), x.at \in {"poll", "first", "get"},
           x.reply # None, x.reply.is \in {"full", "untagged"}
    PROVE  LET v == Text(x.source, x.reply.version) IN
           /\ v \in TextSet(world) /\ v.version = x.reply.version
           /\ x.source.record \in Records /\ v.version \in 1 .. Len(writes[x.source.record])
           /\ \A t \in Int : t <= x.sent => Current(writes, x.source.record, v.version, t)
           /\ Current(writes, x.source.record, v.version, x.began)
    <1> DEFINE d == x.source.record
               n == x.reply.version
               v == Text(x.source, n)
    <1>1. UnderWay(world, now, writes, x) /\ x \in ReadSet(world) /\ x.began <= x.sent
      BY DEF ReadOK
    <1>2. x.source \in world.sources /\ d \in Records /\ Current(writes, d, n, x.sent)
      BY <1>1 DEF UnderWay, ReplyOK, Records
    <1>3. x.sent \in Nat /\ x.began \in Nat
      BY <1>1 DEF ReadSet
    <1> HIDE DEF d, n
    <1>4. \A t \in Int : t <= x.sent => Current(writes, d, n, t)
      BY <1>2, <1>3, CurrentEarlier
    <1>5. n \in 1 .. Len(writes[d]) /\ Len(writes[d]) \in Marks
      BY <1>2 DEF Current, Clock
    <1>6. n \in Marks
      BY <1>5, Numbers DEF Marks
    <1>7. v \in TextSet(world) /\ v.version = n
      BY <1>2, <1>6 DEF Text, TextSet
    <1> HIDE DEF v
    <1>8. Current(writes, d, n, x.began)
      BY <1>1, <1>3, <1>4
    <1>9. /\ v \in TextSet(world) /\ v.version = n /\ d \in Records /\ n \in 1 .. Len(writes[d])
          /\ (\A t \in Int : t <= x.sent => Current(writes, d, n, t))
          /\ Current(writes, d, n, x.began)
      BY <1>2, <1>4, <1>5, <1>7, <1>8
    <1> QED
      BY <1>9 DEF v, n, d

(* A record that is the same as what the read held is as good.             *)
LEMMA SameText ==
    ASSUME Clock, NEW x, ReadOK(world, now, writes, x), x.at \in {"poll", "get"},
           x.reply # None, x.reply.is = "same"
    PROVE  /\ EntryOK(world, writes, x.source.record, x.held) /\ x.held.mark = x.reply.version
           /\ x.source.record \in Records /\ x.held # None
           /\ x.at = "get" => x.source.kind \in Tagged
           /\ Current(writes, x.source.record, x.held.value.version, x.began)
    <1>1. UnderWay(world, now, writes, x) /\ x \in ReadSet(world) /\ x.began <= x.sent
      BY DEF ReadOK
    <1>2. /\ x.held # None /\ x.reply.version = x.held.mark /\ x.source.record \in Records
          /\ Current(writes, x.source.record, x.reply.version, x.sent)
      BY <1>1 DEF UnderWay, ReplyOK, Records
    <1>3. /\ EntryOK(world, writes, x.source.record, x.held)
          /\ x.at = "get" => x.source.kind \in Tagged
      BY <1>1, <1>2 DEF UnderWay, HeldOK
    <1>4. x.sent \in Nat /\ x.began \in Nat
      BY <1>1 DEF ReadSet
    <1>5. Current(writes, x.source.record, x.reply.version, x.began)
      BY <1>1, <1>2, <1>4, CurrentEarlier
    <1> QED
      BY <1>2, <1>3, <1>5 DEF EntryOK

LEMMA LoggedInStep == ASSUME IInv, NEW r \in Readers, LoggedIn(r) PROVE IInv'
    <1> DEFINE x == reads[r]
               reply == x.reply
               token == [expires |-> reply.at + reply.life, life |-> reply.life,
                         until |-> now + KeptFor(reply.life)]
    <1>1. /\ x.at = "login" /\ reply # None
          /\ IF Bad(reply)
             THEN Return(r, x, None) /\ UNCHANGED tokens
             ELSE tokens' = Insert(tokens, x.source.kind, token) /\ Continue(r, Get(x, token))
          /\ UNCHANGED <<world, now, writes, secrets, sessions, etags>>
      BY DEF LoggedIn
    <1>2. Clock /\ Remembered /\ ReadOK(world, now, writes, x) /\ Records' = Records
      BY <1>1 DEF IInv, Reading, Records
    <1> HIDE DEF x
    <1>3. CASE Bad(reply)
      <2>1. Remembered'
        BY <1>1, <1>2, <1>3, SameMaps
      <2> QED
        BY <1>1, <1>3, <2>1, Over
    <1>4. CASE ~Bad(reply)
      <2>1. UnderWay(world, now, writes, x) /\ x \in ReadSet(world) /\ x.began <= x.sent /\ x.sent <= now
        BY <1>1, <1>2 DEF ReadOK
      <2>2. /\ x.source \in world.sources /\ x.source.kind \in Azure /\ now <= x.sent + Timeout
            /\ HeldFits(x) /\ ReplyOK(world, now, writes, x)
        BY <1>1, <2>1 DEF UnderWay, HeldOK, HeldFits
      <2>3. reply.life \in world.lives /\ x.sent <= reply.at
        BY <1>1, <1>4, <2>2 DEF ReplyOK, Bad
      <2>4. reply.life \in Nat /\ reply.at \in Nat /\ x.sent \in Nat /\ x.began \in Nat
        BY <1>1, <2>1 DEF ReadSet, Replies
      <2> HIDE DEF reply
      <2>5. /\ KeptFor(reply.life) \in Nat
            /\ reply.life > Margin => KeptFor(reply.life) = reply.life - Margin
            /\ reply.life <= Margin => KeptFor(reply.life) = 0
        BY <1>2, <2>4, Numbers DEF KeptFor
      <2>12. /\ now \in Nat /\ Timeout \in Nat /\ Margin \in Nat /\ Margin >= 2 * Timeout
            /\ None \notin Tokens
        BY <1>2, Numbers
      <2>6. /\ token \in Tokens /\ token.life = reply.life /\ token.expires = reply.at + reply.life
            /\ token.until = now + KeptFor(reply.life)
        BY <2>4, <2>5, <2>12 DEF Tokens
      <2> HIDE DEF token
      <2>7. token.life > 2 * Timeout => now + Timeout < token.expires
        BY <2>2, <2>3, <2>4, <2>6, <2>12
      <2>8. TokenOK(world, now, x.source.kind, token)
        <3>1. CASE reply.life > Margin
          <4>1. token.until = now + (reply.life - Margin)
            BY <2>5, <2>6, <3>1
          <4>2. token.until + Timeout <= token.expires
            BY <2>2, <2>3, <2>4, <2>6, <2>12, <4>1
          <4> QED
            BY <2>2, <2>3, <2>6, <4>2 DEF TokenOK
        <3>2. CASE reply.life <= Margin
          <4>1. token.until <= now
            BY <2>5, <2>6, <2>12, <3>2
          <4> QED
            BY <2>2, <2>3, <2>6, <4>1 DEF TokenOK
        <3> QED
          BY <2>4, <2>12, <3>1, <3>2
      <2>9. tokens' = Insert(tokens, x.source.kind, token) /\ Continue(r, Get(x, token))
        BY <1>1, <1>4
      <2>10. Remembered'
        <3>1. ASSUME NEW k \in DOMAIN tokens' PROVE TokenOK(world, now, k, tokens'[k])
          <4>1. /\ DOMAIN tokens' = DOMAIN tokens \cup {x.source.kind}
                /\ \A i \in DOMAIN tokens' : tokens'[i] = IF i = x.source.kind THEN token ELSE tokens[i]
            BY <2>9 DEF Insert
          <4>2. k # x.source.kind => TokenOK(world, now, k, tokens[k])
            BY <1>2, <3>1, <4>1 DEF Remembered
          <4> QED
            BY <2>8, <3>1, <4>1, <4>2
        <3> QED
          BY <1>1, <1>2, <3>1 DEF Remembered
      <2>11. ReadOK(world, now, writes, Get(x, token))
        <3>1. token # None /\ x.source.kind # "appconfig" /\ x.began <= now
          BY <2>1, <2>2, <2>4, <2>6, <2>12 DEF Azure, Tagged
        <3> QED
          BY <1>2, <2>1, <2>2, <2>6, <2>7, <3>1, GetOK
      <2> QED
        BY <1>1, <2>9, <2>10, <2>11, GoesOn
    <1> QED
      BY <1>3, <1>4

LEMMA GotSecretStep == ASSUME IInv, NEW r \in Readers, GotSecret(r) PROVE IInv'
    <1> DEFINE x == reads[r]
               d == x.source.record
               value == Text(x.source, x.reply.version)
               entry == [at |-> now, value |-> value]
    <1>1. /\ x.at = "get" /\ x.reply # None /\ x.source.kind \in Secret
          /\ UNCHANGED <<world, now, writes, sessions, etags, tokens>>
      BY DEF GotSecret
    <1>2. \/ Return(r, x, None) /\ UNCHANGED secrets
          \/ /\ ~Bad(x.reply) /\ Return(r, x, value)
             /\ secrets' = secrets \/ secrets' = Insert(secrets, d, entry)
      BY DEF GotSecret
    <1>3. Clock /\ Remembered /\ ReadOK(world, now, writes, x) /\ Records' = Records
      BY <1>1 DEF IInv, Reading, Records
    <1> HIDE DEF x
    <1>4. CASE Return(r, x, None) /\ UNCHANGED secrets
      <2>1. Remembered'
        BY <1>1, <1>3, <1>4, SameMaps
      <2> QED
        BY <1>1, <1>4, <2>1, Over
    <1>5. CASE /\ ~Bad(x.reply) /\ Return(r, x, value)
               /\ secrets' = secrets \/ secrets' = Insert(secrets, d, entry)
      <2>1. UnderWay(world, now, writes, x) /\ x \in ReadSet(world)
        BY <1>1, <1>3 DEF ReadOK
      <2>2. x.reply.is \in {"full", "untagged", "same"} /\ now <= x.sent + Timeout
        BY <1>1, <1>5, <2>1 DEF UnderWay, ReplyOK, Bad
      <2>3. x.reply.is # "same"
        BY <1>1, <1>3, SameText DEF Secret, Tagged
      <2>4. /\ value \in TextSet(world) /\ value.version = x.reply.version /\ d \in Records
            /\ \A t \in Int : t <= x.sent => Current(writes, d, value.version, t)
        BY <1>1, <1>3, <2>2, <2>3, FullText
      <2> HIDE DEF value, d
      <2>5. /\ now \in Nat /\ now - Timeout \in Int /\ now - Timeout <= x.sent
            /\ now - world.ttl - Timeout \in Int /\ now - world.ttl - Timeout <= x.sent
        <3>1. now \in Nat /\ Timeout \in Nat /\ world.ttl \in Nat /\ x.sent \in Nat
          BY <1>3, <2>1, Numbers DEF ReadSet
        <3> QED
          BY <2>2, <3>1
      <2>6. /\ entry \in [at : Nat, value : TextSet(world)] /\ entry.at = now /\ entry.value = value
            /\ now <= now
        BY <2>4, <2>5
      <2>7. SecretOK(world, now, writes, d, entry)
        BY <2>4, <2>5, <2>6 DEF SecretOK
      <2> HIDE DEF entry
      <2>8. Remembered'
        <3>1. ASSUME NEW i \in DOMAIN secrets'
              PROVE  i \in Records /\ SecretOK(world, now, writes, i, secrets'[i])
          <4>1. CASE secrets' = secrets
            BY <1>3, <3>1, <4>1 DEF Remembered
          <4>2. CASE secrets' = Insert(secrets, d, entry)
            <5>1. i \in DOMAIN secrets \cup {d} /\ secrets'[i] = IF i = d THEN entry ELSE secrets[i]
              BY <3>1, <4>2 DEF Insert
            <5> QED
              BY <1>3, <2>4, <2>7, <5>1 DEF Remembered
          <4> QED
            BY <1>5, <4>1, <4>2
        <3> QED
          BY <1>1, <1>3, <3>1 DEF Remembered
      <2>9. AnswerOK(world, now, writes, [source |-> x.source, began |-> x.began, value |-> value])
        BY <1>1, <2>4, <2>5 DEF AnswerOK, d
      <2> QED
        BY <1>1, <1>5, <2>8, <2>9, Over
    <1> QED
      BY <1>2, <1>4, <1>5

LEMMA GotPlainStep == ASSUME IInv, NEW r \in Readers, GotPlain(r) PROVE IInv'
    <1> DEFINE x == reads[r]
               d == x.source.record
               value == Text(x.source, x.reply.version)
    <1>1. /\ x.at = "get" /\ x.reply # None /\ x.source.kind \notin Secret \cup Tagged
          /\ UNCHANGED <<world, now, writes, secrets, sessions, etags, tokens>>
          /\ Return(r, x, IF Bad(x.reply) THEN None ELSE value)
      BY DEF GotPlain
    <1>2. Clock /\ Remembered' /\ ReadOK(world, now, writes, x)
      BY <1>1, SameMaps DEF IInv, Reading
    <1> HIDE DEF x
    <1>3. CASE Bad(x.reply)
      BY <1>1, <1>2, <1>3, Over
    <1>4. CASE ~Bad(x.reply)
      <2>1. UnderWay(world, now, writes, x)
        BY <1>1, <1>2 DEF ReadOK
      <2>2. x.reply.is \in {"full", "untagged", "same"}
        BY <1>1, <1>4, <2>1 DEF UnderWay, ReplyOK, Bad
      <2>3. x.reply.is # "same"
        BY <1>1, <1>2, SameText
      <2>4. Current(writes, d, value.version, x.began)
        BY <1>1, <1>2, <2>2, <2>3, FullText
      <2> HIDE DEF value
      <2>5. AnswerOK(world, now, writes, [source |-> x.source, began |-> x.began, value |-> value])
        BY <1>1, <2>4 DEF AnswerOK
      <2>6. Return(r, x, value)
        BY <1>1, <1>4
      <2> QED
        BY <1>1, <1>2, <2>5, <2>6, Over
    <1> QED
      BY <1>3, <1>4

LEMMA GotTaggedStep == ASSUME IInv, NEW r \in Readers, GotTagged(r) PROVE IInv'
    <1> DEFINE x == reads[r]
               d == x.source.record
               id == EtagId(x.source)
               text == Text(x.source, x.reply.version)
               value == IF Bad(x.reply) THEN None
                        ELSE IF x.reply.is = "same" THEN x.held.value ELSE text
               entry == EtagEntry(x, text)
    <1>1. /\ x.at = "get" /\ x.reply # None /\ x.source.kind \in Tagged
          /\ UNCHANGED <<world, now, writes, secrets, sessions, tokens>>
          /\ etags' = IF x.reply.is = "full" THEN Insert(etags, id, entry) ELSE etags
      BY DEF GotTagged
    <1>2. Return(r, x, value)
      BY DEF GotTagged, Bad
    <1>3. Clock /\ Remembered /\ ReadOK(world, now, writes, x) /\ Records' = Records
      BY <1>1 DEF IInv, Reading, Records
    <1> HIDE DEF x
    <1>4. UnderWay(world, now, writes, x) /\ x \in ReadSet(world)
      BY <1>1, <1>3 DEF ReadOK
    <1>5. x.reply.is \in {"refused", "bad", "full", "untagged", "same"}
      BY <1>1, <1>4 DEF UnderWay, ReplyOK
    <1>6. x.reply.is \in {"full", "untagged"} =>
            /\ text \in TextSet(world) /\ text.version = x.reply.version /\ d \in Records
            /\ text.version \in 1 .. Len(writes[d]) /\ Current(writes, d, text.version, x.began)
      BY <1>1, <1>3, FullText
    <1>7. x.reply.is = "same" => Current(writes, d, x.held.value.version, x.began)
      BY <1>1, <1>3, SameText
    <1> HIDE DEF text, d
    <1>8. Remembered'
      <2>1. ASSUME NEW i \in DOMAIN etags'
            PROVE  i[2] \in Records /\ EntryOK(world, writes, i[2], etags'[i])
        <3>1. CASE x.reply.is # "full"
          BY <1>1, <1>3, <2>1, <3>1 DEF Remembered
        <3>2. CASE x.reply.is = "full"
          <4>1. id[2] = d
            BY DEF EtagId, d
          <4>2. x.reply.version \in Nat
            BY <1>1, <1>4 DEF ReadSet, Replies
          <4>3. EntryOK(world, writes, d, entry)
            BY <1>6, <3>2, <4>2 DEF EntryOK, EtagEntry, Entries
          <4> HIDE DEF id, entry
          <4>4. i \in DOMAIN etags \cup {id} /\ etags'[i] = IF i = id THEN entry ELSE etags[i]
            BY <1>1, <2>1, <3>2 DEF Insert
          <4> QED
            BY <1>3, <1>6, <3>2, <4>1, <4>3, <4>4 DEF Remembered
        <3> QED
          BY <3>1, <3>2
      <2> QED
        BY <1>1, <1>3, <2>1 DEF Remembered
    <1>9. value # None => Current(writes, d, value.version, x.began)
      BY <1>5, <1>6, <1>7 DEF Bad
    <1> HIDE DEF value
    <1>10. value # None =>
             AnswerOK(world, now, writes, [source |-> x.source, began |-> x.began, value |-> value])
      BY <1>1, <1>9 DEF AnswerOK, Secret, Tagged, d
    <1> QED
      BY <1>1, <1>2, <1>8, <1>10, Over

LEMMA OpenedStep == ASSUME IInv, NEW r \in Readers, Opened(r) PROVE IInv'
    <1> DEFINE x == reads[r]
               a == Await(x, "first")
               y == [a EXCEPT !.held = [mark |-> 0, value |-> None]]
    <1>1. /\ x.at = "open" /\ x.reply # None
          /\ UNCHANGED <<world, now, writes, secrets, sessions, etags, tokens>>
          /\ IF Bad(x.reply) THEN Return(r, x, None) ELSE Continue(r, y)
      BY DEF Opened
    <1>2. Clock /\ Remembered' /\ ReadOK(world, now, writes, x)
      BY <1>1, SameMaps DEF IInv, Reading
    <1> HIDE DEF x
    <1>3. CASE Bad(x.reply)
      BY <1>1, <1>2, <1>3, Over
    <1>4. CASE ~Bad(x.reply)
      <2>1. UnderWay(world, now, writes, x) /\ x \in ReadSet(world) /\ x.began <= x.sent /\ x.sent <= now
        BY <1>1, <1>2 DEF ReadOK
      <2>2. x.source \in world.sources /\ x.source.kind = "appconfig"
        BY <1>1, <2>1 DEF UnderWay
      <2>3. /\ a \in ReadSet(world) /\ a.at = "first" /\ a.sent = now /\ a.reply = None
            /\ a.source = x.source /\ a.began = x.began
        BY <1>2, <2>1, Awaits
      <2> HIDE DEF a
      <2>4. /\ y \in ReadSet(world) /\ y.at = "first" /\ y.sent = now /\ y.reply = None
            /\ y.source = x.source /\ y.began = x.began
        BY <2>3 DEF ReadSet
      <2> HIDE DEF y
      <2>5. /\ now \in Nat /\ Timeout \in Nat /\ x.began \in Nat /\ x.sent \in Nat
        BY <1>2, <2>1, Numbers DEF ReadSet
      <2>6. now <= now /\ now <= now + Timeout /\ x.began <= now
        BY <2>1, <2>5
      <2>7. ReadOK(world, now, writes, y)
        BY <2>2, <2>4, <2>6 DEF ReadOK, UnderWay, HeldOK
      <2>8. Continue(r, y)
        BY <1>1, <1>4
      <2> QED
        BY <1>1, <1>2, <2>7, <2>8, GoesOn
    <1> QED
      BY <1>3, <1>4

LEMMA PolledStep == ASSUME IInv, NEW r \in Readers, Polled(r) PROVE IInv'
    <1> DEFINE x == reads[r]
               d == x.source.record
               text == IF x.reply.is = "same" THEN x.held.value
                       ELSE Text(x.source, x.reply.version)
               good == ~Bad(x.reply) /\ (x.at = "poll" \/ x.reply.is # "same")
               entry == Remember(x, text)
               y == Await(x, "open")
    <1>1. /\ x.at \in {"poll", "first"} /\ x.reply # None
          /\ UNCHANGED <<world, now, writes, secrets, etags, tokens>>
          /\ sessions' = IF good THEN Insert(sessions, d, entry) ELSE sessions
          /\ IF x.at = "poll" /\ x.reply.is = "refused"
             THEN Continue(r, y)
             ELSE Return(r, x, IF good THEN text ELSE None)
      BY DEF Polled
    <1>2. Clock /\ Remembered /\ ReadOK(world, now, writes, x) /\ Records' = Records
      BY <1>1 DEF IInv, Reading, Records
    <1> HIDE DEF x
    <1>3. UnderWay(world, now, writes, x) /\ x \in ReadSet(world) /\ x.began <= x.sent /\ x.sent <= now
      BY <1>1, <1>2 DEF ReadOK
    <1>4. /\ x.reply.is \in {"refused", "bad", "full", "untagged", "same"}
          /\ x.source.kind = "appconfig" /\ x.source \in world.sources
      BY <1>1, <1>3 DEF UnderWay, ReplyOK
    <1>5. CASE good
      <2>1. /\ text \in TextSet(world) /\ text.version = x.reply.version /\ d \in Records
            /\ text.version \in 1 .. Len(writes[d]) /\ Current(writes, d, text.version, x.began)
        <3>1. CASE x.reply.is = "same"
          <4>1. text = x.held.value /\ x.at = "poll"
            BY <1>1, <1>5, <3>1
          <4>2. /\ EntryOK(world, writes, d, x.held) /\ x.held.mark = x.reply.version
                /\ d \in Records /\ Current(writes, d, x.held.value.version, x.began)
            BY <1>1, <1>2, <3>1, <4>1, SameText
          <4> HIDE DEF text, d
          <4> QED
            BY <4>1, <4>2 DEF EntryOK, Entries
        <3>2. CASE x.reply.is # "same"
          <4>1. text = Text(x.source, x.reply.version) /\ x.reply.is \in {"full", "untagged"}
            BY <1>4, <1>5, <3>2 DEF Bad
          <4> QED
            BY <1>1, <1>2, <4>1, FullText
        <3> QED
          BY <3>1, <3>2
      <2>2. Return(r, x, text) /\ sessions' = Insert(sessions, d, entry)
        BY <1>1, <1>5 DEF Bad
      <2> HIDE DEF text, d
      <2>3. x.reply.version \in Nat
        BY <1>1, <1>3 DEF ReadSet, Replies
      <2>4. EntryOK(world, writes, d, entry)
        BY <2>1, <2>3 DEF EntryOK, Remember, Entries
      <2>5. AnswerOK(world, now, writes, [source |-> x.source, began |-> x.began, value |-> text])
        BY <1>4, <2>1 DEF AnswerOK, Secret, d
      <2> HIDE DEF entry
      <2>6. Remembered'
        <3>1. ASSUME NEW i \in DOMAIN sessions'
              PROVE  i \in Records /\ EntryOK(world, writes, i, sessions'[i])
          <4>1. i \in DOMAIN sessions \cup {d} /\ sessions'[i] = IF i = d THEN entry ELSE sessions[i]
            BY <2>2, <3>1 DEF Insert
          <4> QED
            BY <1>2, <2>1, <2>4, <4>1 DEF Remembered
        <3> QED
          BY <1>1, <1>2, <3>1 DEF Remembered
      <2> QED
        BY <1>1, <2>2, <2>5, <2>6, Over
    <1>6. CASE ~good
      <2>1. sessions' = sessions
        BY <1>1, <1>6
      <2>2. Remembered'
        BY <1>1, <1>2, <2>1, SameMaps
      <2>3. CASE x.at = "poll" /\ x.reply.is = "refused"
        <3>1. Continue(r, y)
          BY <1>1, <2>3
        <3>2. /\ y \in ReadSet(world) /\ y.at = "open" /\ y.sent = now /\ y.reply = None
              /\ y.source = x.source /\ y.began = x.began
          BY <1>2, <1>3, Awaits
        <3> HIDE DEF y
        <3>3. /\ now \in Nat /\ Timeout \in Nat /\ x.began \in Nat /\ x.sent \in Nat
          BY <1>2, <1>3, Numbers DEF ReadSet
        <3>4. now <= now /\ now <= now + Timeout /\ x.began <= now
          BY <1>3, <3>3
        <3>5. ReadOK(world, now, writes, y)
          BY <1>4, <3>2, <3>4 DEF ReadOK, UnderWay, HeldOK
        <3> QED
          BY <1>1, <2>2, <3>1, <3>5, GoesOn
      <2>4. CASE ~(x.at = "poll" /\ x.reply.is = "refused")
        <3>1. Return(r, x, None)
          BY <1>1, <1>6, <2>4
        <3> QED
          BY <1>1, <2>2, <3>1, Over
      <2> QED
        BY <2>3, <2>4
    <1> QED
      BY <1>5, <1>6

LEMMA NextInv == ASSUME IInv, [Next]_vars PROVE IInv'
    <1>1. CASE Tick
      BY <1>1, TickStep
    <1>2. CASE \E d \in Records : Write(d)
      BY <1>2, WriteStep
    <1>3. ASSUME NEW r \in Readers,
                 \/ Begin(r) \/ Serve(r) \/ LoggedIn(r) \/ GotSecret(r) \/ GotTagged(r)
                 \/ GotPlain(r) \/ Opened(r) \/ Polled(r)
          PROVE  IInv'
      BY <1>3, BeginStep, ServeStep, LoggedInStep, GotSecretStep, GotTaggedStep, GotPlainStep,
         OpenedStep, PolledStep
    <1>4. CASE UNCHANGED vars
      <2>1. Remembered' /\ Records' = Records /\ Times' = Times
        BY <1>4, SameMaps DEF vars, IInv, Records, Times
      <2>2. Clock' /\ Reading'
        BY <1>4, <2>1 DEF vars, IInv, Clock, Reading, Marks
      <2> QED
        BY <1>4, <2>1, <2>2 DEF vars, IInv
    <1> QED
      BY <1>1, <1>2, <1>3, <1>4 DEF Next

LEMMA Invariance == Spec => []IInv
    BY InitInv, NextInv, PTL DEF Spec

-----------------------------------------------------------------------------

(* A secret that is returned was replaced no longer ago than the TTL and   *)
(* one request (secrets.rs cached_read), however many reads write the      *)
(* cache and in whatever order their replies arrive.                       *)
THEOREM FreshSecrets == Spec => []SecretIsFresh
    <1>1. IInv => SecretIsFresh
      BY DEF IInv, AnswerOK, SecretIsFresh, CurrentSince, Current
    <1> QED
      BY <1>1, Invariance, PTL

(* A marked text is the one its service sent with the mark, and what a     *)
(* read returns for an empty poll or a 304 was stored while it read        *)
(* (aws.rs fetch_appconfig, azure.rs fetch_app_config and fetch_cosmos).   *)
THEOREM CurrentReads == Spec => []ReadIsCurrent
    <1>1. IInv => TypeOK
      <2> SUFFICES ASSUME IInv PROVE TypeOK
        OBVIOUS
      <2>1. /\ now \in Times /\ now \in Nat /\ MaxWrites \in Nat /\ world.horizon \in Nat
            /\ now <= world.horizon
        BY Numbers DEF IInv, Clock
      <2>2. \A n \in Nat : n <= now => n \in Times
        BY <2>1 DEF Times
      <2>3. ASSUME NEW d \in Records
            PROVE  Len(writes[d]) \in Marks /\ \A i \in DOMAIN writes[d] : writes[d][i] \in Times
        BY DEF IInv, Clock
      <2>4. TextSet(world) = Texts
        BY DEF TextSet, Texts
      <2>5. ASSUME NEW d \in DOMAIN secrets
            PROVE  secrets[d].at \in Times /\ secrets[d].value \in Texts
        <3>1. SecretOK(world, now, writes, d, secrets[d])
          BY DEF IInv, Remembered
        <3> QED
          BY <2>2, <2>4, <3>1 DEF SecretOK
      <2>6. ASSUME NEW d, NEW e, EntryOK(world, writes, d, e), d \in Records
            PROVE  e.mark \in Marks /\ e.value \in Texts
        <3>1. e \in Entries(world) /\ e.mark = e.value.version
          BY <2>6 DEF EntryOK
        <3> QED
          BY <2>4, <3>1 DEF Entries, TextSet
      <2>7. /\ \A d \in DOMAIN sessions : sessions[d].mark \in Marks /\ sessions[d].value \in Texts
            /\ \A i \in DOMAIN etags : etags[i].mark \in Marks /\ etags[i].value \in Texts
        BY <2>6 DEF IInv, Remembered
      <2>8. \A k \in DOMAIN tokens : k \in Azure /\ tokens[k].life \in world.lives
        BY DEF IInv, Remembered, TokenOK
      <2>9. ASSUME NEW r \in Readers
            PROVE  LET read == reads[r] IN
                   /\ read.sent \in Times /\ read.began <= read.sent
                   /\ read.at = "login" => read.source.kind \in Azure
                   /\ read.at \in {"open", "poll", "first"} => read.source.kind = "appconfig"
                   /\ read.at = "get" => (read.bearer # None <=> read.source.kind \in Azure)
        <3> DEFINE x == reads[r]
        <3>1. ReadOK(world, now, writes, x)
          BY DEF IInv, Reading
        <3> HIDE DEF x
        <3>2. /\ x.sent \in Times /\ x.began <= x.sent
              /\ x.at = "login" => x.source.kind \in Azure
              /\ x.at \in {"open", "poll", "first"} => x.source.kind = "appconfig"
              /\ x.at = "get" => (x.bearer # None <=> x.source.kind \in Azure)
          BY <2>2, <3>1 DEF ReadOK, ReadSet, UnderWay, BearerOK
        <3> QED
          BY <3>2 DEF x
      <2> QED
        BY <2>1, <2>3, <2>5, <2>7, <2>8, <2>9 DEF TypeOK
    <1>2. IInv => ReadIsCurrent
      BY <1>1 DEF IInv, Remembered, EntryOK, AnswerOK, ReadIsCurrent, CurrentSince, Current
    <1> QED
      BY <1>2, Invariance, PTL

(* A token that was granted for longer than a login and a request may take *)
(* does not expire while a request carries it (azure.rs token).            *)
THEOREM TokensOutlive == Spec => []TokenOutlivesRequest
    <1>1. IInv => TokenOutlivesRequest
      <2> SUFFICES ASSUME IInv, NEW r \in Readers, reads[r].at = "get", reads[r].bearer # None,
                          reads[r].bearer.life > 2 * Timeout
                   PROVE  now < reads[r].bearer.expires
        BY DEF TokenOutlivesRequest
      <2> DEFINE x == reads[r]
      <2>1. /\ x \in ReadSet(world) /\ now <= x.sent + Timeout /\ BearerOK(x)
        BY DEF IInv, Reading, ReadOK, UnderWay
      <2>2. x.bearer.expires \in Nat /\ x.sent \in Nat /\ x.sent + Timeout < x.bearer.expires
        BY <2>1 DEF BearerOK, ReadSet, Tokens
      <2>3. now \in Nat /\ Timeout \in Nat
        BY Numbers DEF IInv
      <2> QED
        BY <2>1, <2>2, <2>3
    <1> QED
      BY <1>1, Invariance, PTL
=============================================================================
