------------------------------ MODULE Sources ------------------------------
(***************************************************************************)
(* Names of configuration files (source.rs): how one is written, parsed,   *)
(* and resolved against the file that names it in `extends`.               *)
(*                                                                         *)
(* A text is its scheme ("" for none), what stands between its slashes,    *)
(* and the pairs after a question mark.  A value is a sequence, empty for  *)
(* none, so that what is written behind it can run into it.  Whitespace,   *)
(* ports and escapes are left out.                                         *)
(***************************************************************************)
EXTENDS Naturals, Sequences, SequencesExt

CONSTANT
  Loopback   \* the hosts that plain http may name

Text(scheme, segs, query) == [scheme |-> scheme, segs |-> segs, query |-> query]

(* The parameters a kind of source takes, in the order they are written.   *)
Params == [azappconfig |-> <<"label">>, dynamodb |-> <<"key", "value">>,
           firestore |-> <<"database", "field">>, cosmos |-> <<"pk", "field">>]
ParamsOf(kind) == IF kind \in DOMAIN Params THEN Params[kind] ELSE <<>>

CloudOf == [s3 |-> "aws", appconfig |-> "aws", dynamodb |-> "aws",
            gs |-> "gcp", firestore |-> "gcp",
            az |-> "azure", azappconfig |-> "azure", cosmos |-> "azure"]

(* A source: what it is in (bucket, account, ...), its path there, a query *)
(* that is part of its name, and its parameters.                           *)
Source(kind, place, path, tail, params) ==
  [kind |-> kind, place |-> place, path |-> path, tail |-> tail, params |-> params]
NotOne == [kind |-> "error"]

(* What a text and a source consist of.                                    *)
Kinds == {"http", "https"} \union DOMAIN CloudOf
Pairs == [name : STRING, value : Seq(STRING)]
References == [scheme : STRING, segs : Seq(STRING) \ {<<>>}, query : Seq(Pairs)]
Named ==
  [kind : {"file"} \union Kinds, place : Seq(STRING), path : Seq(STRING), tail : Seq(Pairs),
   params : Seq(Seq(STRING))]

IsRemote(s) == s.kind # "file"

(* `clouds` are those of this build and of the add-ons that registered.    *)
Supported(s, clouds) == s.kind \in DOMAIN CloudOf => CloudOf[s.kind] \in clouds

-----------------------------------------------------------------------------

(* split_query: each parameter at most once, with a value, and no other.   *)
GoodQuery(query, kind) ==
  /\ \A i \in DOMAIN query :
       query[i].name \in Range(ParamsOf(kind)) /\ query[i].value # <<>>
  /\ \A i, j \in DOMAIN query : query[i].name = query[j].name => i = j

ValueOf(query, name) ==
  IF \E i \in DOMAIN query : query[i].name = name
  THEN (CHOOSE p \in Range(query) : p.name = name).value
  ELSE <<>>

ParamsIn(query, kind) ==
  [i \in DOMAIN ParamsOf(kind) |-> ValueOf(query, ParamsOf(kind)[i])]

(* Where a remote path begins: behind the bucket, the account and so on.   *)
PlaceLen(kind) ==
  CASE kind \in {"http", "https"} -> 0
    [] kind = "appconfig" -> 2
    [] kind = "cosmos" -> 3
    [] OTHER -> 1

(* What each kind asks of what stands between the slashes.                 *)
GoodShape(kind, segs, query) ==
  LET full == \A i \in DOMAIN segs : segs[i] # ""
      named == /\ Len(segs) > 1 /\ segs[1] # ""
               /\ Len(segs) = 2 /\ segs[2] = "" => query # <<>> /\ ParamsOf(kind) = <<>>
  IN CASE kind \in {"s3", "gs", "az", "azappconfig"} -> named
       [] kind = "appconfig" -> Len(segs) = 3 /\ full
       [] kind = "dynamodb" -> Len(segs) = 2 /\ full
       [] kind = "firestore" -> full /\ Len(segs) > 1 /\ Len(segs) % 2 = 1
       [] kind = "cosmos" -> Len(segs) = 4 /\ full
       [] kind = "https" -> TRUE
       [] kind = "http" -> segs[1] \in Loopback
       [] OTHER -> FALSE

(* ConfigSource::parse.                                                    *)
Parse(t) ==
  LET n == PlaceLen(t.scheme)
      asked == ParamsOf(t.scheme) # <<>>
  IN IF t.scheme = "" THEN Source("file", <<>>, t.segs, t.query, <<>>)
     ELSE IF ~GoodShape(t.scheme, t.segs, t.query) THEN NotOne
     ELSE IF asked /\ ~GoodQuery(t.query, t.scheme) THEN NotOne
     ELSE Source(t.scheme, SubSeq(t.segs, 1, n), SubSeq(t.segs, n + 1, Len(t.segs)),
                 IF asked THEN <<>> ELSE t.query, ParamsIn(t.query, t.scheme))

(* write_query writes the parameters that are set, of two at most.  Behind *)
(* a name with a question mark of its own they run into its last value.    *)
Given(s) ==
  LET pair(i) == IF i \in DOMAIN s.params /\ s.params[i] # <<>>
                 THEN <<[name |-> ParamsOf(s.kind)[i], value |-> s.params[i]]>>
                 ELSE <<>>
  IN pair(1) \o pair(2)

RunTogether(tail, pairs) ==
  IF tail = <<>> THEN pairs
  ELSE IF pairs = <<>> THEN tail
  ELSE [tail EXCEPT ![Len(tail)].value = @ \o <<"?", Head(pairs).name>> \o Head(pairs).value]
       \o Tail(pairs)

(* Mutant of Display: only the first parameter is written.                 *)
DisplayFirst(s) ==
  Text(IF s.kind = "file" THEN "" ELSE s.kind, s.place \o s.path,
       RunTogether(s.tail, SubSeq(Given(s), 1, 1)))

(* The text of a source: its identity in a walk, the name of its cached    *)
(* copy, and what an add-on is asked for.                                  *)
Display(s) ==
  Text(IF s.kind = "file" THEN "" ELSE s.kind, s.place \o s.path,
       RunTogether(s.tail, Given(s)))

-----------------------------------------------------------------------------

Fold(out, seg) ==
  CASE seg \in {"", "."} -> out
    [] seg = ".." /\ out # <<>> /\ Last(out) \notin {"", ".."} -> Front(out)
    [] OTHER -> Append(out, seg)

Folded(start, segs) ==
  LET out[n \in 0 .. Len(segs)] == IF n = 0 THEN start ELSE Fold(out[n - 1], segs[n])
  IN out[Len(segs)]

(* Mutant of Normalize: "." and ".." stay.                                 *)
NormalizeNot(segs) == segs

Normalize(segs) ==
  IF Len(segs) > 1 /\ Head(segs) = ""
  THEN Folded(<<"">>, Tail(segs))
  ELSE Folded(<<>>, segs)

(* join_key: nothing above the bucket's root, and not the root itself.     *)
Descend(at, seg) ==
  CASE seg \in {"", "."} -> at
    [] seg = ".." -> [ok |-> at.ok /\ at.parts # <<>>,
                      parts |-> IF at.parts = <<>> THEN <<>> ELSE Front(at.parts)]
    [] OTHER -> [at EXCEPT !.parts = Append(@, seg)]

JoinKey(path, segs) ==
  LET at[n \in 0 .. Len(segs)] ==
        IF n = 0 THEN [ok |-> TRUE, parts |-> Front(path)] ELSE Descend(at[n - 1], segs[n])
      end == at[Len(segs)]
  IN IF end.ok THEN end.parts ELSE <<>>

(* External: a relative URL stops at the root of its host.                 *)
JoinUrl(path, segs) ==
  IF segs = <<"">> THEN path
  ELSE <<Head(path)>> \o Folded(<<>>, SubSeq(path, 2, Len(path) - 1) \o segs)

IsAbsolute(t) == t.scheme # "" \/ (Len(t.segs) > 1 /\ Head(t.segs) = "")

IsFlat(t) == Len(t.segs) = 1 /\ t.segs # <<"">>

(* This source but for its path and its query.                             *)
Moved(s, path, tail) == Source(s.kind, s.place, path, tail, s.params)

(* A relative entry names a file, a key or an item next to this one.       *)
Beside(s, t) ==
  CASE s.kind = "file" -> Moved(s, Normalize(Front(s.path) \o t.segs), t.query)
    [] s.kind \in {"http", "https"} -> Moved(s, JoinUrl(s.path, t.segs), t.query)
    [] s.kind = "appconfig" ->
         IF IsFlat(t) THEN Moved(s, t.segs, t.query) ELSE NotOne
    [] s.kind = "dynamodb" ->
         IF IsFlat(t) /\ t.query = <<>> THEN Moved(s, t.segs, s.tail) ELSE NotOne
    [] s.kind = "cosmos" ->
         IF IsFlat(t) /\ t.query = <<>>
         THEN [Moved(s, t.segs, s.tail) EXCEPT !.params[1] = <<>>] ELSE NotOne
    [] OTHER ->
         LET path == JoinKey(s.path, t.segs) IN
         IF path = <<>> \/ (s.kind = "firestore" /\ Len(path) % 2 = 1) THEN NotOne
         ELSE Moved(s, path, t.query)

(* Mutant of Join: whatever a remote file names is read.                   *)
JoinAnything(s, t) == IF IsAbsolute(t) THEN Parse(t) ELSE Beside(s, t)

(* ConfigSource::join.                                                     *)
Join(s, t) ==
  LET joined == IF IsAbsolute(t) THEN Parse(t) ELSE Beside(s, t)
  IN IF joined # NotOne /\ IsRemote(s) /\ ~IsRemote(joined) THEN NotOne ELSE joined
=============================================================================
