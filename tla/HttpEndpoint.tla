---------------------------- MODULE HttpEndpoint ----------------------------
(***************************************************************************)
(* The requests of HttpClientImpl: the endpoint that                       *)
(* getEndpointWithRequestParam puts together piece by piece, and the use   *)
(* the two GETs and the POST make of it.  A text is a sequence of pieces:  *)
(* the separators, and names whose spelling does not matter.  What the     *)
(* library does with a request, and its timeout, are left out.             *)
(***************************************************************************)
EXTENDS Naturals, SequencesExt

CONSTANTS
    Path,     \* the endpoint as the caller gives it
    Names,    \* the keys, in the order of std::map
    Texts     \* the values

Separators == {"?", "&"}

Piece ==
    Separators \cup {"="} \cup ToSet(Path) \cup ToSet(Names)
               \cup UNION {ToSet(text) : text \in Texts}

\* What the constants have to satisfy: nothing is escaped, so that the caller's
\* endpoint and the keys are without separators.  The values may hold some.
ConstantsOK ==
    /\ Path \in Seq(Piece) /\ Names \in Seq(Piece) /\ Texts \subseteq Seq(Piece)
    /\ IsInjective(Names)
    /\ Separators \cap (ToSet(Path) \cup ToSet(Names)) = {}

VARIABLES
    pc,         \* "idle", "loop" or "sent"
    method,     \* of the request
    param,      \* the parameters, a function from the keys that are given
    endpoint,   \* the local endpoint, as far as it has got
    rest        \* the keys that the loop has yet to come to

vars == <<pc, method, param, endpoint, rest>>

NoParam == [name \in {} |-> <<>>]
RequestParam == UNION {[keys -> Texts] : keys \in SUBSET ToSet(Names)}

-----------------------------------------------------------------------------
requestHttpGET ==
    /\ pc = "idle"
    /\ pc' = "sent" /\ method' = "GET" /\ param' = NoParam /\ endpoint' = Path
    /\ UNCHANGED rest

requestHttpPOST ==
    /\ pc = "idle"
    /\ pc' = "sent" /\ method' = "POST" /\ param' = NoParam /\ endpoint' = Path
    /\ UNCHANGED rest

\* The GET with parameters; without any the endpoint stays as it is.
requestHttpGETWithParam(p) ==
    /\ pc = "idle"
    /\ method' = "GET" /\ param' = p
    /\ IF DOMAIN p = {}
       THEN pc' = "sent" /\ endpoint' = Path /\ UNCHANGED rest
       ELSE /\ pc' = "loop" /\ endpoint' = Append(Path, "?")
            /\ rest' = DOMAIN p

\* Mutant: no separator is put before the second key.
PairUnseparated(name) == endpoint \o <<name, "=">> \o param[name]

\* The flag first holds as long as only the question mark has been added.
First == Len(endpoint) = Len(Path) + 1

WithPair(name) ==
    endpoint \o (IF First THEN <<>> ELSE <<"&">>) \o <<name, "=">> \o param[name]

\* The order of std::map: no key that is left comes before this one.
Foremost(name) ==
    \A other \in rest :
       \E i, j \in DOMAIN Names : Names[i] = name /\ Names[j] = other /\ i <= j

getEndpointWithRequestParam ==
    /\ pc = "loop"
    /\ \E name \in rest :
          /\ Foremost(name)
          /\ endpoint' = WithPair(name)
          /\ rest' = rest \ {name}
    /\ UNCHANGED <<pc, method, param>>

Sends ==
    /\ pc = "loop" /\ rest = {}
    /\ pc' = "sent"
    /\ UNCHANGED <<method, param, endpoint, rest>>

Returns ==
    /\ pc = "sent"
    /\ pc' = "idle" /\ method' = "none" /\ param' = NoParam /\ endpoint' = <<>>
    /\ UNCHANGED rest

Init == pc = "idle" /\ method = "none" /\ param = NoParam /\ endpoint = <<>> /\ rest = {}

Next ==
    \/ requestHttpGET \/ requestHttpPOST
    \/ \E p \in RequestParam : requestHttpGETWithParam(p)
    \/ getEndpointWithRequestParam \/ Sends \/ Returns

Spec == Init /\ [][Next]_vars

-----------------------------------------------------------------------------
(* Properties.                                                              *)

\* What a server takes from a target: after "?" and after every "&" a key, "="
\* and the value, which goes on to the next "&" or to the end.  A span is the
\* place of the separator and the one after the value.
Spans(target) ==
    {span \in (1 .. Len(target) - 2) \X (4 .. Len(target) + 1) :
        /\ span[1] + 3 <= span[2]
        /\ target[span[1]] \in Separators /\ target[span[1] + 2] = "="
        /\ span[2] = Len(target) + 1 \/ target[span[2]] = "&"
        /\ \A k \in span[1] + 3 .. span[2] - 1 : target[k] # "&"}

Query(target) ==
    {<<target[span[1] + 1], SubSeq(target, span[1] + 3, span[2] - 1)>> : span \in Spans(target)}

Plain(p) == \A name \in DOMAIN p : ToSet(p[name]) \cap Separators = {}

\* The server reads from the endpoint of a request the parameters it was given,
\* and is asked for the caller's endpoint itself where there are none.  The
\* values are not escaped: with an "&" in one it reads something else.
ServerReadsParams ==
    pc = "sent" /\ Plain(param) =>
        /\ Query(endpoint) = {<<name, param[name]>> : name \in DOMAIN param}
        /\ DOMAIN param = {} <=> endpoint = Path

=============================================================================
