------------------------------ MODULE FastHttp ------------------------------
(***************************************************************************)
(* FastResponse of service/fasthttp.go, called from several goroutines,    *)
(* and the dialer through which a client with a proxy opens connections.   *)
(* Every call takes a response from fasthttp's pool, lets the client fill  *)
(* it, copies what the caller wants into the caller's FastResArg and gives *)
(* the response back as it returns.                                        *)
(*                                                                         *)
(* A goroutine calls more than once with the same FastResArg, and with the *)
(* cookies of one call as those of the next, the way a session is kept.    *)
(***************************************************************************)
EXTENDS Naturals, FiniteSets, SequencesExt

CONSTANTS Plain,      \* goroutines that call FastResponse
          Tracers,    \* goroutines that call GinTracer.FastResponse
          Buffers,    \* the responses of the pool
          Conns,      \* the connections to the proxy
          SetCookies, \* the cookies a response may set, as sequences
          MaxCalls,   \* bound: the calls of each goroutine
          None

Callers == Plain \cup Tracers

\* A cookie "name=value" is a number; 0 is the empty string, which sorts
\* before all others.
EmptyString == 0

ASSUME CookiesAssumption == SetCookies \subseteq Seq(Nat \ {EmptyString})

ASSUME PoolAssumption == MaxCalls \in Nat /\ None \notin Buffers \cup Conns

\* What a buffer holds: the answer to a goroutine's n-th call, the first
\* part of it, or nothing yet.
Answer(c, n) == <<c, n>>
Content == (Callers \X (1..MaxCalls)) \cup {None}

VARIABLES proxied,  \* the client has the dialer
          free,     \* the responses in the pool
          content,  \* content[b]: the answer last written to the body of b
          call,     \* call[c]: the call c is in, if any
          dial,     \* dial[c]: the dialer at work for c's call
          conn,     \* the state of each connection
          res,      \* res[c]: c's FastResArg
          result,   \* result[c]: what c's last call returned
          unsent    \* history: how many CONNECTs could not be written

vars == <<proxied, free, content, call, dial, conn, res, result, unsent>>
dialing == <<proxied, dial, conn, unsent>>

NoCall == [pc |-> "idle"]
InCall(c) == call[c].pc # "idle"
NoDial == [pc |-> "none", conn |-> None, buf |-> None]

TypeOK ==
    /\ free \subseteq Buffers
    /\ content \in [Buffers -> Content]
    /\ \A c \in Callers :
          /\ call[c] = NoCall \/ call[c] \in
                 [pc : {"do", "got"}, buf : Buffers, json : BOOLEAN, merge : BOOLEAN]
          /\ res[c].calls \in 0..MaxCalls
          /\ res[c].status \in {None, "200", "other"}
          /\ res[c].body \in Buffers \cup {None}
          /\ res[c].bodyOf \in 0..MaxCalls
          /\ res[c].json \in Content
          /\ res[c].cookie \in Seq(Nat)
    /\ result \in [Callers -> BOOLEAN]
    /\ conn \in [Conns -> {"unused", "dialer", "client", "closed"}]
    /\ \A c \in Callers : dial[c] = NoDial \/ dial[c] \in
          [pc : {"write"}, conn : Conns, buf : {None}]
          \cup [pc : {"read"}, conn : Conns, buf : Buffers]
    /\ proxied \in BOOLEAN /\ unsent \in Nat

\* InitFastHttp, with the address of a proxy and without.
Init ==
    /\ proxied \in BOOLEAN
    /\ dial = [c \in Callers |-> NoDial]
    /\ conn = [n \in Conns |-> "unused"]
    /\ unsent = 0
    /\ free = Buffers
    /\ content = [b \in Buffers |-> None]
    /\ call = [c \in Callers |-> NoCall]
    /\ res = [c \in Callers |-> [calls |-> 0, status |-> None, body |-> None,
                                 bodyOf |-> 0, json |-> None, cookie |-> <<>>]]
    /\ result = [c \in Callers |-> FALSE]

-----------------------------------------------------------------------------
(* Cookies.                                                                *)

\* sort.Strings: the i-th value has fewer than i below it, and i with those
\* equal to it.
Sorted(s) ==
    LET Below(v)  == {j \in DOMAIN s : s[j] < v}
        AtMost(v) == {j \in DOMAIN s : s[j] <= v}
    IN  [i \in DOMAIN s |-> CHOOSE v \in ToSet(s) :
             Cardinality(Below(v)) < i /\ i <= Cardinality(AtMost(v))]

\* sort.SearchStrings, and whether what it finds is v.
Found(s, v) ==
    LET notLess == {i \in 1..Len(s) : s[i] >= v}
    IN  notLess # {} /\ s[CHOOSE i \in notLess : \A j \in notLess : i <= j] = v

\* Mutant: StringInSlice searches without sorting.
AddMissingUnsorted(s, v) == IF Found(s, v) THEN s ELSE Append(s, v)

\* StringInSlice sorts the slice it is given, in place; a cookie it does not
\* find is appended.
AddMissing(s, v) ==
    IF Found(Sorted(s), v) THEN Sorted(s) ELSE Append(Sorted(s), v)

\* strings.Split of an empty Cookie yields one empty string.
Split(cookie) == IF cookie = <<>> THEN <<EmptyString>> ELSE cookie

Join(s) == IF s = <<EmptyString>> THEN <<>> ELSE s

Merge(new, cookie) == Join(FoldLeft(AddMissing, new, Split(cookie)))

-----------------------------------------------------------------------------
(* One call.                                                               *)

\* A response is acquired and the request sent.
Begin(c) ==
    /\ ~InCall(c) /\ res[c].calls < MaxCalls
    /\ \E b \in free, json, merge \in BOOLEAN :
          /\ free' = free \ {b}
          /\ call' = [call EXCEPT ![c] =
                         [pc |-> "do", buf |-> b, json |-> json, merge |-> merge]]
    /\ res' = [res EXCEPT ![c].calls = @ + 1]
    /\ UNCHANGED <<content, result, dialing>>

\* Mutant: the error path returns without giving the response back.
LeaveHeld(c, ok) ==
    /\ free' = IF ok THEN free \cup {call[c].buf} ELSE free
    /\ call' = [call EXCEPT ![c] = NoCall]
    /\ result' = [result EXCEPT ![c] = ok]

\* Every return gives the response back.
Leave(c, ok) ==
    /\ free' = free \cup {call[c].buf}
    /\ call' = [call EXCEPT ![c] = NoCall]
    /\ result' = [result EXCEPT ![c] = ok]

\* Do fails, having written a part of the answer or none.  The FastResArg
\* keeps what it had.
Fail(c) ==
    /\ call[c].pc = "do" /\ dial[c] = NoDial
    /\ content' \in {content, [content EXCEPT ![call[c].buf] = None]}
    /\ Leave(c, FALSE)
    /\ UNCHANGED <<res, dialing>>

-----------------------------------------------------------------------------
(* fastHTTPDialer, called by Do when it has no connection to use.          *)

DialProxy(c) ==
    /\ proxied /\ call[c].pc = "do" /\ dial[c] = NoDial
    /\ \E n \in Conns :
          /\ conn[n] = "unused"
          /\ conn' = [conn EXCEPT ![n] = "dialer"]
          /\ dial' = [dial EXCEPT ![c] = [pc |-> "write", conn |-> n, buf |-> None]]
    /\ UNCHANGED <<proxied, free, content, call, res, result, unsent>>

\* The error of Write is returned, and Do's with it; the connection is left.
WriteFails(c) ==
    /\ dial[c].pc = "write"
    /\ unsent' = unsent + 1
    /\ dial' = [dial EXCEPT ![c] = NoDial]
    /\ Leave(c, FALSE)
    /\ UNCHANGED <<proxied, content, conn, res>>

SendConnect(c) ==
    /\ dial[c].pc = "write"
    /\ \E b \in free :
          /\ free' = free \ {b}
          /\ dial' = [dial EXCEPT ![c].pc = "read", ![c].buf = b]
    /\ UNCHANGED <<proxied, content, call, conn, res, result, unsent>>

\* Nothing is read, or no 200: Do fails.
ProxyRefuses(c) ==
    /\ dial[c].pc = "read"
    /\ conn' = [conn EXCEPT ![dial[c].conn] = "closed"]
    /\ dial' = [dial EXCEPT ![c] = NoDial]
    /\ free' = free \cup {dial[c].buf, call[c].buf}
    /\ call' = [call EXCEPT ![c] = NoCall]
    /\ result' = [result EXCEPT ![c] = FALSE]
    /\ UNCHANGED <<proxied, content, res, unsent>>

\* The connection is the client's, who sends the request.  SkipBody keeps
\* the dialer's response from being written.
ProxyConnects(c) ==
    /\ dial[c].pc = "read"
    /\ conn' = [conn EXCEPT ![dial[c].conn] = "client"]
    /\ dial' = [dial EXCEPT ![c] = NoDial]
    /\ free' = free \cup {dial[c].buf}
    /\ UNCHANGED <<proxied, content, call, res, result, unsent>>

FastHTTPDialer(c) ==
    DialProxy(c) \/ WriteFails(c) \/ SendConnect(c) \/ ProxyRefuses(c) \/ ProxyConnects(c)

-----------------------------------------------------------------------------
\* Mutant: the response is given back as soon as it has been received.
ReceiveAndRelease(c) ==
    /\ call[c].pc = "do" /\ dial[c] = NoDial
    /\ content' = [content EXCEPT ![call[c].buf] = Answer(c, res[c].calls)]
    /\ call' = [call EXCEPT ![c].pc = "got"]
    /\ free' = free \cup {call[c].buf}
    /\ UNCHANGED <<res, result, dialing>>

\* Do fills the response.
Receive(c) ==
    /\ call[c].pc = "do" /\ dial[c] = NoDial
    /\ content' = [content EXCEPT ![call[c].buf] = Answer(c, res[c].calls)]
    /\ call' = [call EXCEPT ![c].pc = "got"]
    /\ UNCHANGED <<free, res, result, dialing>>

\* Mutant: the value keeps the bytes of the response to decode them later.
DecodeLazily(c) == call[c].buf

\* Json2Struct: what the caller's value holds afterwards shares nothing with
\* the response.
Decode(c) == content[call[c].buf]

\* Cookie, StatusCode and Header are set whatever the status is.
Headed(c, status, new) ==
    [res[c] EXCEPT !.status = status,
                   !.cookie = IF call[c].merge THEN Merge(new, @) ELSE new]

(* Only a 200 has its body looked at.  JSON is decoded into the caller's   *)
(* value; otherwise Body becomes the slice of the response itself.         *)
Conclude(c) ==
    /\ call[c].pc = "got"
    /\ \E status \in {"200", "other"}, new \in SetCookies :
          LET r == Headed(c, status, new)
          IN  \/ /\ status = "other"
                 /\ res' = [res EXCEPT ![c] = r]
                 /\ Leave(c, FALSE)
              \/ /\ status = "200" /\ call[c].json
                 /\ res' = [res EXCEPT ![c] = [r EXCEPT !.json = Decode(c)]]
                 /\ Leave(c, TRUE)
              \/ /\ status = "200" /\ call[c].json
                 /\ res' = [res EXCEPT ![c] = [r EXCEPT !.json = None]]
                 /\ Leave(c, FALSE)
              \/ /\ status = "200" /\ ~call[c].json
                 /\ res' = [res EXCEPT ![c] = [r EXCEPT !.body = call[c].buf,
                                                        !.bodyOf = r.calls]]
                 /\ Leave(c, TRUE)
    /\ UNCHANGED <<content, dialing>>

-----------------------------------------------------------------------------
(* The two functions differ in the logger they use, and in nothing else.   *)

FastResponse(c) == Begin(c) \/ Fail(c) \/ Receive(c) \/ Conclude(c)

TracerFastResponse(c) == Begin(c) \/ Fail(c) \/ Receive(c) \/ Conclude(c)

Next ==
    \/ \E c \in Plain : FastResponse(c)
    \/ \E c \in Tracers : TracerFastResponse(c)
    \/ \E c \in Callers : FastHTTPDialer(c)

Spec == Init /\ [][Next]_vars

-----------------------------------------------------------------------------
(* Properties.                                                             *)

CallsWith(b) == {c \in Callers : InCall(c) /\ call[c].buf = b}
DialsWith(b) == {c \in Callers : dial[c].buf = b}
Lost == {n \in Conns : conn[n] = "dialer" /\ \A c \in Callers : dial[c].conn # n}

(* However a call ends, and its dialing with it, responses go back to the  *)
(* pool, once only: each is free or in one call's hands.  Every connection *)
(* opened is the client's, closed or being dialed, but for one lost each   *)
(* time a CONNECT could not be written (fasthttp.go:57).                   *)
ResourcesAreAccountedFor ==
    /\ \A b \in Buffers :
          Cardinality(CallsWith(b)) + Cardinality(DialsWith(b)) = IF b \in free THEN 0 ELSE 1
    /\ Cardinality(Lost) = unsent

(* A call that has returned true was answered with a 200; if it asked for  *)
(* JSON the value is decoded from the answer to that very call, and stays  *)
(* so whoever uses the response next.                                      *)
JsonIsOwn ==
    \A c \in Callers : result[c] /\ ~InCall(c) =>
        /\ res[c].status = "200"
        /\ res[c].bodyOf # res[c].calls => res[c].json = Answer(c, res[c].calls)

\* The server sets no cookie twice.
SetOnce == \A s \in SetCookies : IsInjective(s)

(* Merging cookies forgets none, and makes no duplicates where the server  *)
(* sent none, although it goes through a binary search and reorders what   *)
(* it searches.                                                            *)
MergeKeepsCookies ==
    [][\A c \in Callers :
          call[c].pc = "got" /\ ~InCall(c)' /\ call[c].merge =>
              /\ ToSet(res[c].cookie) \ {EmptyString} \subseteq ToSet(res'[c].cookie)
              /\ SetOnce => IsInjective(res'[c].cookie)]_vars

(* "Release when done with it", the code says of the response: what a      *)
(* caller was given as Body is the answer to its call, at any later time.  *)
BodyIsOwn ==
    \A c \in Callers :
        result[c] /\ ~InCall(c) /\ res[c].bodyOf = res[c].calls
        => content[res[c].body] = Answer(c, res[c].calls)

=============================================================================
