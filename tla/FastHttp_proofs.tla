--------------------------- MODULE FastHttp_proofs --------------------------
(***************************************************************************)
(* FastResponse gives back what it takes and hands out what is the         *)
(* caller's own, for every number of goroutines, calls, responses in the   *)
(* pool and connections, and loses no cookie, for any cookies.             *)
(***************************************************************************)
EXTENDS FastHttp, FiniteSetTheorems, WellFoundedInduction, TLAPS

-----------------------------------------------------------------------------
(* Types, of all but the cookies.                                          *)

Call == [pc : {"do", "got"}, buf : Buffers, json : BOOLEAN, merge : BOOLEAN]

Dial == [pc : {"write"}, conn : Conns, buf : {None}]
        \cup [pc : {"read"}, conn : Conns, buf : Buffers]

\* A FastResArg, whatever its Cookie holds.
IsArg(r) ==
    /\ r = [calls |-> r.calls, status |-> r.status, body |-> r.body,
            bodyOf |-> r.bodyOf, json |-> r.json, cookie |-> r.cookie]
    /\ r.calls \in 0..MaxCalls /\ r.bodyOf \in 0..MaxCalls
    /\ r.status \in {None, "200", "other"}
    /\ r.body \in Buffers \cup {None}
    /\ r.json \in Content

Types ==
    /\ free \subseteq Buffers
    /\ content \in [Buffers -> Content]
    /\ call \in [Callers -> Call \cup {NoCall}]
    /\ dial \in [Callers -> Dial \cup {NoDial}]
    /\ conn \in [Conns -> {"unused", "dialer", "client", "closed"}]
    /\ DOMAIN res = Callers /\ res = [c \in Callers |-> res[c]]
    /\ \A c \in Callers : IsArg(res[c])
    /\ result \in [Callers -> BOOLEAN]
    /\ proxied \in BOOLEAN /\ unsent \in Nat
    /\ \A c \in Callers : dial[c] # NoDial => call[c].pc = "do"

LEMMA CallFacts ==
    ASSUME Types, NEW c \in Callers
    PROVE  /\ call[c] = NoCall \/ call[c] \in Call
           /\ InCall(c) <=> call[c] \in Call
           /\ InCall(c) => call[c].buf \in Buffers
           /\ call[c].pc \in {"do", "got"} => InCall(c)
           /\ call[c].pc \in {"idle", "do", "got"}
           /\ NoCall.pc = "idle"
<1>1. call[c] = NoCall \/ call[c] \in Call
  BY DEF Types
<1>2. NoCall.pc = "idle" /\ \A k \in Call : k.pc \in {"do", "got"} /\ k.buf \in Buffers
  BY DEF NoCall, Call
<1>3. QED
  BY <1>1, <1>2 DEF InCall

LEMMA DialFacts ==
    ASSUME Types, NEW c \in Callers
    PROVE  /\ dial[c].pc = "write" => /\ dial[c].conn \in Conns /\ dial[c].buf = None
                                      /\ dial[c] # NoDial
           /\ dial[c].pc = "read" => /\ dial[c].conn \in Conns /\ dial[c].buf \in Buffers
                                     /\ dial[c] # NoDial
           /\ dial[c].pc \notin {"write", "read"} => dial[c] = NoDial
           /\ NoDial.buf = None /\ NoDial.conn = None /\ NoDial.pc = "none"
<1>1. dial[c] = NoDial \/ dial[c] \in Dial
  BY DEF Types
<1>2. NoDial.buf = None /\ NoDial.conn = None /\ NoDial.pc = "none"
  BY DEF NoDial
<1>3. \A d \in Dial : \/ d.pc = "write" /\ d.conn \in Conns /\ d.buf = None
                      \/ d.pc = "read" /\ d.conn \in Conns /\ d.buf \in Buffers
  BY DEF Dial
<1>4. QED
  BY <1>1, <1>2, <1>3

LEMMA TypesInit == Init => Types
<1> SUFFICES ASSUME Init PROVE Types
  OBVIOUS
<1> DEFINE arg == [calls |-> 0, status |-> None, body |-> None,
                   bodyOf |-> 0, json |-> None, cookie |-> <<>>]
<1>1. IsArg(arg)
  BY PoolAssumption DEF IsArg, Content
<1>2. res = [c \in Callers |-> arg]
  BY DEF Init
<1> HIDE DEF arg
<1>3. DOMAIN res = Callers /\ res = [c \in Callers |-> res[c]]
      /\ \A c \in Callers : IsArg(res[c])
  BY <1>1, <1>2
<1>4. QED
  BY <1>3 DEF Init, Types, Content

\* What a call leaves in its caller's argument is an argument still.
LEMMA ArgStep ==
    ASSUME Types, NEW c \in Callers, NEW a, IsArg(a),
           res' = [res EXCEPT ![c] = a]
    PROVE  /\ DOMAIN res' = Callers /\ res' = [d \in Callers |-> res'[d]]
           /\ \A d \in Callers : IsArg(res'[d])
BY DEF Types

LEMMA HeadedFacts ==
    ASSUME Types, NEW c \in Callers, NEW status \in {"200", "other"}, NEW new
    PROVE  LET r == Headed(c, status, new)
           IN  /\ IsArg(r) /\ r.calls = res[c].calls /\ r.status = status
               /\ r.bodyOf = res[c].bodyOf /\ r.json = res[c].json
               /\ r.cookie = IF call[c].merge THEN Merge(new, res[c].cookie) ELSE new
<1> DEFINE a == res[c]
           k == IF call[c].merge THEN Merge(new, a.cookie) ELSE new
<1>1. Headed(c, status, new) = [a EXCEPT !.status = status, !.cookie = k]
  BY DEF Headed
<1>2. IsArg(a)
  BY DEF Types
<1> HIDE DEF a, k
<1> DEFINE r == [a EXCEPT !.status = status, !.cookie = k]
           b == [a EXCEPT !.status = status]
<1>3. r = [calls |-> a.calls, status |-> status, body |-> a.body,
           bodyOf |-> a.bodyOf, json |-> a.json, cookie |-> k]
  <2>1. a = [calls |-> a.calls, status |-> a.status, body |-> a.body,
             bodyOf |-> a.bodyOf, json |-> a.json, cookie |-> a.cookie]
    BY <1>2 DEF IsArg
  <2>2. b = [calls |-> a.calls, status |-> status, body |-> a.body,
             bodyOf |-> a.bodyOf, json |-> a.json, cookie |-> a.cookie]
    BY <2>1
  <2>3. r = [b EXCEPT !.cookie = k]
    OBVIOUS
  <2> HIDE DEF b, r
  <2>4. b.calls = a.calls /\ b.body = a.body /\ b.bodyOf = a.bodyOf /\ b.json = a.json
        /\ b.status = status
    BY <2>2
  <2>5. [b EXCEPT !.cookie = k]
        = [calls |-> a.calls, status |-> status, body |-> a.body,
           bodyOf |-> a.bodyOf, json |-> a.json, cookie |-> k]
    BY <2>2
  <2>6. QED
    BY <2>3, <2>5
<1> HIDE DEF r
<1>4. /\ r.calls = a.calls /\ r.status = status /\ r.body = a.body
      /\ r.bodyOf = a.bodyOf /\ r.json = a.json /\ r.cookie = k
  BY <1>3
<1>5. IsArg(r)
  BY <1>2, <1>3, <1>4 DEF IsArg
<1>6. QED
  BY <1>1, <1>4, <1>5 DEF r, a, k

\* How a call ends that was answered.
LEMMA ConcludeFacts ==
    ASSUME Types, NEW c \in Callers, Conclude(c)
    PROVE  /\ call[c].pc = "got" /\ call[c] \in Call
           /\ UNCHANGED <<content, dialing>>
           /\ \E ok \in BOOLEAN : \E a :
                 /\ IsArg(a) /\ a.calls = res[c].calls
                 /\ res' = [res EXCEPT ![c] = a]
                 /\ Leave(c, ok)
                 /\ ok => /\ a.status = "200"
                          /\ a.bodyOf # a.calls => a.json = content[call[c].buf]
<1>1. call[c].pc = "got" /\ call[c] \in Call /\ UNCHANGED <<content, dialing>>
  BY CallFacts DEF Conclude
<1> DEFINE Ends(ok, a) ==
        /\ IsArg(a) /\ a.calls = res[c].calls
        /\ res' = [res EXCEPT ![c] = a]
        /\ Leave(c, ok)
        /\ ok => /\ a.status = "200"
                 /\ a.bodyOf # a.calls => a.json = content[call[c].buf]
<1>2. PICK status \in {"200", "other"}, new \in SetCookies :
          LET r == Headed(c, status, new)
          IN  \/ status = "other" /\ res' = [res EXCEPT ![c] = r] /\ Leave(c, FALSE)
              \/ /\ status = "200"
                 /\ res' = [res EXCEPT ![c] = [r EXCEPT !.json = Decode(c)]]
                 /\ Leave(c, TRUE)
              \/ /\ status = "200"
                 /\ res' = [res EXCEPT ![c] = [r EXCEPT !.json = None]]
                 /\ Leave(c, FALSE)
              \/ /\ status = "200"
                 /\ res' = [res EXCEPT ![c] = [r EXCEPT !.body = call[c].buf,
                                                        !.bodyOf = r.calls]]
                 /\ Leave(c, TRUE)
  BY DEF Conclude
<1> DEFINE r == Headed(c, status, new)
<1>3. IsArg(r) /\ r.calls = res[c].calls /\ r.status = status
  BY HeadedFacts
<1>4. content[call[c].buf] \in Content /\ None \in Content /\ call[c].buf \in Buffers
  BY <1>1 DEF Types, Call, Content
<1> HIDE DEF r
<1>5. ASSUME NEW j \in Content, NEW a, a = [r EXCEPT !.json = j]
      PROVE  /\ IsArg(a) /\ a.calls = res[c].calls /\ a.status = status
             /\ a.json = j
  <2>1. a = [calls |-> r.calls, status |-> r.status, body |-> r.body,
             bodyOf |-> r.bodyOf, json |-> j, cookie |-> r.cookie]
    BY <1>3, <1>5 DEF IsArg
  <2>2. /\ a.calls = r.calls /\ a.status = r.status /\ a.body = r.body
        /\ a.bodyOf = r.bodyOf /\ a.json = j /\ a.cookie = r.cookie
    BY <2>1
  <2>3. IsArg(a)
    BY <1>3, <2>1, <2>2 DEF IsArg
  <2>4. QED
    BY <1>3, <2>2, <2>3
<1>6. CASE status = "other" /\ res' = [res EXCEPT ![c] = r] /\ Leave(c, FALSE)
  <2>1. Ends(FALSE, r)
    BY <1>3, <1>6
  <2> HIDE DEF Ends
  <2>2. \E ok \in BOOLEAN : \E a : Ends(ok, a)
    BY <2>1
  <2>3. QED
    BY <1>1, <2>2 DEF Ends
<1>7. CASE /\ status = "200"
           /\ res' = [res EXCEPT ![c] = [r EXCEPT !.json = Decode(c)]]
           /\ Leave(c, TRUE)
  <2> DEFINE a == [r EXCEPT !.json = Decode(c)]
  <2>1. /\ IsArg(a) /\ a.calls = res[c].calls /\ a.status = status
        /\ a.json = content[call[c].buf]
    BY <1>4, <1>5 DEF Decode
  <2>2. res' = [res EXCEPT ![c] = a]
    BY <1>7
  <2> HIDE DEF a
  <2>3. Ends(TRUE, a)
    BY <1>7, <2>1, <2>2
  <2> HIDE DEF Ends
  <2>4. \E ok \in BOOLEAN : \E b : Ends(ok, b)
    BY <2>3
  <2>5. QED
    BY <1>1, <2>4 DEF Ends
<1>8. CASE /\ status = "200"
           /\ res' = [res EXCEPT ![c] = [r EXCEPT !.json = None]]
           /\ Leave(c, FALSE)
  <2> DEFINE a == [r EXCEPT !.json = None]
  <2>1. IsArg(a) /\ a.calls = res[c].calls
    BY <1>4, <1>5
  <2>2. res' = [res EXCEPT ![c] = a]
    BY <1>8
  <2> HIDE DEF a
  <2>3. Ends(FALSE, a)
    BY <1>8, <2>1, <2>2
  <2> HIDE DEF Ends
  <2>4. \E ok \in BOOLEAN : \E b : Ends(ok, b)
    BY <2>3
  <2>5. QED
    BY <1>1, <2>4 DEF Ends
<1>9. CASE /\ status = "200"
           /\ res' = [res EXCEPT ![c] = [r EXCEPT !.body = call[c].buf,
                                                  !.bodyOf = r.calls]]
           /\ Leave(c, TRUE)
  <2> DEFINE a == [r EXCEPT !.body = call[c].buf, !.bodyOf = r.calls]
             b == [r EXCEPT !.body = call[c].buf]
  <2>1. b = [calls |-> r.calls, status |-> r.status, body |-> call[c].buf,
             bodyOf |-> r.bodyOf, json |-> r.json, cookie |-> r.cookie]
    BY <1>3 DEF IsArg
  <2>2. a = [b EXCEPT !.bodyOf = r.calls]
    OBVIOUS
  <2> HIDE DEF a, b
  <2>3. a = [calls |-> r.calls, status |-> r.status, body |-> call[c].buf,
             bodyOf |-> r.calls, json |-> r.json, cookie |-> r.cookie]
    BY <2>1, <2>2
  <2>4. /\ a.calls = r.calls /\ a.status = r.status /\ a.body = call[c].buf
        /\ a.bodyOf = r.calls /\ a.json = r.json /\ a.cookie = r.cookie
    BY <2>3
  <2>5. IsArg(a)
    BY <1>3, <1>4, <2>3, <2>4 DEF IsArg
  <2>6. res' = [res EXCEPT ![c] = a]
    BY <1>9 DEF a
  <2>7. Ends(TRUE, a)
    BY <1>3, <1>9, <2>4, <2>5, <2>6
  <2> HIDE DEF Ends
  <2>8. \E ok \in BOOLEAN : \E d : Ends(ok, d)
    BY <2>7
  <2>9. QED
    BY <1>1, <2>8 DEF Ends
<1>10. QED
  BY <1>2, <1>6, <1>7, <1>8, <1>9 DEF r

\* A goroutine that is in a call has begun one.
Counted == \A c \in Callers : InCall(c) => res[c].calls # 0

LEMMA TypesStep == Types /\ Counted /\ [Next]_vars => Types'
<1> SUFFICES ASSUME Types, Counted, [Next]_vars PROVE Types'
  OBVIOUS
<1>1. ASSUME NEW c \in Callers, Begin(c)
      PROVE  Types'
  <2> DEFINE a == [res[c] EXCEPT !.calls = @ + 1]
  <2>1. IsArg(res[c]) /\ call[c] = NoCall
    BY <1>1, CallFacts DEF Begin, Types
  <2>2. a = [calls |-> res[c].calls + 1, status |-> res[c].status, body |-> res[c].body,
             bodyOf |-> res[c].bodyOf, json |-> res[c].json, cookie |-> res[c].cookie]
    BY <2>1 DEF IsArg
  <2>3. res' = [res EXCEPT ![c] = a]
    BY <1>1 DEF Begin
  <2>4. res[c].calls + 1 \in 0..MaxCalls
    BY <1>1, <2>1, PoolAssumption DEF Begin, IsArg
  <2> HIDE DEF a
  <2>5. /\ a.calls = res[c].calls + 1 /\ a.status = res[c].status /\ a.body = res[c].body
        /\ a.bodyOf = res[c].bodyOf /\ a.json = res[c].json /\ a.cookie = res[c].cookie
    BY <2>2
  <2>6. IsArg(a)
    BY <2>1, <2>2, <2>4, <2>5 DEF IsArg
  <2>7. /\ DOMAIN res' = Callers /\ res' = [d \in Callers |-> res'[d]]
        /\ \A d \in Callers : IsArg(res'[d])
    BY <2>3, <2>6, ArgStep
  <2>8. PICK b \in free, json, merge \in BOOLEAN :
           /\ free' = free \ {b}
           /\ call' = [call EXCEPT ![c] =
                          [pc |-> "do", buf |-> b, json |-> json, merge |-> merge]]
    BY <1>1 DEF Begin
  <2>9. [pc |-> "do", buf |-> b, json |-> json, merge |-> merge] \in Call
    BY DEF Types, Call
  <2>10. /\ free' \subseteq Buffers /\ call' \in [Callers -> Call \cup {NoCall}]
    BY <2>8, <2>9 DEF Types
  <2>11. \A d \in Callers : dial'[d] # NoDial => call'[d].pc = "do"
    BY <1>1, <2>1, <2>8 DEF Begin, Types, dialing
  <2>12. QED
    BY <1>1, <2>7, <2>10, <2>11 DEF Begin, Types, dialing
<1>2. ASSUME NEW c \in Callers, NEW ok \in BOOLEAN, Leave(c, ok), call[c] \in Call
      PROVE  /\ free' \subseteq Buffers
             /\ call' \in [Callers -> Call \cup {NoCall}]
             /\ result' \in [Callers -> BOOLEAN]
             /\ \A d \in Callers \ {c} : call'[d] = call[d]
  BY <1>2 DEF Leave, Types, Call
<1>3. ASSUME NEW c \in Callers, Fail(c)
      PROVE  Types'
  <2>1. call[c] \in Call /\ Leave(c, FALSE)
    BY <1>3, CallFacts DEF Fail
  <2>2. content' \in [Buffers -> Content]
    BY <1>3 DEF Fail, Types, Content
  <2>3. /\ free' \subseteq Buffers /\ call' \in [Callers -> Call \cup {NoCall}]
        /\ result' \in [Callers -> BOOLEAN]
        /\ \A d \in Callers \ {c} : call'[d] = call[d]
    BY <1>2, <2>1
  <2>4. dial'[c] = NoDial /\ dial' = dial
    BY <1>3 DEF Fail, dialing
  <2>5. \A d \in Callers : dial'[d] # NoDial => call'[d].pc = "do"
    BY <2>3, <2>4 DEF Types
  <2>6. QED
    BY <1>3, <2>2, <2>3, <2>5 DEF Fail, Types, dialing
<1>4. ASSUME NEW c \in Callers, DialProxy(c)
      PROVE  Types'
  <2>1. PICK n \in Conns :
           /\ conn' = [conn EXCEPT ![n] = "dialer"]
           /\ dial' = [dial EXCEPT ![c] = [pc |-> "write", conn |-> n, buf |-> None]]
    BY <1>4 DEF DialProxy
  <2>2. [pc |-> "write", conn |-> n, buf |-> None] \in Dial
    BY DEF Dial
  <2>3. dial' \in [Callers -> Dial \cup {NoDial}] /\ call[c].pc = "do"
        /\ conn' \in [Conns -> {"unused", "dialer", "client", "closed"}]
    BY <1>4, <2>1, <2>2 DEF DialProxy, Types
  <2>4. \A d \in Callers : dial'[d] # NoDial => call'[d].pc = "do"
    BY <1>4, <2>1, <2>3 DEF DialProxy, Types
  <2>5. QED
    BY <1>4, <2>3, <2>4 DEF DialProxy, Types
<1>5. ASSUME NEW c \in Callers, WriteFails(c)
      PROVE  Types'
  <2>1. call[c] \in Call /\ Leave(c, FALSE)
    BY <1>5, CallFacts, DialFacts DEF WriteFails, Types
  <2>2. dial' \in [Callers -> Dial \cup {NoDial}] /\ unsent' \in Nat
    BY <1>5 DEF WriteFails, Types
  <2>3. /\ free' \subseteq Buffers /\ call' \in [Callers -> Call \cup {NoCall}]
        /\ result' \in [Callers -> BOOLEAN]
        /\ \A d \in Callers \ {c} : call'[d] = call[d]
    BY <1>2, <2>1
  <2>4. dial'[c] = NoDial /\ \A d \in Callers \ {c} : dial'[d] = dial[d]
    BY <1>5 DEF WriteFails, Types
  <2>5. \A d \in Callers : dial'[d] # NoDial => call'[d].pc = "do"
    BY <2>3, <2>4 DEF Types
  <2>6. QED
    BY <1>5, <2>2, <2>3, <2>5 DEF WriteFails, Types
<1>6. ASSUME NEW c \in Callers, SendConnect(c)
      PROVE  Types'
  <2>1. PICK b \in free : /\ free' = free \ {b}
                          /\ dial' = [dial EXCEPT ![c].pc = "read", ![c].buf = b]
    BY <1>6 DEF SendConnect
  <2> DEFINE d == [dial[c] EXCEPT !.pc = "read", !.buf = b]
  <2>2. dial[c] \in [pc : {"write"}, conn : Conns, buf : {None}]
    <3>1. dial[c] \in Dial /\ dial[c].pc = "write"
      BY <1>6, DialFacts DEF SendConnect, Types
    <3>2. \A k \in [pc : {"read"}, conn : Conns, buf : Buffers] : k.pc = "read"
      OBVIOUS
    <3>3. QED
      BY <3>1, <3>2 DEF Dial
  <2>3. d \in [pc : {"read"}, conn : Conns, buf : Buffers]
    BY <2>2 DEF Types
  <2>4. dial' = [dial EXCEPT ![c] = d] /\ call[c].pc = "do"
    BY <1>6, <2>1, DialFacts DEF Types, SendConnect
  <2> HIDE DEF d
  <2>5. dial' \in [Callers -> Dial \cup {NoDial}] /\ free' \subseteq Buffers
    <3>1. d \in Dial
      BY <2>3 DEF Dial
    <3>2. free' \subseteq Buffers
      BY <2>1 DEF Types
    <3>3. QED
      BY <2>4, <3>1, <3>2 DEF Types
  <2>6. \A e \in Callers : dial'[e] # NoDial => call'[e].pc = "do"
    BY <1>6, <2>4 DEF SendConnect, Types
  <2>7. QED
    BY <1>6, <2>5, <2>6 DEF SendConnect, Types
<1>7. ASSUME NEW c \in Callers, ProxyRefuses(c)
      PROVE  Types'
  <2>1. call[c] \in Call /\ dial[c].buf \in Buffers /\ dial[c].conn \in Conns
    BY <1>7, CallFacts, DialFacts DEF ProxyRefuses, Types
  <2>2. call[c].buf \in Buffers
    BY <2>1 DEF Call
  <2>3. /\ free' \subseteq Buffers
        /\ conn' \in [Conns -> {"unused", "dialer", "client", "closed"}]
        /\ dial' \in [Callers -> Dial \cup {NoDial}]
        /\ call' \in [Callers -> Call \cup {NoCall}]
        /\ result' \in [Callers -> BOOLEAN]
    BY <1>7, <2>1, <2>2 DEF ProxyRefuses, Types
  <2>4. \A d \in Callers : dial'[d] # NoDial => call'[d].pc = "do"
    BY <1>7 DEF ProxyRefuses, Types
  <2>5. QED
    BY <1>7, <2>3, <2>4 DEF ProxyRefuses, Types
<1>8. ASSUME NEW c \in Callers, ProxyConnects(c)
      PROVE  Types'
  <2>1. dial[c].buf \in Buffers /\ dial[c].conn \in Conns
    BY <1>8, DialFacts DEF ProxyConnects
  <2>2. /\ free' \subseteq Buffers
        /\ conn' \in [Conns -> {"unused", "dialer", "client", "closed"}]
        /\ dial' \in [Callers -> Dial \cup {NoDial}]
    BY <1>8, <2>1 DEF ProxyConnects, Types
  <2>3. \A d \in Callers : dial'[d] # NoDial => call'[d].pc = "do"
    BY <1>8 DEF ProxyConnects, Types
  <2>4. QED
    BY <1>8, <2>2, <2>3 DEF ProxyConnects, Types
<1>9. ASSUME NEW c \in Callers, Receive(c)
      PROVE  Types'
  <2>1. call[c] \in Call
    BY <1>9, CallFacts DEF Receive
  <2>2. Answer(c, res[c].calls) \in Content
    <3>1. res[c].calls # 0 /\ res[c].calls \in 0..MaxCalls
      BY <1>9, CallFacts DEF Receive, Counted, Types, IsArg
    <3>2. res[c].calls \in 1..MaxCalls
      BY <3>1, PoolAssumption
    <3>3. QED
      BY <3>2 DEF Answer, Content
  <2>3. content' \in [Buffers -> Content]
    BY <1>9, <2>2 DEF Receive, Types
  <2> DEFINE k == [call[c] EXCEPT !.pc = "got"]
  <2>4. k \in Call
    BY <2>1 DEF Call
  <2>5. call' = [call EXCEPT ![c] = k]
    BY <1>9 DEF Receive
  <2> HIDE DEF k
  <2>6. call' \in [Callers -> Call \cup {NoCall}]
    BY <2>4, <2>5 DEF Types
  <2>7. dial'[c] = NoDial /\ dial' = dial
    BY <1>9 DEF Receive, dialing
  <2>8. \A d \in Callers : dial'[d] # NoDial => call'[d].pc = "do"
    BY <2>5, <2>7 DEF Types
  <2>9. QED
    BY <1>9, <2>3, <2>6, <2>8 DEF Receive, Types, dialing
<1>10. ASSUME NEW c \in Callers, Conclude(c)
       PROVE  Types'
  <2>1. /\ call[c].pc = "got" /\ call[c] \in Call
        /\ UNCHANGED <<content, dialing>>
    BY <1>10, ConcludeFacts
  <2>2. PICK ok \in BOOLEAN : \E a : IsArg(a) /\ res' = [res EXCEPT ![c] = a] /\ Leave(c, ok)
    BY <1>10, ConcludeFacts
  <2>3. PICK a : IsArg(a) /\ res' = [res EXCEPT ![c] = a] /\ Leave(c, ok)
    BY <2>2
  <2>4. /\ DOMAIN res' = Callers /\ res' = [d \in Callers |-> res'[d]]
        /\ \A d \in Callers : IsArg(res'[d])
    BY <2>3, ArgStep
  <2>5. /\ free' \subseteq Buffers /\ call' \in [Callers -> Call \cup {NoCall}]
        /\ result' \in [Callers -> BOOLEAN]
        /\ \A d \in Callers \ {c} : call'[d] = call[d]
    BY <1>2, <2>1, <2>3
  <2>6. dial[c] = NoDial /\ dial' = dial
    BY <2>1 DEF Types, dialing
  <2>7. \A d \in Callers : dial'[d] # NoDial => call'[d].pc = "do"
    BY <2>5, <2>6 DEF Types
  <2>8. QED
    BY <2>1, <2>4, <2>5, <2>7 DEF Types, dialing
<1>11. CASE UNCHANGED vars
  BY <1>11 DEF vars, dialing, Types
<1>12. QED
  BY <1>1, <1>3, <1>4, <1>5, <1>6, <1>7, <1>8, <1>9, <1>10, <1>11
     DEF Next, FastResponse, TracerFastResponse, FastHTTPDialer, Callers

LEMMA CountedStep == Types /\ Types' /\ Counted /\ [Next]_vars => Counted'
<1> SUFFICES ASSUME Types, Types', Counted, [Next]_vars,
                    NEW c \in Callers, InCall(c)'
             PROVE  res'[c].calls # 0
  BY DEF Counted
<1> USE DEF InCall
<1>1. ASSUME InCall(c), res'[c].calls = res[c].calls
      PROVE  res'[c].calls # 0
  BY <1>1 DEF Counted
<1>2. ASSUME NEW d \in Callers, Begin(d)
      PROVE  res'[c].calls # 0
  <2>1. IsArg(res[d])
    BY DEF Types
  <2>2. CASE d = c
    <3>1. res'[c].calls = res[c].calls + 1
      BY <1>2, <2>1, <2>2 DEF Begin, IsArg, Types
    <3>2. res[c].calls \in Nat
      BY <2>1, <2>2 DEF IsArg
    <3>3. QED
      BY <3>1, <3>2
  <2>3. CASE d # c
    BY <1>1, <1>2, <2>3 DEF Begin, Types
  <2>4. QED
    BY <2>2, <2>3
<1>3. ASSUME NEW d \in Callers, NEW ok \in BOOLEAN, Leave(d, ok),
             d # c => res'[c] = res[c]
      PROVE  res'[c].calls # 0
  <2>1. d # c
    BY <1>3 DEF Leave, Types, NoCall
  <2>2. call'[c] = call[c]
    BY <1>3, <2>1 DEF Leave, Types
  <2>3. QED
    BY <1>1, <1>3, <2>1, <2>2
<1>4. ASSUME NEW d \in Callers, Fail(d) \/ WriteFails(d)
      PROVE  res'[c].calls # 0
  BY <1>3, <1>4 DEF Fail, WriteFails
<1>5. ASSUME NEW d \in Callers, Conclude(d)
      PROVE  res'[c].calls # 0
  <2>1. PICK ok \in BOOLEAN : \E a : res' = [res EXCEPT ![d] = a] /\ Leave(d, ok)
    BY <1>5, ConcludeFacts
  <2>2. d # c => res'[c] = res[c]
    BY <2>1 DEF Types
  <2>3. QED
    BY <1>3, <2>1, <2>2
<1>6. ASSUME NEW d \in Callers, ProxyRefuses(d)
      PROVE  res'[c].calls # 0
  BY <1>1, <1>6 DEF ProxyRefuses, Types, NoCall
<1>7. ASSUME NEW d \in Callers, Receive(d)
      PROVE  res'[c].calls # 0
  BY <1>1, <1>7 DEF Receive, Types
<1>8. CASE UNCHANGED <<call, res>>
  BY <1>1, <1>8
<1>9. QED
  BY <1>2, <1>4, <1>5, <1>6, <1>7, <1>8
     DEF Next, FastResponse, TracerFastResponse, FastHTTPDialer, DialProxy,
         SendConnect, ProxyConnects, Callers, vars

-----------------------------------------------------------------------------
(* Every response is free or in one pair of hands.                         *)

InOnePairOfHands(b) ==
    IF b \in free
    THEN CallsWith(b) = {} /\ DialsWith(b) = {}
    ELSE \/ DialsWith(b) = {} /\ \E c \in Callers : CallsWith(b) = {c}
         \/ CallsWith(b) = {} /\ \E c \in Callers : DialsWith(b) = {c}

Pool == \A b \in Buffers : InOnePairOfHands(b)

LEMMA PoolInit == Init => Pool
<1> SUFFICES ASSUME Init, NEW b \in Buffers PROVE InOnePairOfHands(b)
  BY DEF Pool
<1>1. CallsWith(b) = {}
  BY DEF Init, CallsWith, InCall, NoCall
<1>2. DialsWith(b) = {}
  BY PoolAssumption DEF Init, DialsWith, NoDial
<1>3. QED
  BY <1>1, <1>2 DEF Init, InOnePairOfHands

\* A call that has ended holds nothing.
LEMMA LeftCall ==
    ASSUME Types, NEW c \in Callers, call' = [call EXCEPT ![c] = NoCall], NEW b
    PROVE  CallsWith(b)' = CallsWith(b) \ {c}
BY DEF CallsWith, InCall, Types, NoCall

LEMMA LeftDial ==
    ASSUME Types, NEW c \in Callers, dial' = [dial EXCEPT ![c] = NoDial],
           NEW b \in Buffers
    PROVE  DialsWith(b)' = DialsWith(b) \ {c}
BY PoolAssumption DEF DialsWith, Types, NoDial

\* The holder of a response is the only one.
LEMMA HolderIsAlone ==
    ASSUME Types, Pool, NEW c \in Callers, NEW b \in Buffers
    PROVE  /\ c \in CallsWith(b) =>
                 CallsWith(b) = {c} /\ DialsWith(b) = {} /\ b \notin free
           /\ c \in DialsWith(b) =>
                 DialsWith(b) = {c} /\ CallsWith(b) = {} /\ b \notin free
BY DEF Pool, InOnePairOfHands

LEMMA PoolStep == Types /\ Pool /\ [Next]_vars => Pool'
<1> SUFFICES ASSUME Types, Pool, [Next]_vars, NEW b \in Buffers
             PROVE  InOnePairOfHands(b)'
  BY DEF Pool
<1>1. InOnePairOfHands(b)
  BY DEF Pool
<1>2. ASSUME CallsWith(b)' = CallsWith(b), DialsWith(b)' = DialsWith(b),
             b \in free' <=> b \in free
      PROVE  InOnePairOfHands(b)'
  BY <1>1, <1>2 DEF InOnePairOfHands
<1>3. ASSUME NEW c \in Callers, Begin(c)
      PROVE  InOnePairOfHands(b)'
  <2>1. PICK t \in free, json, merge \in BOOLEAN :
           /\ free' = free \ {t}
           /\ call' = [call EXCEPT ![c] =
                          [pc |-> "do", buf |-> t, json |-> json, merge |-> merge]]
    BY <1>3 DEF Begin
  <2>2. ~InCall(c) /\ dial' = dial
    BY <1>3 DEF Begin, dialing
  <2>3. CallsWith(b)' = CallsWith(b) \cup (IF b = t THEN {c} ELSE {})
    BY <2>1, <2>2 DEF CallsWith, InCall, Types
  <2>4. DialsWith(b)' = DialsWith(b)
    BY <2>2 DEF DialsWith
  <2>5. CASE b = t
    BY <1>1, <2>1, <2>3, <2>4, <2>5 DEF InOnePairOfHands
  <2>6. CASE b # t
    BY <1>2, <2>1, <2>3, <2>4, <2>6
  <2>7. QED
    BY <2>5, <2>6
<1>4. ASSUME NEW c \in Callers, NEW ok \in BOOLEAN, Leave(c, ok), InCall(c),
             DialsWith(b)' = DialsWith(b)
      PROVE  InOnePairOfHands(b)'
  <2>1. CallsWith(b)' = CallsWith(b) \ {c} /\ free' = free \cup {call[c].buf}
    BY <1>4, LeftCall DEF Leave
  <2>2. CASE b = call[c].buf
    <3>1. c \in CallsWith(b)
      BY <1>4, <2>2 DEF CallsWith
    <3>2. CallsWith(b)' = {} /\ DialsWith(b)' = {} /\ b \in free'
      BY <1>4, <2>1, <2>2, <3>1, HolderIsAlone
    <3>3. QED
      BY <3>2 DEF InOnePairOfHands
  <2>3. CASE b # call[c].buf
    <3>1. CallsWith(b)' = CallsWith(b)
      BY <2>1, <2>3 DEF CallsWith
    <3>2. QED
      BY <1>2, <1>4, <2>1, <2>3, <3>1
  <2>4. QED
    BY <2>2, <2>3
<1>5. ASSUME NEW c \in Callers, Fail(c)
      PROVE  InOnePairOfHands(b)'
  BY <1>4, <1>5, CallFacts DEF Fail, DialsWith, dialing
<1>6. ASSUME NEW c \in Callers, DialProxy(c)
      PROVE  InOnePairOfHands(b)'
  <2>1. CallsWith(b)' = CallsWith(b)
    BY <1>6 DEF DialProxy, CallsWith, InCall
  <2>2. PICK n \in Conns :
           dial' = [dial EXCEPT ![c] = [pc |-> "write", conn |-> n, buf |-> None]]
    BY <1>6 DEF DialProxy
  <2>3. dial[c] = NoDial /\ NoDial.buf = None
    BY <1>6 DEF DialProxy, NoDial
  <2>4. \A d \in Callers : dial'[d].buf = dial[d].buf
    BY <2>2, <2>3 DEF Types
  <2>5. DialsWith(b)' = DialsWith(b)
    BY <2>4 DEF DialsWith
  <2>6. QED
    BY <1>2, <1>6, <2>1, <2>5 DEF DialProxy
<1>7. ASSUME NEW c \in Callers, WriteFails(c)
      PROVE  InOnePairOfHands(b)'
  <2>1. DialsWith(b)' = DialsWith(b) \ {c}
    BY <1>7, LeftDial DEF WriteFails
  <2>2. dial[c].buf = None /\ dial[c] # NoDial
    BY <1>7, DialFacts DEF WriteFails
  <2>3. c \notin DialsWith(b)
    BY <2>2, PoolAssumption DEF DialsWith
  <2>4. InCall(c)
    BY <2>2, CallFacts DEF Types
  <2>5. QED
    BY <1>4, <1>7, <2>1, <2>3, <2>4 DEF WriteFails
<1>8. ASSUME NEW c \in Callers, SendConnect(c)
      PROVE  InOnePairOfHands(b)'
  <2>1. PICK t \in free : /\ free' = free \ {t}
                          /\ dial' = [dial EXCEPT ![c].pc = "read", ![c].buf = t]
    BY <1>8 DEF SendConnect
  <2>2. CallsWith(b)' = CallsWith(b)
    BY <1>8 DEF SendConnect, CallsWith, InCall
  <2>3. dial[c] \in Dial /\ dial[c].buf = None
    BY <1>8, DialFacts DEF SendConnect, Types
  <2>4. \A d \in Callers : dial'[d].buf = IF d = c THEN t ELSE dial[d].buf
    BY <2>1, <2>3 DEF Types, Dial
  <2>5. DialsWith(b)' = DialsWith(b) \cup (IF b = t THEN {c} ELSE {})
    BY <2>3, <2>4, PoolAssumption DEF DialsWith
  <2>6. CASE b = t
    BY <1>1, <2>1, <2>2, <2>5, <2>6 DEF InOnePairOfHands
  <2>7. CASE b # t
    BY <1>2, <2>1, <2>2, <2>5, <2>7
  <2>8. QED
    BY <2>6, <2>7
<1>9. ASSUME NEW c \in Callers, ProxyRefuses(c)
      PROVE  InOnePairOfHands(b)'
  <2>1. /\ CallsWith(b)' = CallsWith(b) \ {c}
        /\ DialsWith(b)' = DialsWith(b) \ {c}
        /\ free' = free \cup {dial[c].buf, call[c].buf}
    BY <1>9, LeftCall, LeftDial DEF ProxyRefuses
  <2>2. InCall(c)
    BY <1>9, CallFacts, DialFacts DEF ProxyRefuses, Types
  <2>3. CASE b = call[c].buf
    <3>1. c \in CallsWith(b)
      BY <2>2, <2>3 DEF CallsWith
    <3>2. CallsWith(b)' = {} /\ DialsWith(b)' = {} /\ b \in free'
      BY <2>1, <2>3, <3>1, HolderIsAlone
    <3>3. QED
      BY <3>2 DEF InOnePairOfHands
  <2>4. CASE b = dial[c].buf
    <3>1. c \in DialsWith(b)
      BY <2>4 DEF DialsWith
    <3>2. CallsWith(b)' = {} /\ DialsWith(b)' = {} /\ b \in free'
      BY <2>1, <2>4, <3>1, HolderIsAlone
    <3>3. QED
      BY <3>2 DEF InOnePairOfHands
  <2>5. CASE b # call[c].buf /\ b # dial[c].buf
    <3>1. c \notin CallsWith(b) /\ c \notin DialsWith(b)
      BY <2>5 DEF CallsWith, DialsWith
    <3>2. QED
      BY <1>2, <2>1, <2>5, <3>1
  <2>6. QED
    BY <2>3, <2>4, <2>5
<1>10. ASSUME NEW c \in Callers, ProxyConnects(c)
       PROVE  InOnePairOfHands(b)'
  <2>1. /\ DialsWith(b)' = DialsWith(b) \ {c}
        /\ free' = free \cup {dial[c].buf}
    BY <1>10, LeftDial DEF ProxyConnects
  <2>2. CallsWith(b)' = CallsWith(b)
    BY <1>10 DEF ProxyConnects, CallsWith, InCall
  <2>3. CASE b = dial[c].buf
    <3>1. c \in DialsWith(b)
      BY <2>3 DEF DialsWith
    <3>2. CallsWith(b)' = {} /\ DialsWith(b)' = {} /\ b \in free'
      BY <2>1, <2>2, <2>3, <3>1, HolderIsAlone
    <3>3. QED
      BY <3>2 DEF InOnePairOfHands
  <2>4. CASE b # dial[c].buf
    <3>1. c \notin DialsWith(b)
      BY <2>4 DEF DialsWith
    <3>2. QED
      BY <1>2, <2>1, <2>2, <2>4, <3>1
  <2>5. QED
    BY <2>3, <2>4
<1>11. ASSUME NEW c \in Callers, Receive(c)
       PROVE  InOnePairOfHands(b)'
  <2>1. call[c] \in Call
    BY <1>11, CallFacts DEF Receive
  <2>2. [call[c] EXCEPT !.pc = "got"].buf = call[c].buf
        /\ [call[c] EXCEPT !.pc = "got"].pc = "got" /\ call[c].pc = "do"
    BY <1>11, <2>1 DEF Call, Receive
  <2>3. \A d \in Callers : InCall(d)' = InCall(d) /\ call'[d].buf = call[d].buf
    BY <1>11, <2>2 DEF Receive, Types, InCall
  <2>4. CallsWith(b)' = CallsWith(b) /\ DialsWith(b)' = DialsWith(b)
    BY <1>11, <2>3 DEF CallsWith, DialsWith, Receive, dialing
  <2>5. QED
    BY <1>2, <1>11, <2>4 DEF Receive
<1>12. ASSUME NEW c \in Callers, Conclude(c)
       PROVE  InOnePairOfHands(b)'
  <2>1. PICK ok \in BOOLEAN : Leave(c, ok)
    BY <1>12, ConcludeFacts
  <2>2. InCall(c) /\ dial' = dial
    BY <1>12, ConcludeFacts, CallFacts DEF dialing
  <2>3. DialsWith(b)' = DialsWith(b)
    BY <2>2 DEF DialsWith
  <2>4. QED
    BY <1>4, <2>1, <2>2, <2>3
<1>13. CASE UNCHANGED vars
  BY <1>2, <1>13 DEF vars, dialing, CallsWith, DialsWith, InCall
<1>14. QED
  BY <1>3, <1>5, <1>6, <1>7, <1>8, <1>9, <1>10, <1>11, <1>12, <1>13
     DEF Next, FastResponse, TracerFastResponse, FastHTTPDialer, Callers

-----------------------------------------------------------------------------
(* Connections: each that is being dialed is dialed by one call, and the   *)
(* rest are lost, one for each CONNECT that was not sent.                  *)

Dialed ==
    /\ \A c \in Callers : dial[c] # NoDial => conn[dial[c].conn] = "dialer"
    /\ \A c, d \in Callers :
          dial[c] # NoDial /\ dial[d] # NoDial /\ dial[c].conn = dial[d].conn => c = d
    /\ IsFiniteSet(Lost) /\ Cardinality(Lost) = unsent

LEMMA DialedInit == Init => Dialed
<1> SUFFICES ASSUME Init PROVE Dialed
  OBVIOUS
<1>1. Lost = {}
  BY DEF Init, Lost
<1>2. QED
  BY <1>1, FS_EmptySet DEF Init, Dialed

LEMMA DialedStep == Types /\ Dialed /\ [Next]_vars => Dialed'
<1> SUFFICES ASSUME Types, Dialed, [Next]_vars PROVE Dialed'
  OBVIOUS
<1> DEFINE Same == /\ conn' = conn /\ unsent' = unsent
                   /\ \A c \in Callers : /\ dial'[c].conn = dial[c].conn
                                         /\ dial'[c] = NoDial <=> dial[c] = NoDial
<1>1. ASSUME Same
      PROVE  Dialed'
  <2>1. Lost' = Lost
    BY <1>1 DEF Lost
  <2>2. QED
    BY <1>1, <2>1 DEF Dialed
<1>2. ASSUME NEW c \in Callers, DialProxy(c)
      PROVE  Dialed'
  <2>1. PICK n \in Conns :
           /\ conn[n] = "unused"
           /\ conn' = [conn EXCEPT ![n] = "dialer"]
           /\ dial' = [dial EXCEPT ![c] = [pc |-> "write", conn |-> n, buf |-> None]]
    BY <1>2 DEF DialProxy
  <2>2. dial[c] = NoDial /\ NoDial.conn = None /\ unsent' = unsent
    BY <1>2 DEF DialProxy, NoDial
  <2>3. dial'[c].conn = n /\ \A d \in Callers \ {c} : dial'[d] = dial[d]
    BY <2>1 DEF Types
  <2>4. \A d \in Callers \ {c} : dial[d] # NoDial => dial[d].conn # n
    BY <2>1 DEF Dialed
  <2>5. Lost' = Lost
    <3>1. ASSUME NEW m \in Conns
          PROVE  m \in Lost' <=> m \in Lost
      <4>1. CASE m = n
        BY <2>1, <2>3, <4>1 DEF Lost
      <4>2. CASE m # n
        BY <2>1, <2>2, <2>3, <4>2, PoolAssumption DEF Lost, Types
      <4>3. QED
        BY <4>1, <4>2
    <3>2. QED
      BY <3>1 DEF Lost
  <2>6. \A d \in Callers : dial'[d] # NoDial => conn'[dial'[d].conn] = "dialer"
    <3>1. conn'[n] = "dialer" /\ \A m \in Conns \ {n} : conn'[m] = conn[m]
      BY <2>1 DEF Types
    <3>2. \A d \in Callers : dial[d] # NoDial => dial[d].conn \in Conns
      BY DialFacts
    <3>3. QED
      BY <2>3, <2>4, <3>1, <3>2 DEF Dialed
  <2>7. \A d, e \in Callers :
           dial'[d] # NoDial /\ dial'[e] # NoDial /\ dial'[d].conn = dial'[e].conn => d = e
    BY <2>3, <2>4 DEF Dialed
  <2>8. QED
    BY <2>2, <2>5, <2>6, <2>7 DEF Dialed
<1>3. ASSUME NEW c \in Callers, dial' = [dial EXCEPT ![c] = NoDial], dial[c] # NoDial
      PROVE  /\ dial[c].conn \in Conns
             /\ dial'[c] = NoDial /\ NoDial.conn = None
             /\ \A d \in Callers \ {c} : /\ dial'[d] = dial[d]
                                         /\ dial[d].conn # dial[c].conn
             /\ \A d \in Callers : dial[d] # NoDial => dial[d].conn \in Conns
             /\ \A d, e \in Callers :
                   dial'[d] # NoDial /\ dial'[e] # NoDial /\ dial'[d].conn = dial'[e].conn
                      => d = e
  <2>1. dial'[c] = NoDial /\ \A d \in Callers \ {c} : dial'[d] = dial[d]
    BY <1>3 DEF Types
  <2>2. dial[c].conn \in Conns /\ NoDial.conn = None
        /\ \A d \in Callers : dial[d] # NoDial => dial[d].conn \in Conns
    BY <1>3, DialFacts
  <2>3. \A d \in Callers \ {c} : dial[d].conn # dial[c].conn
    BY <1>3, <2>2, PoolAssumption DEF Dialed
  <2>4. QED
    BY <2>1, <2>2, <2>3 DEF Dialed
<1>4. ASSUME NEW c \in Callers, WriteFails(c)
      PROVE  Dialed'
  <2> DEFINE n == dial[c].conn
  <2>1. dial[c] # NoDial /\ conn[n] = "dialer"
    BY <1>4, DialFacts DEF WriteFails, Dialed
  <2>2. /\ n \in Conns /\ dial'[c] = NoDial /\ NoDial.conn = None
        /\ \A d \in Callers \ {c} : dial'[d] = dial[d] /\ dial[d].conn # n
        /\ \A d, e \in Callers :
              dial'[d] # NoDial /\ dial'[e] # NoDial /\ dial'[d].conn = dial'[e].conn
                 => d = e
    BY <1>3, <1>4, <2>1 DEF WriteFails
  <2>3. conn' = conn /\ unsent' = unsent + 1
    BY <1>4 DEF WriteFails
  <2>4. Lost' = Lost \cup {n} /\ n \notin Lost
    BY <2>1, <2>2, <2>3, PoolAssumption DEF Lost
  <2>5. IsFiniteSet(Lost') /\ Cardinality(Lost') = Cardinality(Lost) + 1
    BY <2>4, FS_AddElement DEF Dialed
  <2>6. Cardinality(Lost') = unsent'
    BY <2>3, <2>5 DEF Dialed
  <2>7. \A d \in Callers : dial'[d] # NoDial => conn'[dial'[d].conn] = "dialer"
    BY <2>2, <2>3 DEF Dialed
  <2>8. QED
    BY <2>2, <2>5, <2>6, <2>7 DEF Dialed
<1>5. ASSUME NEW c \in Callers, SendConnect(c)
      PROVE  Dialed'
  <2>1. PICK t \in free : dial' = [dial EXCEPT ![c].pc = "read", ![c].buf = t]
    BY <1>5 DEF SendConnect
  <2> DEFINE k == [dial[c] EXCEPT !.pc = "read", !.buf = t]
  <2>2. dial[c] \in Dial /\ dial[c] # NoDial
    BY <1>5, DialFacts DEF SendConnect, Types
  <2>3. k.conn = dial[c].conn /\ k.pc = "read" /\ NoDial.pc = "none"
    BY <2>2 DEF Dial, NoDial
  <2>4. dial' = [dial EXCEPT ![c] = k]
    BY <2>1, <2>2 DEF Types
  <2> HIDE DEF k
  <2>5. Same
    BY <1>5, <2>2, <2>3, <2>4 DEF Types, SendConnect
  <2>6. QED
    BY <1>1, <2>5
<1>6. ASSUME NEW c \in Callers, ProxyRefuses(c) \/ ProxyConnects(c)
      PROVE  Dialed'
  <2> DEFINE n == dial[c].conn
  <2>1. dial[c] # NoDial
    BY <1>6, DialFacts DEF ProxyRefuses, ProxyConnects
  <2>2. /\ n \in Conns /\ dial'[c] = NoDial /\ NoDial.conn = None
        /\ \A d \in Callers \ {c} : dial'[d] = dial[d] /\ dial[d].conn # n
        /\ \A d \in Callers : dial[d] # NoDial => dial[d].conn \in Conns
        /\ \A d, e \in Callers :
              dial'[d] # NoDial /\ dial'[e] # NoDial /\ dial'[d].conn = dial'[e].conn
                 => d = e
    BY <1>3, <1>6, <2>1 DEF ProxyRefuses, ProxyConnects
  <2>3. /\ conn'[n] # "dialer" /\ \A m \in Conns \ {n} : conn'[m] = conn[m]
        /\ unsent' = unsent
    BY <1>6, <2>2 DEF ProxyRefuses, ProxyConnects, Types
  <2>4. Lost' = Lost
    <3>1. ASSUME NEW m \in Conns
          PROVE  m \in Lost' <=> m \in Lost
      <4>1. CASE m = n
        BY <2>3, <4>1 DEF Lost
      <4>2. CASE m # n
        BY <2>2, <2>3, <4>2, PoolAssumption DEF Lost
      <4>3. QED
        BY <4>1, <4>2
    <3>2. QED
      BY <3>1 DEF Lost
  <2>5. \A d \in Callers : dial'[d] # NoDial => conn'[dial'[d].conn] = "dialer"
    BY <2>2, <2>3 DEF Dialed
  <2>6. QED
    BY <2>2, <2>3, <2>4, <2>5 DEF Dialed
<1>7. CASE UNCHANGED <<dial, conn, unsent>>
  BY <1>1, <1>7
<1>8. ASSUME NEW c \in Callers, Conclude(c)
      PROVE  Dialed'
  BY <1>7, <1>8 DEF Conclude, dialing
<1>9. QED
  BY <1>2, <1>4, <1>5, <1>6, <1>7, <1>8
     DEF Next, FastResponse, TracerFastResponse, FastHTTPDialer, Begin, Fail,
         Receive, Callers, vars, dialing

-----------------------------------------------------------------------------
(* What a call was answered is in its response until it has returned, for  *)
(* the response is in no other's hands.                                    *)

Own ==
    \A c \in Callers :
        /\ call[c].pc = "got" => content[call[c].buf] = Answer(c, res[c].calls)
        /\ result[c] /\ ~InCall(c) =>
              /\ res[c].status = "200"
              /\ res[c].bodyOf # res[c].calls => res[c].json = Answer(c, res[c].calls)

LEMMA OwnInit == Init => Own
BY DEF Init, Own, NoCall, InCall

LEMMA OwnStep == Types /\ Types' /\ Pool /\ Own /\ [Next]_vars => Own'
<1> SUFFICES ASSUME Types, Types', Pool, Own, [Next]_vars,
                    NEW c \in Callers
             PROVE  /\ call'[c].pc = "got" =>
                          content'[call'[c].buf] = Answer(c, res'[c].calls)
                    /\ result'[c] /\ ~InCall(c)' =>
                          /\ res'[c].status = "200"
                          /\ res'[c].bodyOf # res'[c].calls
                                => res'[c].json = Answer(c, res'[c].calls)
  BY DEF Own, Answer
<1> DEFINE Goal == /\ call'[c].pc = "got" =>
                         content'[call'[c].buf] = Answer(c, res'[c].calls)
                   /\ result'[c] /\ ~InCall(c)' =>
                         /\ res'[c].status = "200"
                         /\ res'[c].bodyOf # res'[c].calls
                               => res'[c].json = Answer(c, res'[c].calls)
<1>1. ASSUME call'[c] = call[c], res'[c] = res[c], result'[c] = result[c],
             call[c].pc = "got" => content'[call[c].buf] = content[call[c].buf]
      PROVE  Goal
  BY <1>1 DEF Own, InCall
<1>2. ASSUME NEW d \in Callers, d # c, InCall(d), InCall(c)
      PROVE  call[d].buf # call[c].buf
  <2>1. call[d].buf \in Buffers
    BY <1>2, CallFacts
  <2>2. call[d].buf = call[c].buf => c = d
    <3>1. HAVE call[d].buf = call[c].buf
    <3>2. d \in CallsWith(call[d].buf) /\ c \in CallsWith(call[d].buf)
      BY <1>2, <3>1 DEF CallsWith
    <3>3. CallsWith(call[d].buf) = {d}
      BY <2>1, <3>2, HolderIsAlone
    <3>4. QED
      BY <3>2, <3>3
  <2>3. QED
    BY <1>2, <2>2
<1>3. ASSUME NEW d \in Callers, Begin(d)
      PROVE  Goal
  <2>1. CASE d = c
    <3>1. call'[c].pc = "do"
      BY <1>3, <2>1 DEF Begin, Types
    <3>2. QED
      BY <3>1 DEF InCall
  <2>2. CASE d # c
    BY <1>1, <1>3, <2>2 DEF Begin, Types
  <2>3. QED
    BY <2>1, <2>2
<1>4. ASSUME NEW d \in Callers, Leave(d, FALSE), res' = res, InCall(d),
             \A b \in Buffers \ {call[d].buf} : content'[b] = content[b]
      PROVE  Goal
  <2>1. CASE d = c
    <3>1. call'[c] = NoCall /\ result'[c] = FALSE
      BY <1>4, <2>1 DEF Leave, Types
    <3>2. QED
      BY <3>1 DEF NoCall
  <2>2. CASE d # c
    <3>1. call'[c] = call[c] /\ result'[c] = result[c]
      BY <1>4, <2>2 DEF Leave, Types
    <3>2. call[c].pc = "got" => content'[call[c].buf] = content[call[c].buf]
      BY <1>2, <1>4, <2>2, CallFacts
    <3>3. QED
      BY <1>1, <1>4, <3>1, <3>2
  <2>3. QED
    BY <2>1, <2>2
<1>5. ASSUME NEW d \in Callers, Fail(d) \/ WriteFails(d)
      PROVE  Goal
  <2>1. InCall(d)
    BY <1>5, CallFacts, DialFacts DEF Fail, WriteFails, Types
  <2>2. \A b \in Buffers \ {call[d].buf} : content'[b] = content[b]
    BY <1>5 DEF Fail, WriteFails, Types
  <2>3. QED
    BY <1>4, <1>5, <2>1, <2>2 DEF Fail, WriteFails
<1>6. ASSUME NEW d \in Callers, ProxyRefuses(d)
      PROVE  Goal
  <2>1. CASE d = c
    <3>1. call'[c] = NoCall /\ result'[c] = FALSE
      BY <1>6, <2>1 DEF ProxyRefuses, Types
    <3>2. QED
      BY <3>1 DEF NoCall
  <2>2. CASE d # c
    BY <1>1, <1>6, <2>2 DEF ProxyRefuses, Types
  <2>3. QED
    BY <2>1, <2>2
<1>7. ASSUME NEW d \in Callers, Receive(d)
      PROVE  Goal
  <2>1. InCall(d) /\ call[d] \in Call
    BY <1>7, CallFacts DEF Receive
  <2>2. CASE d = c
    <3>1. /\ call'[c] = [call[c] EXCEPT !.pc = "got"] /\ res' = res
          /\ content' = [content EXCEPT ![call[c].buf] = Answer(c, res[c].calls)]
      BY <1>7, <2>2 DEF Receive, Types
    <3>2. call'[c].pc = "got" /\ call'[c].buf = call[c].buf /\ call[c].buf \in Buffers
      BY <2>1, <2>2, <3>1 DEF Call
    <3>3. content'[call'[c].buf] = Answer(c, res'[c].calls)
      BY <3>1, <3>2 DEF Types
    <3>4. InCall(c)'
      BY <3>2 DEF InCall
    <3>5. QED
      BY <3>3, <3>4
  <2>3. CASE d # c
    <3>1. call'[c] = call[c] /\ res' = res /\ result' = result
      BY <1>7, <2>3 DEF Receive, Types
    <3>2. \A b \in Buffers \ {call[d].buf} : content'[b] = content[b]
      BY <1>7 DEF Receive, Types
    <3>3. call[c].pc = "got" => content'[call[c].buf] = content[call[c].buf]
      BY <1>2, <2>1, <2>3, <3>2, CallFacts
    <3>4. QED
      BY <1>1, <3>1, <3>3
  <2>4. QED
    BY <2>2, <2>3
<1>8. ASSUME NEW d \in Callers, Conclude(d)
      PROVE  Goal
  <2>1. call[d].pc = "got" /\ content' = content
    BY <1>8, ConcludeFacts
  <2>2. PICK ok \in BOOLEAN : \E a :
           /\ IsArg(a) /\ a.calls = res[d].calls
           /\ res' = [res EXCEPT ![d] = a]
           /\ Leave(d, ok)
           /\ ok => /\ a.status = "200"
                    /\ a.bodyOf # a.calls => a.json = content[call[d].buf]
    BY <1>8, ConcludeFacts
  <2>3. PICK a :
           /\ IsArg(a) /\ a.calls = res[d].calls
           /\ res' = [res EXCEPT ![d] = a]
           /\ Leave(d, ok)
           /\ ok => /\ a.status = "200"
                    /\ a.bodyOf # a.calls => a.json = content[call[d].buf]
    BY <2>2
  <2>4. CASE d = c
    <3>1. call'[c] = NoCall /\ result'[c] = ok /\ res'[c] = a
      BY <2>3, <2>4 DEF Leave, Types
    <3>2. content[call[d].buf] = Answer(c, a.calls)
      BY <2>1, <2>3, <2>4 DEF Own
    <3>3. QED
      BY <2>3, <3>1, <3>2 DEF NoCall
  <2>5. CASE d # c
    <3>1. call'[c] = call[c] /\ res'[c] = res[c] /\ result'[c] = result[c]
      BY <2>3, <2>5 DEF Leave, Types
    <3>2. QED
      BY <1>1, <2>1, <3>1
  <2>6. QED
    BY <2>4, <2>5
<1>9. CASE UNCHANGED <<call, res, result, content>>
  BY <1>1, <1>9
<1>10. QED
  BY <1>3, <1>5, <1>6, <1>7, <1>8, <1>9
     DEF Next, FastResponse, TracerFastResponse, FastHTTPDialer, DialProxy,
         SendConnect, ProxyConnects, Callers, vars

-----------------------------------------------------------------------------
(* Induction, stated of sets: the least and the greatest number of one.    *)

LEMMA LeastExists ==
    ASSUME NEW T, T \subseteq Nat, T # {}
    PROVE  \E x \in T : \A y \in T : x <= y
<1> DEFINE Less == {p \in Nat \X Nat : p[1] < p[2]}
<1>1. IsWellFoundedOn(Less, Nat)
  BY NatLessThanWellFounded DEF OpToRel
<1>2. PICK x \in T : \A y \in T : <<y, x>> \notin Less
  <2> HIDE DEF Less
  <2> QED BY <1>1, WFMin
<1>3. \A y \in T : x <= y
  <2> TAKE y \in T
  <2>1. ~(y < x) /\ x \in Nat /\ y \in Nat
    BY <1>2
  <2> QED BY <2>1
<1> QED BY <1>3

LEMMA GreatestExists ==
    ASSUME NEW n \in Nat, NEW T, T \subseteq 0..n, T # {}
    PROVE  \E x \in T : \A y \in T : y <= x
<1> DEFINE Rest == {n - x : x \in T}
<1>1. Rest \subseteq Nat /\ Rest # {}
  OBVIOUS
<1>2. PICK m \in Rest : \A y \in Rest : m <= y
  <2> HIDE DEF Rest
  <2> QED BY <1>1, LeastExists
<1>3. PICK x \in T : m = n - x
  OBVIOUS
<1>4. ASSUME NEW y \in T PROVE y <= x
  <2>1. n - x <= n - y
    BY <1>2, <1>3
  <2>2. x \in Nat /\ y \in Nat
    OBVIOUS
  <2> QED BY <2>1, <2>2
<1> QED BY <1>4

LEMMA Induction ==
    ASSUME NEW T, 0 \in T, \A n \in Nat : n \in T => n + 1 \in T
    PROVE  \A n \in Nat : n \in T
<1> SUFFICES ASSUME Nat \ T # {} PROVE FALSE
  OBVIOUS
<1>1. PICK m \in Nat \ T : \A y \in Nat \ T : m <= y
  BY LeastExists
<1>2. m # 0 /\ m - 1 \in Nat
  OBVIOUS
<1>3. m - 1 \in T
  BY <1>1, <1>2
<1>4. (m - 1) + 1 = m
  BY <1>2
<1> QED BY <1>2, <1>3, <1>4

-----------------------------------------------------------------------------
(* Sorting: what is at each place, that it is in order, and that nothing   *)
(* is lost or repeated by it.                                              *)

Below(s, v)  == {j \in DOMAIN s : s[j] < v}
AtMost(s, v) == {j \in DOMAIN s : s[j] <= v}
IsIth(s, i, v) == Cardinality(Below(s, v)) < i /\ i <= Cardinality(AtMost(s, v))

\* The positions counted are some of those there are.
LEMMA PositionsCounted ==
    ASSUME NEW s \in Seq(Nat), NEW v
    PROVE  /\ IsFiniteSet(Below(s, v)) /\ IsFiniteSet(AtMost(s, v))
           /\ Cardinality(Below(s, v)) \in Nat
           /\ Cardinality(AtMost(s, v)) \in 0..Len(s)
           /\ AtMost(s, v) = DOMAIN s => Cardinality(AtMost(s, v)) = Len(s)
<1>1. DOMAIN s = 1..Len(s) /\ Len(s) \in Nat
  OBVIOUS
<1>2. IsFiniteSet(DOMAIN s) /\ Cardinality(DOMAIN s) = Len(s)
  BY SMTT(30), <1>1, FS_Interval
<1>3. Below(s, v) \subseteq DOMAIN s /\ AtMost(s, v) \subseteq DOMAIN s
  BY DEF Below, AtMost
<1>4. IsFiniteSet(Below(s, v)) /\ IsFiniteSet(AtMost(s, v))
      /\ Cardinality(AtMost(s, v)) <= Len(s)
  BY <1>2, <1>3, FS_Subset
<1>5. Cardinality(Below(s, v)) \in Nat /\ Cardinality(AtMost(s, v)) \in Nat
  BY <1>4, FS_CardinalityType
<1> QED BY <1>1, <1>2, <1>4, <1>5

\* A greater value has more positions below it.
LEMMA MoreCounted ==
    ASSUME NEW s \in Seq(Nat), NEW v \in Nat, NEW w \in Nat
    PROVE  /\ v < w => Cardinality(AtMost(s, v)) <= Cardinality(Below(s, w))
           /\ v < w /\ w \in ToSet(s)
                => Cardinality(AtMost(s, v)) < Cardinality(AtMost(s, w))
           /\ v \in ToSet(s) => Cardinality(Below(s, v)) < Cardinality(AtMost(s, v))
<1>1. \A j \in DOMAIN s : s[j] \in Nat
  OBVIOUS
<1>2. v < w => AtMost(s, v) \subseteq Below(s, w)
  BY <1>1 DEF AtMost, Below
<1>3. v < w /\ w \in ToSet(s) => AtMost(s, v) \subseteq AtMost(s, w) /\ AtMost(s, v) # AtMost(s, w)
  BY <1>1 DEF AtMost, ToSet
<1>4. v \in ToSet(s) => Below(s, v) \subseteq AtMost(s, v) /\ Below(s, v) # AtMost(s, v)
  BY <1>1 DEF AtMost, Below, ToSet
<1>5. /\ IsFiniteSet(Below(s, w)) /\ IsFiniteSet(AtMost(s, w)) /\ IsFiniteSet(AtMost(s, v))
      /\ Cardinality(Below(s, v)) \in Nat /\ Cardinality(Below(s, w)) \in Nat
      /\ Cardinality(AtMost(s, v)) \in Nat /\ Cardinality(AtMost(s, w)) \in Nat
  BY PositionsCounted
<1>6. v < w => Cardinality(AtMost(s, v)) <= Cardinality(Below(s, w))
  BY <1>2, <1>5, FS_Subset
<1>7. v < w /\ w \in ToSet(s) => Cardinality(AtMost(s, v)) < Cardinality(AtMost(s, w))
  BY <1>3, <1>5, FS_Subset
<1>8. v \in ToSet(s) => Cardinality(Below(s, v)) < Cardinality(AtMost(s, v))
  BY <1>4, <1>5, FS_Subset
<1> QED BY <1>6, <1>7, <1>8

\* The i-th value is the least that i positions do not exceed: the positions
\* below it are those not above the value before it, and so fewer than i.
LEMMA IthExists ==
    ASSUME NEW s \in Seq(Nat), NEW i \in 1..Len(s)
    PROVE  \E v \in ToSet(s) : IsIth(s, i, v)
<1>1. /\ DOMAIN s = 1..Len(s) /\ Len(s) \in Nat /\ \A j \in DOMAIN s : s[j] \in Nat
      /\ ToSet(s) \subseteq Nat /\ \A j \in DOMAIN s : s[j] \in ToSet(s)
  BY DEF ToSet
<1>2. ASSUME NEW V, V \subseteq ToSet(s), V # {}
      PROVE  \E v \in V : \A w \in V : w <= v
  <2> DEFINE C == {Cardinality(AtMost(s, v)) : v \in V}
  <2>1. C \subseteq 0..Len(s) /\ C # {}
    BY <1>2, PositionsCounted
  <2>2. PICK m \in C : \A y \in C : y <= m
    <3> HIDE DEF C
    <3> QED BY <2>1, <1>1, GreatestExists
  <2>3. PICK v \in V : m = Cardinality(AtMost(s, v))
    OBVIOUS
  <2>4. ASSUME NEW w \in V PROVE w <= v
    <3>1. v \in Nat /\ w \in Nat /\ w \in ToSet(s)
      BY <1>1, <1>2
    <3>2. Cardinality(AtMost(s, w)) <= Cardinality(AtMost(s, v))
      BY <2>2, <2>3
    <3>3. Cardinality(AtMost(s, w)) \in Nat /\ Cardinality(AtMost(s, v)) \in Nat
      BY PositionsCounted
    <3>4. v < w => Cardinality(AtMost(s, v)) < Cardinality(AtMost(s, w))
      BY <3>1, MoreCounted
    <3> QED BY <3>1, <3>2, <3>3, <3>4
  <2> QED BY <2>4
<1> DEFINE T == {v \in ToSet(s) : i <= Cardinality(AtMost(s, v))}
<1>3. T # {}
  <2>1. ToSet(s) # {}
    BY <1>1
  <2>2. PICK v \in ToSet(s) : \A w \in ToSet(s) : w <= v
    BY <1>2, <2>1
  <2>3. AtMost(s, v) = DOMAIN s
    BY <1>1, <2>2 DEF AtMost
  <2>4. Cardinality(AtMost(s, v)) = Len(s)
    BY <2>3, PositionsCounted
  <2>5. i <= Len(s)
    OBVIOUS
  <2> QED BY <2>4, <2>5
<1>4. PICK v \in T : \A w \in T : v <= w
  <2>1. T \subseteq Nat
    BY <1>1
  <2> HIDE DEF T
  <2> QED BY <1>3, <2>1, LeastExists
<1>5. Cardinality(Below(s, v)) < i
  <2> DEFINE V == {w \in ToSet(s) : w < v}
  <2>1. CASE V = {}
    <3>1. Below(s, v) = {}
      BY <2>1, <1>1 DEF Below
    <3>2. Cardinality(Below(s, v)) = 0
      BY <3>1, FS_EmptySet
    <3> QED BY <3>2
  <2>2. CASE V # {}
    <3>1. PICK w \in V : \A u \in V : u <= w
      <4>1. V \subseteq ToSet(s)
        OBVIOUS
      <4> HIDE DEF V
      <4> QED BY <2>2, <4>1, <1>2
    <3>2. Below(s, v) = AtMost(s, w)
      <4>1. v \in Nat /\ w \in Nat /\ w < v
        BY <1>1
      <4>2. ASSUME NEW j \in DOMAIN s PROVE s[j] < v <=> s[j] <= w
        <5>1. s[j] \in Nat /\ s[j] \in ToSet(s)
          BY <1>1
        <5>2. s[j] < v => s[j] <= w
          BY <5>1, <3>1
        <5> QED BY <5>1, <5>2, <4>1
      <4> QED BY <4>2 DEF Below, AtMost
    <3>3. w \notin T
      BY <1>1, <1>4
    <3>4. Cardinality(AtMost(s, w)) \in Nat /\ ~(i <= Cardinality(AtMost(s, w)))
      BY <3>3, PositionsCounted
    <3>5. i \in Nat
      BY <1>1
    <3> QED BY <3>2, <3>4, <3>5
  <2> QED BY <2>1, <2>2
<1> QED BY <1>4, <1>5 DEF IsIth

\* Of two places the one with the greater value is the later.
LEMMA IthUnique ==
    ASSUME NEW s \in Seq(Nat), NEW i \in Nat, NEW k \in Nat, NEW v \in Nat, NEW w \in Nat,
           IsIth(s, i, v), IsIth(s, k, w), v < w
    PROVE  i < k
<1>1. Cardinality(AtMost(s, v)) <= Cardinality(Below(s, w))
  BY MoreCounted
<1>2. Cardinality(AtMost(s, v)) \in Nat /\ Cardinality(Below(s, w)) \in Nat
  BY PositionsCounted
<1> QED BY <1>1, <1>2 DEF IsIth

Ascending(t) == \A i, k \in 1..Len(t) : i <= k => t[i] <= t[k]

LEMMA SortedFacts ==
    ASSUME NEW s \in Seq(Nat)
    PROVE  /\ Sorted(s) \in Seq(Nat) /\ Len(Sorted(s)) = Len(s)
           /\ \A i \in 1..Len(s) : Sorted(s)[i] \in ToSet(s) /\ IsIth(s, i, Sorted(s)[i])
<1>1. DOMAIN s = 1..Len(s) /\ Len(s) \in Nat /\ ToSet(s) \subseteq Nat
  BY DEF ToSet
<1>2. Sorted(s) = [i \in DOMAIN s |-> CHOOSE v \in ToSet(s) : IsIth(s, i, v)]
  BY DEF Sorted, IsIth, Below, AtMost
<1>3. ASSUME NEW i \in 1..Len(s)
      PROVE  Sorted(s)[i] \in ToSet(s) /\ IsIth(s, i, Sorted(s)[i])
  <2>1. Sorted(s)[i] = CHOOSE v \in ToSet(s) : IsIth(s, i, v)
    BY <1>1, <1>2
  <2>2. \E v \in ToSet(s) : IsIth(s, i, v)
    BY IthExists
  <2> QED BY <2>1, <2>2
<1>4. DOMAIN Sorted(s) = 1..Len(s) /\ Sorted(s) = [i \in 1..Len(s) |-> Sorted(s)[i]]
  BY <1>1, <1>2
<1>5. Sorted(s) \in [1..Len(s) -> Nat]
  BY <1>1, <1>3, <1>4
<1> QED BY <1>1, <1>3, <1>5

LEMMA SortedIsSorted ==
    ASSUME NEW s \in Seq(Nat)
    PROVE  /\ Sorted(s) \in Seq(Nat)
           /\ Ascending(Sorted(s))
           /\ ToSet(Sorted(s)) = ToSet(s)
           /\ IsInjective(s) => IsInjective(Sorted(s))
<1> DEFINE t == Sorted(s)
<1>1. t \in Seq(Nat) /\ Len(t) = Len(s) /\ Len(s) \in Nat
  BY SortedFacts
<1>2. \A i \in 1..Len(s) : t[i] \in ToSet(s) /\ IsIth(s, i, t[i])
  BY SortedFacts
<1> HIDE DEF t
<1>3. \A i \in 1..Len(s) : t[i] \in Nat /\ i \in Nat
  BY <1>1
<1>4. Ascending(t)
  <2> SUFFICES ASSUME NEW i \in 1..Len(s), NEW k \in 1..Len(s), i <= k PROVE t[i] <= t[k]
    BY <1>1 DEF Ascending
  <2>1. t[k] < t[i] => k < i
    BY <1>2, <1>3, IthUnique
  <2> QED BY <2>1, <1>3
<1>5. ASSUME NEW w \in ToSet(t) PROVE w \in ToSet(s)
  <2>1. DOMAIN t = 1..Len(s)
    BY <1>1
  <2>2. PICK i \in 1..Len(s) : w = t[i]
    BY <2>1 DEF ToSet
  <2> QED BY <2>2, <1>2
<1>6. ASSUME NEW v \in ToSet(s) PROVE v \in ToSet(t)
  <2> DEFINE i == Cardinality(AtMost(s, v))
  <2>1. v \in Nat
    BY DEF ToSet
  <2>2. i \in 0..Len(s) /\ Cardinality(Below(s, v)) \in Nat /\ Cardinality(Below(s, v)) < i
    BY <2>1, PositionsCounted, MoreCounted
  <2>3. IsIth(s, i, v)
    BY <2>2 DEF IsIth
  <2> HIDE DEF i
  <2>4. i \in 1..Len(s) /\ i \in Nat
    BY <2>2
  <2>5. IsIth(s, i, t[i]) /\ t[i] \in Nat
    BY <2>4, <1>2, <1>3
  <2>6. ~(t[i] < v) /\ ~(v < t[i])
    <3>1. t[i] < v => i < i
      BY <2>1, <2>3, <2>4, <2>5, IthUnique
    <3>2. v < t[i] => i < i
      BY <2>1, <2>3, <2>4, <2>5, IthUnique
    <3> QED BY <3>1, <3>2, <2>4
  <2>7. t[i] = v
    BY <2>6, <2>5, <2>1
  <2> QED BY <2>7, <2>4, <1>1 DEF ToSet
<1>7. ASSUME IsInjective(s) PROVE IsInjective(t)
  <2>1. ASSUME NEW i \in 1..Len(s), NEW k \in 1..Len(s), t[i] = t[k]
        PROVE  k <= i
    <3> DEFINE v == t[i]
    <3>1. v \in ToSet(s) /\ v \in Nat /\ IsIth(s, i, v) /\ IsIth(s, k, v)
      BY <1>2, <1>3, <2>1
    <3> HIDE DEF v
    <3>2. PICK j \in DOMAIN s : s[j] = v
      BY <3>1 DEF ToSet
    <3>3. AtMost(s, v) = Below(s, v) \cup {j} /\ j \notin Below(s, v)
      <4>1. \A l \in DOMAIN s : s[l] \in Nat
        OBVIOUS
      <4>2. \A l \in DOMAIN s : s[l] = v => l = j
        BY <3>2, <1>7 DEF IsInjective
      <4> QED BY <4>1, <4>2, <3>1, <3>2 DEF AtMost, Below
    <3>4. /\ Cardinality(AtMost(s, v)) = Cardinality(Below(s, v)) + 1
          /\ Cardinality(Below(s, v)) \in Nat
      BY <3>3, PositionsCounted, FS_AddElement
    <3>5. i \in Nat /\ k \in Nat
      BY <1>3
    <3> QED BY <3>1, <3>4, <3>5 DEF IsIth
  <2>2. \A i, k \in 1..Len(s) : t[i] = t[k] => i <= k /\ k <= i
    BY <2>1
  <2>3. DOMAIN t = 1..Len(s)
    BY <1>1
  <2> QED BY <2>2, <2>3, <1>3 DEF IsInjective
<1> QED BY <1>1, <1>4, <1>5, <1>6, <1>7 DEF t

-----------------------------------------------------------------------------
(* Merging.                                                                *)

\* A binary search finds what is in a sorted sequence.
LEMMA SearchFinds ==
    ASSUME NEW t \in Seq(Nat), Ascending(t), NEW v \in Nat
    PROVE  Found(t, v) <=> v \in ToSet(t)
<1> DEFINE notLess == {i \in 1..Len(t) : t[i] >= v}
           first == CHOOSE i \in notLess : \A j \in notLess : i <= j
<1>1. DOMAIN t = 1..Len(t) /\ Len(t) \in Nat /\ \A i \in 1..Len(t) : t[i] \in Nat /\ i \in Nat
  OBVIOUS
<1>2. Found(t, v) <=> notLess # {} /\ t[first] = v
  BY DEF Found
<1>3. ASSUME notLess # {} PROVE first \in notLess /\ \A j \in notLess : first <= j
  <2>1. notLess \subseteq Nat
    BY <1>1
  <2>2. \E i \in notLess : \A j \in notLess : i <= j
    <3> HIDE DEF notLess
    <3> QED BY <2>1, <1>3, LeastExists
  <2> HIDE DEF notLess
  <2> QED BY <2>2
<1> HIDE DEF first
<1>4. ASSUME notLess # {}, t[first] = v PROVE v \in ToSet(t)
  BY <1>1, <1>3, <1>4 DEF ToSet
<1>5. ASSUME v \in ToSet(t) PROVE notLess # {} /\ t[first] = v
  <2>1. PICK j \in 1..Len(t) : t[j] = v
    BY <1>1, <1>5 DEF ToSet
  <2>2. j \in notLess
    BY <2>1
  <2>3. first \in 1..Len(t) /\ t[first] >= v /\ first <= j
    BY <2>2, <1>3
  <2>4. t[first] <= t[j]
    BY <2>3 DEF Ascending
  <2> QED BY <1>1, <2>1, <2>2, <2>3, <2>4
<1> QED BY <1>2, <1>4, <1>5

(* A cookie is added to those there, once.                                 *)
LEMMA AddMissingAdds ==
    ASSUME NEW s \in Seq(Nat), NEW v \in Nat
    PROVE  /\ AddMissing(s, v) \in Seq(Nat)
           /\ ToSet(AddMissing(s, v)) = ToSet(s) \cup {v}
           /\ IsInjective(s) => IsInjective(AddMissing(s, v))
<1> DEFINE t == Sorted(s)
<1>1. /\ t \in Seq(Nat) /\ Ascending(t) /\ ToSet(t) = ToSet(s)
      /\ IsInjective(s) => IsInjective(t)
  BY SortedIsSorted
<1>2. AddMissing(s, v) = IF Found(t, v) THEN t ELSE Append(t, v)
  BY DEF AddMissing
<1> HIDE DEF t
<1>3. CASE v \in ToSet(t)
  BY <1>1, <1>2, <1>3, SearchFinds
<1>4. CASE v \notin ToSet(t)
  <2> DEFINE a == Append(t, v)
  <2>1. AddMissing(s, v) = a
    BY <1>1, <1>2, <1>4, SearchFinds
  <2>2. /\ a \in Seq(Nat) /\ Len(t) \in Nat /\ DOMAIN t = 1..Len(t)
        /\ DOMAIN a = 1..(Len(t) + 1)
        /\ \A i \in 1..Len(t) : a[i] = t[i]
        /\ a[Len(t) + 1] = v
    BY <1>1
  <2> HIDE DEF a
  <2>3. ToSet(a) = ToSet(t) \cup {v}
    <3>1. \A i \in DOMAIN a : i \in 1..Len(t) \/ i = Len(t) + 1
      BY <2>2
    <3>2. \A i \in 1..Len(t) : i \in DOMAIN a
      BY <2>2
    <3>3. Len(t) + 1 \in DOMAIN a
      BY <2>2
    <3> QED BY <2>2, <3>1, <3>2, <3>3 DEF ToSet
  <2>4. ASSUME IsInjective(t) PROVE IsInjective(a)
    <3>1. \A i \in 1..Len(t) : a[i] # v
      BY <2>2, <1>4 DEF ToSet
    <3>2. \A i \in DOMAIN a : i \in 1..Len(t) \/ i = Len(t) + 1
      BY <2>2
    <3>3. \A i, k \in 1..Len(t) : a[i] = a[k] => i = k
      BY <2>2, <2>4 DEF IsInjective
    <3> QED BY <2>2, <3>1, <3>2, <3>3 DEF IsInjective
  <2> QED BY <1>1, <2>1, <2>2, <2>3, <2>4
<1> QED BY <1>3, <1>4

(* The fold.  Its recursive function is there: for the first k indexes it  *)
(* is, by induction, and one more extends it.                              *)
Folded(f, new, old, S) ==
    IF S = {} THEN new ELSE AddMissing(f[S \ {Max(S)}], old[Max(S)])

IsFold(f, new, old, k) == f = [S \in SUBSET (1..k) |-> Folded(f, new, old, S)]

LEMMA MaxOfNext ==
    ASSUME NEW k \in Nat, NEW S, S \subseteq 1..(k + 1), k + 1 \in S
    PROVE  Max(S) = k + 1 /\ S \ {k + 1} \subseteq 1..k
<1>1. \A x \in S : x \in Nat /\ x <= k + 1
  OBVIOUS
<1>2. \A x \in S : (\A y \in S : x >= y) <=> x = k + 1
  BY <1>1
<1>3. Max(S) = k + 1
  BY <1>2 DEF Max
<1>4. \A x \in S \ {k + 1} : x \in 1..k
  OBVIOUS
<1> QED BY <1>3, <1>4

LEMMA FoldExists ==
    ASSUME NEW new, NEW old
    PROVE  \A k \in Nat : \E f : IsFold(f, new, old, k)
<1> DEFINE T == {k \in Nat : \E f : IsFold(f, new, old, k)}
<1>1. 0 \in T
  <2> DEFINE f == [S \in SUBSET (1..0) |-> new]
  <2>1. \A S \in SUBSET (1..0) : S = {}
    OBVIOUS
  <2>2. \A S \in SUBSET (1..0) : Folded(f, new, old, S) = new
    BY <2>1 DEF Folded
  <2>3. f = [S \in SUBSET (1..0) |-> Folded(f, new, old, S)]
    BY <2>2
  <2> QED BY <2>3 DEF IsFold
<1>2. ASSUME NEW k \in Nat, k \in T PROVE k + 1 \in T
  <2>1. PICK f : IsFold(f, new, old, k)
    BY <1>2
  <2> DEFINE g == [S \in SUBSET (1..(k + 1)) |->
                     IF k + 1 \in S THEN AddMissing(f[S \ {k + 1}], old[k + 1]) ELSE f[S]]
  <2>2. \A S \in SUBSET (1..k) : S \in SUBSET (1..(k + 1)) /\ k + 1 \notin S
    OBVIOUS
  <2>3. \A S \in SUBSET (1..k) : g[S] = f[S]
    BY <2>2
  <2>4. ASSUME NEW S \in SUBSET (1..(k + 1)) PROVE g[S] = Folded(g, new, old, S)
    <3>1. CASE k + 1 \in S
      <4>1. Max(S) = k + 1 /\ S \ {k + 1} \in SUBSET (1..k)
        BY <3>1, MaxOfNext
      <4>2. g[S] = AddMissing(f[S \ {k + 1}], old[k + 1])
        BY <3>1
      <4>3. g[S \ {k + 1}] = f[S \ {k + 1}]
        BY <2>3, <4>1
      <4> HIDE DEF g
      <4> QED BY <3>1, <4>1, <4>2, <4>3 DEF Folded
    <3>2. CASE k + 1 \notin S
      <4> HIDE DEF g
      <4>0. \A y \in S : y \in 1..k
        BY <3>2
      <4>1. S \in SUBSET (1..k) /\ \A x : S \ {x} \in SUBSET (1..k)
        BY <4>0
      <4> USE DEF g
      <4>2. g[S] = f[S] /\ \A x : g[S \ {x}] = f[S \ {x}]
        BY <4>1, <2>3
      <4>3. f[S] = Folded(f, new, old, S)
        BY <4>1, <2>1 DEF IsFold
      <4> HIDE DEF g
      <4> QED BY <4>2, <4>3 DEF Folded
    <3> QED BY <3>1, <3>2
  <2>5. IsFold(g, new, old, k + 1)
    <3>1. g = [S \in SUBSET (1..(k + 1)) |-> g[S]]
      OBVIOUS
    <3> HIDE DEF g
    <3> QED BY <2>4, <3>1 DEF IsFold
  <2> QED BY <2>5
<1> HIDE DEF T
<1>3. \A k \in Nat : k \in T
  BY <1>1, <1>2, Induction
<1> QED BY <1>3 DEF T

LEMMA FoldIsFold ==
    ASSUME NEW new, NEW old \in Seq(Nat)
    PROVE  \E f : /\ IsFold(f, new, old, Len(old))
                  /\ FoldLeft(AddMissing, new, old) = f[1..Len(old)]
<1> DEFINE Def(f) == f = [S \in SUBSET (DOMAIN old) |-> Folded(f, new, old, S)]
           g == CHOOSE f : Def(f)
<1>1. DOMAIN old = 1..Len(old) /\ Len(old) \in Nat
  OBVIOUS
<1>2. \E f : Def(f)
  <2>1. PICK f : IsFold(f, new, old, Len(old))
    BY <1>1, FoldExists
  <2>2. Def(f)
    BY <1>1, <2>1 DEF IsFold
  <2> HIDE DEF Def
  <2> QED BY <2>2
<1>3. Def(g)
  <2> HIDE DEF Def
  <2> QED BY <1>2
<1>4. FoldLeft(AddMissing, new, old) = g[DOMAIN old]
  BY DEF FoldLeft, MapThenFoldSet, Folded
<1>5. IsFold(g, new, old, Len(old))
  BY <1>1, <1>3 DEF IsFold
<1> QED BY <1>1, <1>4, <1>5

\* s has the new cookies and the first k of the old ones, none repeated.
Keeps(s, new, old, k) ==
    /\ s \in Seq(Nat)
    /\ ToSet(s) = ToSet(new) \cup {old[i] : i \in 1..k}
    /\ IsInjective(new) => IsInjective(s)

LEMMA FoldKeeps ==
    ASSUME NEW new \in Seq(Nat), NEW old \in Seq(Nat)
    PROVE  Keeps(FoldLeft(AddMissing, new, old), new, old, Len(old))
<1> DEFINE n == Len(old)
<1>1. PICK f : IsFold(f, new, old, n) /\ FoldLeft(AddMissing, new, old) = f[1..n]
  BY FoldIsFold
<1>2. n \in Nat /\ \A i \in 1..n : old[i] \in Nat
  OBVIOUS
<1> HIDE DEF n
<1> DEFINE T == {k \in Nat : k <= n => Keeps(f[1..k], new, old, k)}
<1>3. 0 \in T
  <2>1. 1..0 = {} /\ {} \in SUBSET (1..n)
    OBVIOUS
  <2>2. f[{}] = new
    BY <1>1, <2>1 DEF IsFold, Folded
  <2>3. {old[i] : i \in 1..0} = {}
    BY <2>1
  <2>4. Keeps(f[1..0], new, old, 0)
    BY <2>1, <2>2, <2>3 DEF Keeps
  <2> QED BY <2>4
<1>4. ASSUME NEW k \in Nat, k \in T PROVE k + 1 \in T
  <2> SUFFICES ASSUME k + 1 <= n PROVE Keeps(f[1..(k + 1)], new, old, k + 1)
    OBVIOUS
  <2>1. Keeps(f[1..k], new, old, k)
    BY <1>2, <1>4
  <2> HIDE DEF T
  <2>2. Max(1..(k + 1)) = k + 1
    <3>1. k + 1 \in 1..(k + 1) /\ 1..(k + 1) \subseteq 1..(k + 1)
      OBVIOUS
    <3> QED BY <3>1, MaxOfNext
  <2>3. (1..(k + 1)) \ {k + 1} = 1..k /\ 1..(k + 1) # {}
    <3>1. \A i : i \in 1..(k + 1) /\ i # k + 1 <=> i \in 1..k
      OBVIOUS
    <3>2. k + 1 \in 1..(k + 1)
      OBVIOUS
    <3> QED BY <3>1, <3>2
  <2>4. 1..(k + 1) \in SUBSET (1..n)
    BY <1>2
  <2>5. f[1..(k + 1)] = AddMissing(f[1..k], old[k + 1])
    BY <1>1, <2>2, <2>3, <2>4 DEF IsFold, Folded
  <2>6. old[k + 1] \in Nat
    BY <1>2
  <2>7. {old[i] : i \in 1..(k + 1)} = {old[i] : i \in 1..k} \cup {old[k + 1]}
    <3>1. \A i \in 1..(k + 1) : i \in 1..k \/ i = k + 1
      OBVIOUS
    <3>2. k + 1 \in 1..(k + 1) /\ \A i \in 1..k : i \in 1..(k + 1)
      OBVIOUS
    <3> QED BY <3>1, <3>2
  <2>8. /\ f[1..(k + 1)] \in Seq(Nat)
        /\ ToSet(f[1..(k + 1)]) = ToSet(f[1..k]) \cup {old[k + 1]}
        /\ IsInjective(f[1..k]) => IsInjective(f[1..(k + 1)])
    BY ZenonT(40), <2>1, <2>5, <2>6, AddMissingAdds DEF Keeps
  <2> QED BY <2>1, <2>7, <2>8 DEF Keeps
<1> HIDE DEF T
<1>5. \A k \in Nat : k \in T
  BY <1>3, <1>4, Induction
<1>6. Keeps(f[1..n], new, old, n)
  BY <1>2, <1>5 DEF T
<1> QED BY <1>1, <1>6 DEF n

\* Merging forgets none of the cookies and repeats none.
LEMMA MergeMerges ==
    ASSUME NEW new \in Seq(Nat), NEW cookie \in Seq(Nat)
    PROVE  /\ Merge(new, cookie) \in Seq(Nat)
           /\ ToSet(cookie) \ {EmptyString} \subseteq ToSet(Merge(new, cookie))
           /\ IsInjective(new) => IsInjective(Merge(new, cookie))
<1> DEFINE old == Split(cookie)
           all == FoldLeft(AddMissing, new, old)
<1>1. old \in Seq(Nat) /\ ToSet(cookie) \subseteq ToSet(old)
  <2>1. <<EmptyString>> \in Seq(Nat)
    BY DEF EmptyString
  <2>2. cookie = <<>> => ToSet(cookie) = {}
    BY DEF ToSet
  <2> QED BY <2>1, <2>2 DEF Split
<1>2. Merge(new, cookie) = IF all = <<EmptyString>> THEN <<>> ELSE all
  BY DEF Merge, Join
<1> HIDE DEF old
<1>3. Keeps(all, new, old, Len(old))
  BY <1>1, FoldKeeps
<1> HIDE DEF all
<1>4. ToSet(old) = {old[i] : i \in 1..Len(old)}
  <2>1. DOMAIN old = 1..Len(old)
    BY <1>1
  <2> QED BY <2>1 DEF ToSet
<1>5. ToSet(cookie) \subseteq ToSet(all)
  BY <1>1, <1>3, <1>4 DEF Keeps
<1>6. CASE all = <<EmptyString>>
  <2>1. ToSet(all) = {EmptyString}
    BY <1>6 DEF ToSet
  <2>2. <<>> \in Seq(Nat) /\ IsInjective(<<>>)
    BY DEF IsInjective
  <2> QED BY <1>2, <1>5, <1>6, <2>1, <2>2
<1>7. CASE all # <<EmptyString>>
  BY <1>2, <1>3, <1>5, <1>7 DEF Keeps
<1> QED BY <1>6, <1>7

-----------------------------------------------------------------------------
(* The cookies of the calls.                                               *)

Cookies == \A c \in Callers : res[c].cookie \in Seq(Nat)

LEMMA SetCookiesAreCookies == SetCookies \subseteq Seq(Nat)
<1>1. Seq(Nat \ {EmptyString}) \subseteq Seq(Nat)
  OBVIOUS
<1>2. QED
  BY <1>1, CookiesAssumption

LEMMA CookiesInit == Init => Cookies
<1> SUFFICES ASSUME Init, NEW c \in Callers PROVE res[c].cookie \in Seq(Nat)
  BY DEF Cookies
<1>1. res[c].cookie = <<>>
  BY DEF Init
<1>2. QED
  BY <1>1

\* A call that was answered has the cookies that came, merged or not.
LEMMA ConcludeCookie ==
    ASSUME Types, NEW c \in Callers, Conclude(c)
    PROVE  /\ \E new \in SetCookies :
                 res'[c].cookie = IF call[c].merge THEN Merge(new, res[c].cookie) ELSE new
           /\ \A d \in Callers \ {c} : res'[d] = res[d]
<1>1. PICK status \in {"200", "other"}, new \in SetCookies :
          LET r == Headed(c, status, new)
          IN  \/ res' = [res EXCEPT ![c] = r]
              \/ \E j : res' = [res EXCEPT ![c] = [r EXCEPT !.json = j]]
              \/ res' = [res EXCEPT ![c] = [r EXCEPT !.body = call[c].buf,
                                                     !.bodyOf = r.calls]]
  BY DEF Conclude
<1> DEFINE r == Headed(c, status, new)
<1>2. /\ IsArg(r)
      /\ r.cookie = IF call[c].merge THEN Merge(new, res[c].cookie) ELSE new
  BY HeadedFacts
<1> HIDE DEF r
<1>3. res'[c].cookie = r.cookie
  <2>1. \A j : [r EXCEPT !.json = j].cookie = r.cookie
    BY <1>2 DEF IsArg
  <2>2. [r EXCEPT !.body = call[c].buf, !.bodyOf = r.calls].cookie = r.cookie
    BY <1>2 DEF IsArg
  <2>3. PICK a : res' = [res EXCEPT ![c] = a] /\ a.cookie = r.cookie
    <3> DEFINE e == [r EXCEPT !.body = call[c].buf, !.bodyOf = r.calls]
    <3>1. \/ res' = [res EXCEPT ![c] = r]
          \/ \E j : res' = [res EXCEPT ![c] = [r EXCEPT !.json = j]]
          \/ res' = [res EXCEPT ![c] = e]
      BY <1>1 DEF r
    <3>2. e.cookie = r.cookie
      BY <2>2
    <3> HIDE DEF e
    <3> DEFINE Ends(a) == res' = [res EXCEPT ![c] = a] /\ a.cookie = r.cookie
    <3>3. Ends(r) \/ (\E j : Ends([r EXCEPT !.json = j])) \/ Ends(e)
      BY <2>1, <3>1, <3>2
    <3> HIDE DEF Ends
    <3>4. \E a : Ends(a)
      BY <3>3
    <3>5. QED
      BY <3>4 DEF Ends
  <2>4. QED
    BY <2>3 DEF Types
<1>4. \A d \in Callers \ {c} : res'[d] = res[d]
  BY <1>1 DEF Types
<1>5. QED
  BY <1>2, <1>3, <1>4

LEMMA CookiesStep == Types /\ Cookies /\ [Next]_vars => Cookies'
<1> SUFFICES ASSUME Types, Cookies, [Next]_vars, NEW c \in Callers
             PROVE  res'[c].cookie \in Seq(Nat)
  BY DEF Cookies
<1>1. res[c].cookie \in Seq(Nat)
  BY DEF Cookies
<1>2. ASSUME NEW d \in Callers, Begin(d)
      PROVE  res'[c].cookie \in Seq(Nat)
  <2>1. IsArg(res[d]) /\ res' = [res EXCEPT ![d] = [res[d] EXCEPT !.calls = @ + 1]]
    BY <1>2 DEF Begin, Types
  <2>2. [res[d] EXCEPT !.calls = @ + 1].cookie = res[d].cookie
    BY <2>1 DEF IsArg
  <2>3. QED
    BY <1>1, <2>1, <2>2 DEF Types
<1>3. ASSUME NEW d \in Callers, Conclude(d)
      PROVE  res'[c].cookie \in Seq(Nat)
  <2>1. CASE c = d
    BY <1>1, <1>3, <2>1, ConcludeCookie, SetCookiesAreCookies, MergeMerges
  <2>2. CASE c # d
    BY <1>1, <1>3, <2>2, ConcludeCookie
  <2>3. QED
    BY <2>1, <2>2
<1>4. CASE UNCHANGED res
  BY <1>1, <1>4
<1>5. QED
  BY <1>2, <1>3, <1>4
     DEF Next, FastResponse, TracerFastResponse, FastHTTPDialer, DialProxy, WriteFails,
         SendConnect, ProxyRefuses, ProxyConnects, Fail, Receive, Callers, vars

-----------------------------------------------------------------------------
(* Results.                                                                *)

IInv == Types /\ Cookies /\ Counted /\ Pool /\ Dialed /\ Own

\* The inductive invariant.  Each part needs those before it: an answer stays
\* in a response because nobody else has it.
LEMMA Invariance == Spec => []IInv
<1>1. Init => IInv
  <2>1. Init => Counted
    BY DEF Init, Counted, InCall, NoCall
  <2>2. QED
    BY <2>1, TypesInit, CookiesInit, PoolInit, DialedInit, OwnInit DEF IInv
<1>2. IInv /\ [Next]_vars => IInv'
  BY TypesStep, CookiesStep, CountedStep, PoolStep, DialedStep, OwnStep DEF IInv
<1>3. QED
  BY <1>1, <1>2, PTL DEF Spec

(* However calls end and whoever else is calling, each response is free or *)
(* in one call's hands, and no connection is lost but those to which the   *)
(* CONNECT could not be written.                                           *)
THEOREM ResourcesComeBack == Spec => []ResourcesAreAccountedFor
<1>1. IInv => ResourcesAreAccountedFor
  <2> SUFFICES ASSUME IInv PROVE ResourcesAreAccountedFor
    OBVIOUS
  <2>1. ASSUME NEW b \in Buffers
        PROVE  Cardinality(CallsWith(b)) + Cardinality(DialsWith(b))
               = IF b \in free THEN 0 ELSE 1
    <3>1. Cardinality({}) = 0 /\ \A c : Cardinality({c}) = 1
      BY FS_EmptySet, FS_Singleton
    <3>2. InOnePairOfHands(b)
      BY DEF IInv, Pool
    <3>3. CASE b \in free
      BY <3>1, <3>2, <3>3 DEF InOnePairOfHands
    <3>4. CASE b \notin free
      <4>1. CASE DialsWith(b) = {} /\ \E c \in Callers : CallsWith(b) = {c}
        <5>1. Cardinality(DialsWith(b)) = 0 /\ Cardinality(CallsWith(b)) = 1
          BY <3>1, <4>1
        <5>2. QED
          BY <3>4, <5>1
      <4>2. CASE CallsWith(b) = {} /\ \E c \in Callers : DialsWith(b) = {c}
        <5>1. Cardinality(DialsWith(b)) = 1 /\ Cardinality(CallsWith(b)) = 0
          BY <3>1, <4>2
        <5>2. QED
          BY <3>4, <5>1
      <4>3. QED
        BY <3>2, <3>4, <4>1, <4>2 DEF InOnePairOfHands
    <3>5. QED
      BY <3>3, <3>4
  <2>2. QED
    BY <2>1 DEF IInv, Dialed, ResourcesAreAccountedFor
<1>2. QED
  BY <1>1, Invariance, PTL

(* What a call that returned true decoded is the answer to that very call, *)
(* however many goroutines share the pool.                                 *)
THEOREM AnswersAreOwn == Spec => []JsonIsOwn
<1>1. IInv => JsonIsOwn
  BY DEF IInv, Own, JsonIsOwn
<1>2. QED
  BY <1>1, Invariance, PTL

(* The variables keep their types, the cookies too.                        *)
THEOREM TypesHold == Spec => []TypeOK
<1>1. IInv => TypeOK
  BY DEF IInv, Types, Cookies, IsArg, Call, Dial, TypeOK
<1>2. QED
  BY <1>1, Invariance, PTL

(* Merging forgets no cookie the caller had, and repeats none where the    *)
(* server has not, however long the lists are: what is searched has been   *)
(* sorted before, each time.                                               *)
THEOREM CookiesAreKept == Spec => MergeKeepsCookies
<1> DEFINE Kept ==
        \A c \in Callers :
            call[c].pc = "got" /\ ~InCall(c)' /\ call[c].merge =>
                /\ ToSet(res[c].cookie) \ {EmptyString} \subseteq ToSet(res'[c].cookie)
                /\ SetOnce => IsInjective(res'[c].cookie)
<1>1. IInv /\ [Next]_vars => [Kept]_vars
  <2> SUFFICES ASSUME IInv, Next, NEW c \in Callers,
                      call[c].pc = "got", ~InCall(c)', call[c].merge
               PROVE  /\ ToSet(res[c].cookie) \ {EmptyString} \subseteq ToSet(res'[c].cookie)
                      /\ SetOnce => IsInjective(res'[c].cookie)
    OBVIOUS
  <2>1. Types /\ Types' /\ InCall(c) /\ res[c].cookie \in Seq(Nat)
    BY TypesStep, CallFacts DEF IInv, Cookies
  <2>2. Conclude(c)
    <3>1. \A d \in Callers : dial[d] # NoDial => d # c
      BY <2>1 DEF Types
    <3>2. ASSUME NEW d \in Callers, d # c,
                 \/ Begin(d) \/ Fail(d) \/ Receive(d) \/ Conclude(d)
                 \/ FastHTTPDialer(d)
          PROVE  FALSE
      <4>1. call'[c] = call[c]
        BY <2>1, <3>2 DEF Types, Begin, Fail, Receive, Conclude, Leave, FastHTTPDialer,
               DialProxy, WriteFails, SendConnect, ProxyRefuses, ProxyConnects
      <4>2. QED
        BY <2>1, <4>1 DEF InCall
    <3>3. ~Begin(c) /\ ~Fail(c) /\ ~Receive(c)
      BY <2>1 DEF Begin, Fail, Receive
    <3>4. ~FastHTTPDialer(c)
      BY <2>1, <3>1, DialFacts DEF FastHTTPDialer, DialProxy, WriteFails, SendConnect,
         ProxyRefuses, ProxyConnects
    <3>5. QED
      BY <3>2, <3>3, <3>4 DEF Next, FastResponse, TracerFastResponse, Callers
  <2>3. PICK new \in SetCookies : res'[c].cookie = Merge(new, res[c].cookie)
    BY <2>1, <2>2, ConcludeCookie
  <2>4. new \in Seq(Nat) /\ (SetOnce => IsInjective(new))
    BY SetCookiesAreCookies DEF SetOnce
  <2>5. QED
    BY <2>1, <2>3, <2>4, MergeMerges
<1>2. QED
  BY <1>1, Invariance, PTL DEF Spec, MergeKeepsCookies

=============================================================================
