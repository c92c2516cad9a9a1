----------------------------- MODULE Mesh_proofs -----------------------------
(***************************************************************************)
(* Mesh, for any number of nodes, sockets, joins, leaves, time-outs and    *)
(* envelopes: its types, that the two ends of a connection agree, and how  *)
(* much of a read is lost when a write fails in the middle of it.          *)
(*                                                                         *)
(* EndsAgree speaks of a mesh in which nothing is under way; what makes it *)
(* inductive is what is known while something is.  Of a connection on      *)
(* which the Members of the other end was sent and is no longer in the     *)
(* inbox, this end has decided: it is closed or the established one        *)
(* (SettledInv).  For that, Members has to be the first message on every   *)
(* socket (MessagesInv), a socket must have no more than two ends that     *)
(* know of each other (PairInv), and one until it is accepted              *)
(* (BacklogInv).                                                           *)
(*                                                                         *)
(* Nearly every action is what some handler of one node has done so far,   *)
(* taken over by Commit.  Working says what such a handler keeps true,     *)
(* Outcome what the whole mesh is after it, and the lemmas between them go *)
(* handler by handler.                                                     *)
(***************************************************************************)
EXTENDS Mesh, ClusterServer_proofs, FiniteSetTheorems

Sock(s, c) == s.connections[c].sock
Sent(s, c) == s.connections[c].members_sent

(* The dots an actor has made.                                             *)
Own(n, o) == {d \in o.add : d[2] = n}

(* The next message, if there is one, is not the handshake.                *)
MembersRead(q) == q = <<>> \/ q[1].type # "Members"

(* The connections of s, a state of n, on which the Members of the other   *)
(* end has been handled, when left[c] is still to be read from socket c.   *)
Greeted(s, left) ==
    {c \in Live(s) : /\ c \in Live(srv[Sock(s, c)]) /\ Sent(srv[Sock(s, c)], c)
                     /\ MembersRead(left[c])}

-----------------------------------------------------------------------------
(* The inductive invariant.                                                *)

TypeInv ==
    /\ members \in [Node -> ORSet]
    /\ srv \in [Node -> ServerState]
    /\ inbox \in [Node -> [Id -> Seq(Msg)]]
    /\ backlog \in [Node -> SUBSET (Id \X Node)]
    /\ wanted \subseteq Node \X Node
    /\ mail \in [1 .. MaxSends -> [fate : Fate, on : SUBSET Id]]
    /\ budget \in [joins : Nat, leaves : Nat, timeouts : Nat]

(* A socket has at most two ends, which know of each other.                *)
PairInv ==
    \A n \in Node : \A c \in Live(srv[n]) :
       /\ Peer(n, c) # n
       /\ \A m \in Node \ {n} : c \in Live(srv[m]) => Peer(n, c) = m

(* A socket not yet accepted has one end, on which nothing was written.    *)
BacklogInv ==
    \A n \in Node : \A e \in backlog[n] :
       /\ e[2] # n
       /\ \A k \in Node : e[1] \in Live(srv[k]) =>
             /\ k = e[2] /\ Peer(k, e[1]) = n
             /\ ~Sent(srv[k], e[1]) /\ inbox[k][e[1]] = <<>>
       /\ \A k \in Node : \A f \in backlog[k] : f[1] = e[1] => k = n /\ f = e

(* Members is the first message on a connection, and nobody writes before  *)
(* it.                                                                     *)
MessagesInv ==
    \A n \in Node, c \in Id :
       /\ c \notin Live(srv[n]) => inbox[n][c] = <<>>
       /\ \A k \in 1 .. Len(inbox[n][c]) :
             /\ inbox[n][c][k].from = Peer(n, c)
             /\ inbox[n][c][k].type = "Members" => k = 1
       /\ \A m \in Node \ {n} :
             c \in Live(srv[m]) /\ c \in Live(srv[n]) /\ ~Sent(srv[m], c)
                => inbox[n][c] = <<>>

(* A dot is known to the node that made it, and it takes a join to make    *)
(* one.                                                                    *)
DotsInv ==
    /\ \A n \in Node : \A a \in Node : Own(a, members[n]) \subseteq members[a].add
    /\ \A n \in Node, c \in Id : \A k \in 1 .. Len(inbox[n][c]) :
          inbox[n][c][k].type # "Envelope" =>
             \A a \in Node : Own(a, inbox[n][c][k].orset) \subseteq members[a].add
    /\ \A n \in Node : Cardinality(Own(n, members[n])) + budget.joins <= MaxJoins + 1

(* Where the Members of the other end was handled, the connection is the   *)
(* established one, as long as it is there.                                *)
SettledInv == \A n \in Node : SingleOK(srv[n], Greeted(srv[n], inbox[n]))

IInv == /\ TypeInv
        /\ \A n \in Node : Good(n, srv[n])
        /\ PairInv
        /\ BacklogInv
        /\ MessagesInv
        /\ DotsInv
        /\ SettledInv

-----------------------------------------------------------------------------
(* Numbering the members of a finite set of numbers, for connect().        *)

LEMMA RankFacts ==
    ASSUME NEW S \in SUBSET Nat, IsFiniteSet(S)
    PROVE  /\ Cardinality(S) \in Nat
           /\ \A x \in S : Rank(x, S) \in 0 .. Cardinality(S) - 1
           /\ \A x, y \in S : x < y => Rank(x, S) < Rank(y, S)
<1> DEFINE below(x) == {y \in S : y < x}
<1>1. \A x \in S : /\ IsFiniteSet(below(x)) /\ Cardinality(below(x)) \in Nat
                   /\ Cardinality(below(x)) <= Cardinality(S)
                   /\ below(x) # S
                   /\ Cardinality(S) = Cardinality(below(x)) => S = below(x)
  BY FS_Subset, FS_CardinalityType
<1>2. Cardinality(S) \in Nat
  BY FS_CardinalityType
<1>3. \A x \in S : Rank(x, S) = Cardinality(below(x))
  BY DEF Rank
<1>4. ASSUME NEW x \in S, NEW y \in S, x < y
      PROVE  Cardinality(below(x)) < Cardinality(below(y))
  <2>0. x \in Nat /\ y \in Nat /\ \A z \in S : z \in Nat
    OBVIOUS
  <2>1. /\ below(x) \in SUBSET below(y)
        /\ x \in below(y) /\ x \notin below(x)
    <3>1. \A z \in S : z < x => z < y
      BY <1>4, <2>0
    <3>2. ~(x < x)
      BY <2>0
    <3> QED
      BY <1>4, <3>1, <3>2
  <2>2. IsFiniteSet(below(y)) /\ Cardinality(below(x)) \in Nat /\ Cardinality(below(y)) \in Nat
    BY <1>1
  <2> HIDE DEF below
  <2>3. /\ Cardinality(below(x)) <= Cardinality(below(y))
        /\ Cardinality(below(y)) = Cardinality(below(x)) => below(y) = below(x)
    BY <2>1, <2>2, FS_Subset
  <2> QED
    BY <2>1, <2>2, <2>3
<1> HIDE DEF below
<1> QED
  BY <1>1, <1>2, <1>3, <1>4

(* There is one for each rank.                                             *)
LEMMA RankOnto ==
    ASSUME NEW S \in SUBSET Nat, IsFiniteSet(S), NEW r \in Nat, r < Cardinality(S)
    PROVE  \E x \in S : Rank(x, S) = r
<1> DEFINE N == Cardinality(S)
           T == 0 .. N - 1
           f == [x \in S |-> Rank(x, S)]
<1>1. /\ N \in Nat
      /\ \A x \in S : Rank(x, S) \in T
      /\ \A x, y \in S : x < y => Rank(x, S) < Rank(y, S)
  BY RankFacts
<1>2. \A x, y \in S : Rank(x, S) = Rank(y, S) => x = y
  <2>1. \A x, y \in S : x < y \/ y < x \/ x = y
    OBVIOUS
  <2> QED
    BY <1>1, <2>1
<1>3. f \in Injection(S, T)
  BY <1>1, <1>2 DEF Injection, IsInjective
<1>4. IsFiniteSet(T) /\ Cardinality(T) = N
  <2>1. 0 \in Int /\ N - 1 \in Int
    BY <1>1
  <2>2. IsFiniteSet(T) /\ Cardinality(T) = IF 0 > N - 1 THEN 0 ELSE N - 1 - 0 + 1
    BY <2>1, FS_Interval
  <2> QED
    BY <1>1, <2>2
<1>5. f \in Surjection(S, T)
  <2> HIDE DEF f, T
  <2> QED
    BY <1>3, <1>4, FS_Injection
<1>6. r \in T
  BY <1>1
<1> QED
  BY <1>5, <1>6 DEF Surjection

(* The dots of one actor can be counted.                                   *)
LEMMA OwnFinite ==
    ASSUME NEW o \in ORSet, NEW n
    PROVE  IsFiniteSet(Own(n, o)) /\ Cardinality(Own(n, o)) \in Nat
<1>1. IsFiniteSet(Dot)
  <2>1. MaxJoins \in Nat /\ IsFiniteSet(Node)
    BY MeshAssumption
  <2>2. IsFiniteSet(1 .. MaxJoins + 1)
    BY <2>1, FS_Interval
  <2>3. IsFiniteSet(Node \X Node)
    BY <2>1, FS_Product
  <2> DEFINE P == (Node \X Node) \X (1 .. MaxJoins + 1)
             f == [p \in P |-> <<p[1][1], p[1][2], p[2]>>]
  <2>4. IsFiniteSet(P)
    BY <2>2, <2>3, FS_Product
  <2>5. f \in Surjection(P, Dot)
    <3>1. f \in [P -> Dot]
      BY DEF Dot
    <3>2. ASSUME NEW d \in Dot
          PROVE  \E p \in P : f[p] = d
      <4>1. /\ d = <<d[1], d[2], d[3]>>
            /\ d[1] \in Node /\ d[2] \in Node /\ d[3] \in 1 .. MaxJoins + 1
        BY DEF Dot
      <4>2. <<<<d[1], d[2]>>, d[3]>> \in P /\ f[<<<<d[1], d[2]>>, d[3]>>] = d
        BY <4>1
      <4> QED
        BY <4>2
    <3> HIDE DEF f, P
    <3> QED
      BY <3>1, <3>2 DEF Surjection
  <2> HIDE DEF f, P
  <2> QED
    BY <2>4, <2>5, FS_Surjection
<1>2. Own(n, o) \in SUBSET Dot
  BY DEF Own, ORSet
<1> QED
  BY <1>1, <1>2, FS_Subset, FS_CardinalityType

-----------------------------------------------------------------------------
(* What a handler of n has done so far, as Commit takes it over.           *)

(* Its connections: those n had, and those it dialled.                     *)
Kept(n, s, dial) ==
    /\ Good(n, s)
    /\ \A c \in Live(s) :
          \/ c \in Live(srv[n]) /\ Sock(s, c) = Peer(n, c)
          \/ c \in DOMAIN dial /\ Sock(s, c) = dial[c] /\ ~Sent(s, c)
    /\ \A c \in DOMAIN dial : c \in Free /\ dial[c] \in Node \ {n}

(* What it wrote: anything but Members, on connections greeted before.     *)
Spoke(n, c, out) ==
    /\ Sent(srv[n], c)
    /\ \A k \in 1 .. Len(out[c]) : out[c][k].type # "Members" /\ out[c][k].from = n

(* Members, on a connection of which something was to be read.             *)
Greets(n, c, out) ==
    /\ ~Sent(srv[n], c) /\ inbox[n][c] # <<>>
    /\ Len(out[c]) = 1 /\ out[c][1].type = "Members" /\ out[c][1].from = n

Wrote(n, s, out) ==
    /\ out \in [Id -> Seq(Msg)]
    /\ \A c \in Id : out[c] # <<>> => c \in Live(srv[n])
    /\ \A c \in Live(srv[n]) :
          \/ out[c] = <<>> /\ (c \in Live(s) /\ Sent(s, c) => Sent(srv[n], c))
          \/ Spoke(n, c, out)
          \/ Greets(n, c, out) /\ (c \in Live(s) => Sent(s, c))
    /\ \A c \in Live(srv[n]) \cap Live(s) : Sent(srv[n], c) => Sent(s, c)

(* The dots of the members it keeps and of those it wrote.                 *)
Known(n, o, d) == \A a \in Node : Own(a, d) \subseteq IF a = n THEN o.add ELSE members[a].add

Dotted(n, o, out) ==
    /\ o \in ORSet /\ members[n].add \subseteq o.add /\ Known(n, o, o)
    /\ \A c \in Id : \A k \in 1 .. Len(out[c]) :
          out[c][k].type # "Envelope" => Known(n, o, out[c][k].orset)

(* What is left to be read: all that was, or some of it without Members.   *)
Remains(n, left) ==
    /\ left \in [Id -> Seq(Msg)]
    /\ \A c \in Id :
          \/ left[c] = inbox[n][c]
          \/ /\ inbox[n][c] # <<>>
             /\ \A k \in 1 .. Len(left[c]) :
                   /\ left[c][k].type # "Members"
                   /\ \E j \in 1 .. Len(inbox[n][c]) : left[c][k] = inbox[n][c][j]

Settles(s, left) == SingleOK(s, Greeted(s, left))

(* A connection that was dialled has no other end yet.                     *)
LEMMA DialledAlone ==
    ASSUME NEW c, c \in Free
    PROVE  /\ c \in Id /\ \A n \in Node : c \notin Live(srv[n])
           /\ \A n \in Node : \A e \in backlog[n] : e[1] # c
  BY DEF Free, InBacklog

(* Closing some of the connections of s spoils nothing of this.            *)
LEMMA ShrinksHand ==
    ASSUME NEW n \in Node, NEW s, NEW t, Shrinks(s, t), Good(n, t),
           NEW dial, Kept(n, s, dial), NEW out, Wrote(n, s, out),
           NEW left, Settles(s, left)
    PROVE  Kept(n, t, dial) /\ Wrote(n, t, out) /\ Settles(t, left)
<1>1. /\ Live(t) \subseteq Live(s)
      /\ \A c \in Live(t) : Sock(t, c) = Sock(s, c) /\ t.connections[c] = s.connections[c]
      /\ \A c \in Live(t) : (Sent(t, c) => Sent(s, c)) /\ (Sent(s, c) => Sent(t, c))
  BY DEF Shrinks, Sock, Sent
<1>2. Kept(n, t, dial)
  BY <1>1 DEF Kept
<1>3. Wrote(n, t, out)
  BY <1>1 DEF Wrote
<1>4. Greeted(t, left) = Greeted(s, left) \cap Live(t)
  BY <1>1 DEF Greeted
<1> QED
  BY <1>2, <1>3, <1>4, ShrinksSingle DEF Settles

-----------------------------------------------------------------------------
(* Taking over what a handler has done.                                    *)

Reads(n, c, s, left) == IF c \in Live(s) THEN left[c] ELSE <<>>
Gets(n, m, c, out) ==
    IF c \in Live(srv[m]) /\ Peer(m, c) = n THEN inbox[m][c] \o out[c] ELSE inbox[m][c]

Outcome(n, s, o, out, dial, left) ==
    /\ Kept(n, s, dial) /\ Wrote(n, s, out) /\ Dotted(n, o, out)
    /\ Remains(n, left) /\ Settles(s, left)
    /\ srv' = [srv EXCEPT ![n] = s]
    /\ members' = [members EXCEPT ![n] = o]
    /\ inbox' = [m \in Node |-> [c \in Id |->
                    IF m = n THEN Reads(n, c, s, left) ELSE Gets(n, m, c, out)]]
    /\ backlog' = [m \in Node |-> backlog[m] \cup
                      {<<c, n>> : c \in {c \in DOMAIN dial : dial[c] = m}}]

LEMMA OutcomeFields ==
    ASSUME IInv, NEW n \in Node, NEW s, NEW o, NEW out, NEW dial, NEW left,
           Outcome(n, s, o, out, dial, left)
    PROVE  /\ srv'[n] = s /\ \A m \in Node \ {n} : srv'[m] = srv[m]
           /\ members'[n] = o /\ \A m \in Node \ {n} : members'[m] = members[m]
           /\ \A c \in Id : inbox'[n][c] = Reads(n, c, s, left)
           /\ \A m \in Node \ {n}, c \in Id : inbox'[m][c] = Gets(n, m, c, out)
           /\ \A m \in Node : \A e \in backlog'[m] :
                 \/ e \in backlog[m]
                 \/ e = <<e[1], n>> /\ e[2] = n /\ e[1] \in DOMAIN dial /\ dial[e[1]] = m
           /\ \A m \in Node : Live(srv[m]) \subseteq Id
           /\ Live(s) \subseteq Id
           /\ \A c \in DOMAIN dial : c \in Id
<1>1. srv \in [Node -> ServerState] /\ members \in [Node -> ORSet]
  BY DEF IInv, TypeInv
<1>2. /\ srv' = [srv EXCEPT ![n] = s]
      /\ members' = [members EXCEPT ![n] = o]
      /\ inbox' = [m \in Node |-> [c \in Id |->
                    IF m = n THEN Reads(n, c, s, left) ELSE Gets(n, m, c, out)]]
      /\ backlog' = [m \in Node |-> backlog[m] \cup
                      {<<c, n>> : c \in {c \in DOMAIN dial : dial[c] = m}}]
  BY DEF Outcome
<1>3. \A m \in Node : Live(srv[m]) \subseteq Id
  BY ServerStateFields DEF IInv, Good
<1>4. Live(s) \subseteq Id
  BY ServerStateFields DEF Outcome, Kept, Good
<1>5. \A c \in DOMAIN dial : c \in Id
  BY DialledAlone DEF Outcome, Kept
<1>6. \A m \in Node : \A e \in backlog'[m] :
         \/ e \in backlog[m]
         \/ e = <<e[1], n>> /\ e[2] = n /\ e[1] \in DOMAIN dial /\ dial[e[1]] = m
  BY <1>2
<1> QED
  BY <1>1, <1>2, <1>3, <1>4, <1>5, <1>6

(* A connection at n whose other end is live was there before.             *)
LEMMA OutcomeOld ==
    ASSUME NEW n \in Node, NEW s, NEW o, NEW out, NEW dial, NEW left,
           Outcome(n, s, o, out, dial, left), NEW c \in Live(s), NEW m \in Node,
           c \in Live(srv[m])
    PROVE  c \in Live(srv[n]) /\ Sock(s, c) = Peer(n, c)
  BY DialledAlone DEF Outcome, Kept

LEMMA OutcomePair ==
    ASSUME IInv, NEW n \in Node, NEW s, NEW o, NEW out, NEW dial, NEW left,
           Outcome(n, s, o, out, dial, left)
    PROVE  PairInv'
<1> SUFFICES ASSUME NEW m \in Node, NEW c \in Live(srv'[m])
             PROVE  /\ Sock(srv'[m], c) # m
                    /\ \A k \in Node \ {m} : c \in Live(srv'[k]) => Sock(srv'[m], c) = k
  BY DEF PairInv, Peer, Sock, Live
<1>1. srv'[n] = s /\ \A k \in Node \ {n} : srv'[k] = srv[k]
  BY OutcomeFields
<1>2. \A k \in Node : \A j \in Node \ {k} :
         c \in Live(srv[k]) /\ c \in Live(srv[j]) => Sock(srv[k], c) = j
  BY DEF IInv, PairInv, Peer, Sock
<1>3. \A k \in Node : c \in Live(srv[k]) => Sock(srv[k], c) # k
  BY DEF IInv, PairInv, Peer, Sock
<1>4. CASE m = n
  <2>1. Sock(s, c) # n
    BY <1>1, <1>3, <1>4 DEF Outcome, Kept, Peer, Sock
  <2>2. \A k \in Node \ {n} : c \in Live(srv[k]) => Sock(s, c) = k
    BY <1>1, <1>2, <1>4, OutcomeOld DEF Peer, Sock
  <2> QED
    BY <1>1, <1>4, <2>1, <2>2
<1>5. CASE m # n
  BY <1>1, <1>2, <1>3, <1>5, OutcomeOld
<1> QED
  BY <1>4, <1>5

LEMMA OutcomeBacklog ==
    ASSUME IInv, NEW n \in Node, NEW s, NEW o, NEW out, NEW dial, NEW left,
           Outcome(n, s, o, out, dial, left)
    PROVE  BacklogInv'
<1> SUFFICES ASSUME NEW m \in Node, NEW e \in backlog'[m]
             PROVE  /\ e[2] # m
                    /\ \A k \in Node : e[1] \in Live(srv'[k]) =>
                          /\ k = e[2] /\ Sock(srv'[k], e[1]) = m
                          /\ ~Sent(srv'[k], e[1]) /\ inbox'[k][e[1]] = <<>>
                    /\ \A k \in Node : \A f \in backlog'[k] : f[1] = e[1] => k = m /\ f = e
  BY DEF BacklogInv, Peer, Sock, Sent, Live
<1>1. /\ srv'[n] = s /\ \A k \in Node \ {n} : srv'[k] = srv[k]
      /\ \A c \in Id : inbox'[n][c] = Reads(n, c, s, left)
      /\ \A k \in Node \ {n}, c \in Id : inbox'[k][c] = Gets(n, k, c, out)
      /\ \A k \in Node : \A f \in backlog'[k] :
            \/ f \in backlog[k]
            \/ f = <<f[1], n>> /\ f[2] = n /\ f[1] \in DOMAIN dial /\ dial[f[1]] = k
      /\ \A k \in Node : Live(srv[k]) \subseteq Id
      /\ Live(s) \subseteq Id
  BY OutcomeFields
<1>2. \A c \in DOMAIN dial : /\ c \in Free /\ dial[c] \in Node /\ dial[c] # n
                             /\ \A k \in Node : c \notin Live(srv[k])
                             /\ \A k \in Node : \A f \in backlog[k] : f[1] # c
                             /\ c \in Id
  BY DialledAlone DEF Outcome, Kept
<1>3. \A c \in Id : left[c] = inbox[n][c] \/ inbox[n][c] # <<>>
  BY DEF Outcome, Remains
<1>4. CASE e \in backlog[m]
  <2>1. /\ e[2] # m
        /\ \A k \in Node : e[1] \in Live(srv[k]) =>
              /\ k = e[2] /\ Sock(srv[k], e[1]) = m
              /\ ~Sent(srv[k], e[1]) /\ inbox[k][e[1]] = <<>>
        /\ \A k \in Node : \A f \in backlog[k] : f[1] = e[1] => k = m /\ f = e
    BY <1>4 DEF IInv, BacklogInv, Peer, Sock
  <2>2. e[1] \notin DOMAIN dial
    BY <1>2, <1>4
  <2>3. ASSUME NEW k \in Node \ {n}, e[1] \in Live(srv'[k])
        PROVE  /\ k = e[2] /\ Sock(srv'[k], e[1]) = m
               /\ ~Sent(srv'[k], e[1]) /\ inbox'[k][e[1]] = <<>>
    <3>1. /\ k = e[2] /\ Sock(srv[k], e[1]) = m
          /\ ~Sent(srv[k], e[1]) /\ inbox[k][e[1]] = <<>>
          /\ e[1] \in Live(srv[k]) /\ e[1] \in Id
      BY <1>1, <2>1, <2>3
    <3>2. m = n => e[1] \notin Live(srv[n])
      BY <2>1, <3>1
    <3>3. m = n => out[e[1]] = <<>>
      BY <3>1, <3>2 DEF Outcome, Wrote
    <3>4. inbox'[k][e[1]] = <<>>
      <4>1. inbox'[k][e[1]] = Gets(n, k, e[1], out)
        BY <1>1, <3>1
      <4>2. <<>> \o <<>> = <<>>
        OBVIOUS
      <4>3. Gets(n, k, e[1], out) = <<>>
        BY <3>1, <3>3, <4>2 DEF Gets, Peer, Sock
      <4> QED
        BY <4>1, <4>3
    <3> QED
      BY <1>1, <3>1, <3>4
  <2>4. ASSUME e[1] \in Live(s)
        PROVE  /\ n = e[2] /\ Sock(s, e[1]) = m
               /\ ~Sent(s, e[1]) /\ Reads(n, e[1], s, left) = <<>>
    <3>1. e[1] \in Live(srv[n]) /\ Sock(s, e[1]) = Peer(n, e[1])
      BY <2>2, <2>4 DEF Outcome, Kept
    <3>2. /\ n = e[2] /\ Sock(s, e[1]) = m
          /\ ~Sent(srv[n], e[1]) /\ inbox[n][e[1]] = <<>>
      BY <2>1, <3>1 DEF Peer, Sock
    <3>3. ~Sent(s, e[1])
      BY <2>4, <3>1, <3>2 DEF Outcome, Wrote, Spoke, Greets
    <3>4. left[e[1]] = <<>>
      BY <1>1, <1>3, <2>4, <3>2
    <3> QED
      BY <3>2, <3>3, <3>4 DEF Reads
  <2>5. \A k \in Node : \A f \in backlog'[k] : f[1] = e[1] => k = m /\ f = e
    BY <1>1, <2>1, <2>2
  <2> QED
    BY <1>1, <2>1, <2>3, <2>4, <2>5
<1>5. CASE e \notin backlog[m]
  <2>1. e = <<e[1], n>> /\ e[2] = n /\ e[1] \in DOMAIN dial /\ dial[e[1]] = m
    BY <1>1, <1>5
  <2>2. /\ m # n /\ e[1] \in Id
        /\ \A k \in Node : e[1] \notin Live(srv[k])
        /\ \A k \in Node : \A f \in backlog[k] : f[1] # e[1]
    BY <1>2, <2>1
  <2>3. ASSUME e[1] \in Live(s)
        PROVE  /\ Sock(s, e[1]) = m /\ ~Sent(s, e[1]) /\ Reads(n, e[1], s, left) = <<>>
    <3>1. Sock(s, e[1]) = m /\ ~Sent(s, e[1])
      BY <2>1, <2>2, <2>3 DEF Outcome, Kept
    <3>2. inbox[n][e[1]] = <<>>
      BY <2>2 DEF IInv, MessagesInv
    <3>3. left[e[1]] = <<>>
      BY <1>3, <2>2, <3>2
    <3> QED
      BY <3>1, <3>3 DEF Reads
  <2>4. \A k \in Node : \A f \in backlog'[k] : f[1] = e[1] => k = m /\ f = e
    BY <1>1, <2>1, <2>2
  <2> QED
    BY <1>1, <2>1, <2>2, <2>3, <2>4
<1> QED
  BY <1>4, <1>5

(* What is in the sockets of the others afterwards.                        *)
LEMMA OutcomeGets ==
    ASSUME IInv, NEW n \in Node, NEW s, NEW o, NEW out, NEW dial, NEW left,
           Outcome(n, s, o, out, dial, left), NEW m \in Node \ {n}, NEW c \in Id
    PROVE  /\ Gets(n, m, c, out) \in Seq(Msg)
           /\ \A k \in 1 .. Len(Gets(n, m, c, out)) :
                 \/ /\ k \in 1 .. Len(inbox[m][c])
                    /\ Gets(n, m, c, out)[k] = inbox[m][c][k]
                 \/ /\ c \in Live(srv[m]) /\ Peer(m, c) = n
                    /\ k - Len(inbox[m][c]) \in 1 .. Len(out[c])
                    /\ Gets(n, m, c, out)[k] = out[c][k - Len(inbox[m][c])]
           /\ \/ Gets(n, m, c, out) = inbox[m][c]
              \/ c \in Live(srv[m]) /\ Peer(m, c) = n /\ c \in Live(srv[n]) /\ out[c] # <<>>
           /\ inbox[m][c] # <<>> => /\ Gets(n, m, c, out) # <<>>
                                    /\ Gets(n, m, c, out)[1] = inbox[m][c][1]
<1>1. inbox[m][c] \in Seq(Msg)
  BY DEF IInv, TypeInv
<1>2. out[c] \in Seq(Msg) /\ (out[c] # <<>> => c \in Live(srv[n]))
  BY DEF Outcome, Wrote
<1>3. CASE c \in Live(srv[m]) /\ Peer(m, c) = n
  <2> DEFINE p == inbox[m][c]
             q == out[c]
  <2>1. Gets(n, m, c, out) = p \o q
    BY <1>3 DEF Gets
  <2>2. p \in Seq(Msg) /\ q \in Seq(Msg)
    BY <1>1, <1>2
  <2> HIDE DEF p, q
  <2>3. /\ p \o q \in Seq(Msg)
        /\ Len(p \o q) = Len(p) + Len(q) /\ Len(p) \in Nat /\ Len(q) \in Nat
        /\ \A k \in 1 .. Len(p) + Len(q) :
              (p \o q)[k] = IF k <= Len(p) THEN p[k] ELSE q[k - Len(p)]
        /\ q = <<>> => p \o q = p
        /\ p # <<>> => Len(p) >= 1
    BY <2>2
  <2>4. \A k \in 1 .. Len(p \o q) :
           \/ k \in 1 .. Len(p) /\ (p \o q)[k] = p[k]
           \/ k - Len(p) \in 1 .. Len(q) /\ (p \o q)[k] = q[k - Len(p)]
    BY <2>3
  <2>5. p # <<>> => p \o q # <<>> /\ (p \o q)[1] = p[1]
    BY <2>2, <2>3
  <2> QED
    BY <1>2, <1>3, <2>1, <2>3, <2>4, <2>5 DEF p, q
<1>4. CASE ~(c \in Live(srv[m]) /\ Peer(m, c) = n)
  BY <1>1, <1>4 DEF Gets
<1> QED
  BY <1>3, <1>4

LEMMA OutcomeMessages ==
    ASSUME IInv, NEW n \in Node, NEW s, NEW o, NEW out, NEW dial, NEW left,
           Outcome(n, s, o, out, dial, left)
    PROVE  MessagesInv'
<1> SUFFICES ASSUME NEW m \in Node, NEW c \in Id
             PROVE  /\ c \notin Live(srv'[m]) => inbox'[m][c] = <<>>
                    /\ \A k \in 1 .. Len(inbox'[m][c]) :
                          /\ inbox'[m][c][k].from = Sock(srv'[m], c)
                          /\ inbox'[m][c][k].type = "Members" => k = 1
                    /\ \A k \in Node \ {m} :
                          c \in Live(srv'[k]) /\ c \in Live(srv'[m]) /\ ~Sent(srv'[k], c)
                             => inbox'[m][c] = <<>>
  BY DEF MessagesInv, Peer, Sock, Sent, Live
<1>1. /\ srv'[n] = s /\ \A k \in Node \ {n} : srv'[k] = srv[k]
      /\ inbox'[n][c] = Reads(n, c, s, left)
      /\ \A k \in Node \ {n} : inbox'[k][c] = Gets(n, k, c, out)
  BY OutcomeFields
<1>2. \A j \in Node :
         /\ c \notin Live(srv[j]) => inbox[j][c] = <<>>
         /\ \A k \in 1 .. Len(inbox[j][c]) :
               /\ inbox[j][c][k].from = Sock(srv[j], c)
               /\ inbox[j][c][k].type = "Members" => k = 1
         /\ \A k \in Node \ {j} :
               c \in Live(srv[k]) /\ c \in Live(srv[j]) /\ ~Sent(srv[k], c)
                  => inbox[j][c] = <<>>
  BY DEF IInv, MessagesInv, Peer, Sock
<1>3. CASE m = n
  <2>1. \/ left[c] = inbox[n][c]
        \/ /\ inbox[n][c] # <<>>
           /\ \A k \in 1 .. Len(left[c]) :
                 /\ left[c][k].type # "Members"
                 /\ \E j \in 1 .. Len(inbox[n][c]) : left[c][k] = inbox[n][c][j]
    BY DEF Outcome, Remains
  <2>2. ASSUME c \in Live(s), left[c] # <<>>
        PROVE  c \in Live(srv[n]) /\ Sock(s, c) = Sock(srv[n], c)
    <3>1. inbox[n][c] # <<>>
      BY <2>1, <2>2
    <3>2. c \in Live(srv[n])
      BY <1>2, <3>1
    <3> QED
      BY <2>2, <3>2, OutcomeOld DEF Peer, Sock
  <2>3. ASSUME c \in Live(s), NEW k \in 1 .. Len(left[c])
        PROVE  left[c][k].from = Sock(s, c) /\ (left[c][k].type = "Members" => k = 1)
    <3>1. left[c] # <<>>
      <4>1. Len(<<>>) = 0
        OBVIOUS
      <4> QED
        BY <4>1, <2>3
    <3>2. Sock(s, c) = Sock(srv[n], c)
      BY <2>2, <2>3, <3>1
    <3> QED
      BY <1>2, <2>1, <3>2
  <2>4. \A k \in Node \ {n} :
           c \in Live(srv[k]) /\ c \in Live(s) /\ ~Sent(srv[k], c) => left[c] = <<>>
    BY <1>2, <2>1, OutcomeOld
  <2>5. Len(<<>>) = 0
    OBVIOUS
  <2>6. CASE c \in Live(s)
    BY <1>1, <1>3, <2>3, <2>4, <2>6 DEF Reads
  <2>7. CASE c \notin Live(s)
    BY <1>1, <1>3, <2>5, <2>7 DEF Reads
  <2> QED
    BY <2>6, <2>7
<1>4. CASE m # n
  <2> DEFINE q == Gets(n, m, c, out)
  <2>1. /\ \A k \in 1 .. Len(q) :
              \/ k \in 1 .. Len(inbox[m][c]) /\ q[k] = inbox[m][c][k]
              \/ /\ c \in Live(srv[m]) /\ Peer(m, c) = n
                 /\ k - Len(inbox[m][c]) \in 1 .. Len(out[c])
                 /\ q[k] = out[c][k - Len(inbox[m][c])]
        /\ \/ q = inbox[m][c]
           \/ c \in Live(srv[m]) /\ Peer(m, c) = n /\ c \in Live(srv[n]) /\ out[c] # <<>>
    BY <1>4, OutcomeGets
  <2>2. srv'[m] = srv[m] /\ inbox'[m][c] = q
    BY <1>1, <1>4
  <2> HIDE DEF q
  <2>3. c \notin Live(srv[m]) => q = <<>>
    BY <1>2, <2>1
  <2>4. ASSUME NEW k \in 1 .. Len(q)
        PROVE  q[k].from = Sock(srv[m], c) /\ (q[k].type = "Members" => k = 1)
    <3>1. CASE k \in 1 .. Len(inbox[m][c]) /\ q[k] = inbox[m][c][k]
      BY <1>2, <3>1
    <3>2. CASE /\ c \in Live(srv[m]) /\ Peer(m, c) = n
               /\ k - Len(inbox[m][c]) \in 1 .. Len(out[c])
               /\ q[k] = out[c][k - Len(inbox[m][c])]
      <4> DEFINE i == k - Len(inbox[m][c])
      <4>1. out[c] # <<>>
        <5>1. Len(<<>>) = 0
          OBVIOUS
        <5> QED
          BY <3>2, <5>1
      <4>2. c \in Live(srv[n])
        BY <4>1 DEF Outcome, Wrote
      <4>3. Spoke(n, c, out) \/ Greets(n, c, out)
        BY <4>1, <4>2 DEF Outcome, Wrote
      <4>4. Sock(srv[m], c) = n
        BY <3>2 DEF Peer, Sock
      <4>5. CASE Spoke(n, c, out)
        BY <3>2, <4>4, <4>5 DEF Spoke
      <4>6. CASE Greets(n, c, out)
        <5>1. inbox[m][c] = <<>>
          BY <1>2, <1>4, <3>2, <4>2, <4>6 DEF Greets
        <5>2. Len(inbox[m][c]) = 0 /\ k \in Nat
          BY <5>1
        <5>3. k = 1 /\ i = 1
          BY <3>2, <4>6, <5>2 DEF Greets
        <5> QED
          BY <3>2, <4>4, <4>6, <5>3 DEF Greets
      <4> QED
        BY <4>3, <4>5, <4>6
    <3> QED
      BY <2>1, <3>1, <3>2
  <2>5. ASSUME NEW k \in Node \ {m}, c \in Live(srv'[k]), c \in Live(srv[m]),
               ~Sent(srv'[k], c)
        PROVE  q = <<>>
    <3>1. CASE k = n
      <4>1. c \in Live(srv[n]) /\ ~Sent(s, c) /\ c \in Live(s)
        BY <1>1, <2>5, <3>1, OutcomeOld
      <4>2. ~Sent(srv[n], c) /\ out[c] = <<>>
        BY <4>1 DEF Outcome, Wrote, Spoke, Greets
      <4> QED
        BY <1>2, <1>4, <2>1, <2>5, <4>1, <4>2
    <3>2. CASE k # n
      <4>1. srv'[k] = srv[k]
        BY <1>1, <3>2
      <4>2. inbox[m][c] = <<>>
        BY <1>2, <2>5, <4>1
      <4>3. Peer(m, c) = k
        BY <2>5, <4>1 DEF IInv, PairInv
      <4> QED
        BY <2>1, <3>2, <4>2, <4>3
    <3> QED
      BY <3>1, <3>2
  <2> QED
    BY <2>2, <2>3, <2>4, <2>5
<1> QED
  BY <1>3, <1>4

LEMMA OutcomeType ==
    ASSUME IInv, NEW n \in Node, NEW s, NEW o, NEW out, NEW dial, NEW left,
           Outcome(n, s, o, out, dial, left),
           wanted' \subseteq Node \X Node,
           mail' \in [1 .. MaxSends -> [fate : Fate, on : SUBSET Id]],
           budget' \in [joins : Nat, leaves : Nat, timeouts : Nat]
    PROVE  TypeInv'
<1>1. members \in [Node -> ORSet] /\ srv \in [Node -> ServerState]
      /\ inbox \in [Node -> [Id -> Seq(Msg)]]
      /\ backlog \in [Node -> SUBSET (Id \X Node)]
  BY DEF IInv, TypeInv
<1>2. /\ srv' = [srv EXCEPT ![n] = s] /\ s \in ServerState
      /\ members' = [members EXCEPT ![n] = o] /\ o \in ORSet
      /\ inbox' = [m \in Node |-> [c \in Id |->
                    IF m = n THEN Reads(n, c, s, left) ELSE Gets(n, m, c, out)]]
      /\ backlog' = [m \in Node |-> backlog[m] \cup
                      {<<c, n>> : c \in {c \in DOMAIN dial : dial[c] = m}}]
      /\ left \in [Id -> Seq(Msg)]
  BY DEF Outcome, Kept, Good, Dotted, Remains
<1>3. srv' \in [Node -> ServerState] /\ members' \in [Node -> ORSet]
  BY <1>1, <1>2
<1>4. \A c \in Id : Reads(n, c, s, left) \in Seq(Msg)
  <2>1. <<>> \in Seq(Msg)
    OBVIOUS
  <2> QED
    BY <1>2, <2>1 DEF Reads
<1>5. \A m \in Node \ {n}, c \in Id : Gets(n, m, c, out) \in Seq(Msg)
  BY OutcomeGets
<1>6. inbox' \in [Node -> [Id -> Seq(Msg)]]
  BY <1>2, <1>4, <1>5
<1>7. \A c \in DOMAIN dial : c \in Id
  BY OutcomeFields
<1>8. backlog' \in [Node -> SUBSET (Id \X Node)]
  BY <1>1, <1>2, <1>7
<1> QED
  BY <1>3, <1>6, <1>8 DEF TypeInv

LEMMA OutcomeDots ==
    ASSUME IInv, NEW n \in Node, NEW s, NEW o, NEW out, NEW dial, NEW left,
           Outcome(n, s, o, out, dial, left),
           budget' \in [joins : Nat, leaves : Nat, timeouts : Nat],
           budget'.joins <= budget.joins,
           Cardinality(Own(n, o)) + budget'.joins <= MaxJoins + 1
    PROVE  DotsInv'
<1>1. /\ members'[n] = o /\ \A m \in Node \ {n} : members'[m] = members[m]
      /\ \A c \in Id : inbox'[n][c] = Reads(n, c, s, left)
      /\ \A m \in Node \ {n}, c \in Id : inbox'[m][c] = Gets(n, m, c, out)
  BY OutcomeFields
<1>2. /\ members[n].add \subseteq o.add /\ Known(n, o, o)
      /\ \A c \in Id : \A k \in 1 .. Len(out[c]) :
            out[c][k].type # "Envelope" => Known(n, o, out[c][k].orset)
  BY DEF Outcome, Dotted
<1>3. /\ \A m \in Node : \A a \in Node : Own(a, members[m]) \subseteq members[a].add
      /\ \A m \in Node, c \in Id : \A k \in 1 .. Len(inbox[m][c]) :
            inbox[m][c][k].type # "Envelope" =>
               \A a \in Node : Own(a, inbox[m][c][k].orset) \subseteq members[a].add
      /\ \A m \in Node : Cardinality(Own(m, members[m])) + budget.joins <= MaxJoins + 1
  BY DEF IInv, DotsInv
<1>4. \A a \in Node : members[a].add \subseteq members'[a].add
  BY <1>1, <1>2
<1>5. ASSUME NEW d, Known(n, o, d)
      PROVE  \A a \in Node : Own(a, d) \subseteq members'[a].add
  BY <1>1, <1>5 DEF Known
<1>6. \A m \in Node : \A a \in Node : Own(a, members'[m]) \subseteq members'[a].add
  BY <1>1, <1>2, <1>3, <1>4, <1>5
<1>7. ASSUME NEW m \in Node, NEW c \in Id, NEW k \in 1 .. Len(inbox'[m][c]),
             inbox'[m][c][k].type # "Envelope", NEW a \in Node
      PROVE  Own(a, inbox'[m][c][k].orset) \subseteq members'[a].add
  <2>1. CASE m = n
    <3>1. inbox'[n][c] = left[c]
      <4>1. Len(<<>>) = 0
        OBVIOUS
      <4> QED
        BY <1>1, <1>7, <2>1, <4>1 DEF Reads
    <3>2. PICK j \in 1 .. Len(inbox[n][c]) : left[c][k] = inbox[n][c][j]
      BY <1>7, <2>1, <3>1 DEF Outcome, Remains
    <3> QED
      BY <1>3, <1>4, <1>7, <2>1, <3>1, <3>2
  <2>2. CASE m # n
    <3>1. \/ k \in 1 .. Len(inbox[m][c]) /\ inbox'[m][c][k] = inbox[m][c][k]
          \/ /\ k - Len(inbox[m][c]) \in 1 .. Len(out[c])
             /\ inbox'[m][c][k] = out[c][k - Len(inbox[m][c])]
      <4>1. inbox'[m][c] = Gets(n, m, c, out)
        BY <1>1, <2>2
      <4>2. k \in 1 .. Len(Gets(n, m, c, out))
        BY <1>7, <4>1
      <4> QED
        BY <2>2, <4>1, <4>2, OutcomeGets
    <3> QED
      BY <1>2, <1>3, <1>4, <1>5, <1>7, <3>1
  <2> QED
    BY <2>1, <2>2
<1>8. ASSUME NEW m \in Node
      PROVE  Cardinality(Own(m, members'[m])) + budget'.joins <= MaxJoins + 1
  <2>1. CASE m = n
    BY <1>1, <2>1
  <2>2. CASE m # n
    <3>1. members'[m] = members[m] /\ budget.joins \in Nat /\ budget'.joins \in Nat
      BY <1>1, <2>2 DEF IInv, TypeInv
    <3>2. Cardinality(Own(m, members[m])) \in Nat
      BY OwnFinite DEF IInv, TypeInv
    <3> QED
      BY <1>3, <3>1, <3>2, MeshAssumption
  <2> QED
    BY <2>1, <2>2
<1> QED
  BY <1>6, <1>7, <1>8 DEF DotsInv, Own

LEMMA OutcomeSettled ==
    ASSUME IInv, NEW n \in Node, NEW s, NEW o, NEW out, NEW dial, NEW left,
           Outcome(n, s, o, out, dial, left)
    PROVE  SettledInv'
<1>1. /\ srv'[n] = s /\ \A k \in Node \ {n} : srv'[k] = srv[k]
      /\ \A c \in Id : inbox'[n][c] = Reads(n, c, s, left)
      /\ \A k \in Node \ {n}, c \in Id : inbox'[k][c] = Gets(n, k, c, out)
      /\ \A k \in Node : Live(srv[k]) \subseteq Id
      /\ Live(s) \subseteq Id
  BY OutcomeFields
<1> DEFINE G(m) == {c \in Live(srv'[m]) :
                      /\ c \in Live(srv'[Sock(srv'[m], c)])
                      /\ Sent(srv'[Sock(srv'[m], c)], c)
                      /\ MembersRead(inbox'[m][c])}
<1> SUFFICES ASSUME NEW m \in Node
             PROVE  SingleOK(srv'[m], G(m))
  BY DEF SettledInv, SingleOK, Greeted, Sock, Sent, Live, MembersRead
<1>2. CASE m = n
  <2>1. \A c \in Live(s) : Sock(s, c) # n /\ Sock(s, c) \in Node
    <3>1. \A c \in Live(s) : Sock(s, c) \in Node
      BY ServerStateFields DEF Outcome, Kept, Good, Conn, Sock
    <3>2. \A c \in Live(s) : Sock(s, c) # n
      BY DEF Outcome, Kept, IInv, PairInv
    <3> QED
      BY <3>1, <3>2
  <2>2. G(n) = Greeted(s, left)
    BY <1>1, <2>1 DEF Greeted, Reads
  <2> HIDE DEF G
  <2> QED
    BY <1>1, <1>2, <2>2 DEF Outcome, Settles
<1>3. CASE m # n
  <2>1. SingleOK(srv[m], Greeted(srv[m], inbox[m])) /\ srv'[m] = srv[m]
    BY <1>1, <1>3 DEF IInv, SettledInv
  <2>2. ASSUME NEW c \in G(m)
        PROVE  c \in Greeted(srv[m], inbox[m])
    <3> DEFINE p == Sock(srv[m], c)
    <3>1. /\ c \in Live(srv[m]) /\ c \in Live(srv'[p]) /\ Sent(srv'[p], c)
          /\ MembersRead(Gets(n, m, c, out)) /\ c \in Id
      BY <1>1, <1>3, <2>1, <2>2
    <3>2. p \in Node
      BY <3>1, ServerStateFields DEF IInv, Good, Conn, Sock
    <3> HIDE DEF G
    <3>3. MembersRead(inbox[m][c])
      BY <1>3, <3>1, OutcomeGets DEF MembersRead
    <3>4. CASE p # n
      BY <1>1, <3>1, <3>2, <3>3, <3>4 DEF Greeted
    <3>5. CASE p = n
      <4>1. c \in Live(s) /\ Sent(s, c) /\ c \in Live(srv[n])
        BY <1>1, <3>1, <3>5, OutcomeOld
      <4>2. ~Sent(srv[n], c) => inbox[m][c] = <<>>
        BY <1>3, <3>1, <4>1 DEF IInv, MessagesInv
      <4>3. ~Greets(n, c, out)
        <5> SUFFICES ASSUME Greets(n, c, out) PROVE FALSE
          OBVIOUS
        <5>1. inbox[m][c] = <<>> /\ out[c] # <<>> /\ out[c][1].type = "Members"
          <6>1. Len(<<>>) = 0
            OBVIOUS
          <6> QED
            BY <4>2, <6>1 DEF Greets
        <5>2. Peer(m, c) = n
          BY <3>5 DEF Peer, Sock
        <5>3. Gets(n, m, c, out) = out[c]
          <6>1. out[c] \in Seq(Msg)
            BY <3>1 DEF Outcome, Wrote
          <6>2. <<>> \o out[c] = out[c]
            BY <6>1
          <6> QED
            BY <3>1, <5>1, <5>2, <6>2 DEF Gets
        <5> QED
          BY <3>1, <5>1, <5>3 DEF MembersRead
      <4>4. Sent(srv[n], c)
        BY <4>1, <4>3 DEF Outcome, Wrote, Spoke
      <4> QED
        BY <3>1, <3>3, <3>5, <4>1, <4>4 DEF Greeted
    <3> QED
      BY <3>4, <3>5
  <2> HIDE DEF G
  <2>3. G(m) \subseteq Greeted(srv[m], inbox[m])
    BY <2>2
  <2> QED
    BY <2>1, <2>3 DEF SingleOK
<1> QED
  BY <1>2, <1>3

LEMMA OutcomeGood ==
    ASSUME IInv, NEW n \in Node, NEW s, NEW o, NEW out, NEW dial, NEW left,
           Outcome(n, s, o, out, dial, left)
    PROVE  (\A m \in Node : Good(m, srv[m]))'
<1>1. srv'[n] = s /\ \A k \in Node \ {n} : srv'[k] = srv[k]
  BY OutcomeFields
<1>2. \A m \in Node : Good(m, srv'[m])
  BY <1>1 DEF IInv, Outcome, Kept
<1> QED
  BY <1>2 DEF Good, WheelOK, EstOK, Live

(* A socket gives up no message, but for what n has read.                  *)
ReadsOnly(n, left) ==
    \A m \in Node : \A c \in Live(srv[m]) \cap Live(srv'[m]) :
       \/ Len(inbox[m][c]) <= Len(inbox'[m][c])
       \/ m = n /\ inbox'[m][c] = left[c]

NothingRead ==
    \A m \in Node : \A c \in Live(srv[m]) \cap Live(srv'[m]) :
       Len(inbox[m][c]) <= Len(inbox'[m][c])

LEMMA NothingLeft ==
    ASSUME IInv, NEW n \in Node, ReadsOnly(n, inbox[n])
    PROVE  NothingRead
<1> SUFFICES ASSUME NEW m \in Node, NEW c \in Live(srv[m]) \cap Live(srv'[m])
             PROVE  Len(inbox[m][c]) <= Len(inbox'[m][c])
  BY DEF NothingRead
<1>1. inbox[m][c] \in Seq(Msg)
  BY ServerStateFields DEF IInv, TypeInv
<1>2. Len(inbox[m][c]) \in Nat
  BY <1>1
<1> QED
  BY <1>2 DEF ReadsOnly

LEMMA OutcomeReads ==
    ASSUME IInv, NEW n \in Node, NEW s, NEW o, NEW out, NEW dial, NEW left,
           Outcome(n, s, o, out, dial, left)
    PROVE  ReadsOnly(n, left)
<1> SUFFICES ASSUME NEW m \in Node, NEW c \in Live(srv[m]) \cap Live(srv'[m])
             PROVE  \/ Len(inbox[m][c]) <= Len(inbox'[m][c])
                    \/ m = n /\ inbox'[m][c] = left[c]
  BY DEF ReadsOnly
<1>1. /\ srv'[n] = s /\ c \in Id
      /\ m = n => inbox'[m][c] = Reads(n, c, s, left)
      /\ m # n => inbox'[m][c] = Gets(n, m, c, out)
  BY OutcomeFields
<1>2. CASE m = n
  BY <1>1, <1>2 DEF Reads
<1>3. CASE m # n
  <2>1. inbox[m][c] \in Seq(Msg) /\ out[c] \in Seq(Msg)
    BY <1>1 DEF Outcome, Wrote, IInv, TypeInv
  <2> DEFINE q == inbox[m][c]
             r == out[c]
  <2>2. q \in Seq(Msg) /\ r \in Seq(Msg)
    BY <2>1
  <2> HIDE DEF q, r
  <2>3. Len(q \o r) = Len(q) + Len(r) /\ Len(q) \in Nat /\ Len(r) \in Nat
    BY <2>2
  <2> HIDE <2>2
  <2>4. Len(q) <= Len(q \o r) /\ Len(q) <= Len(q)
    BY <2>3
  <2> QED
    BY <1>1, <1>3, <2>4 DEF Gets, q, r
<1> QED
  BY <1>2, <1>3

LEMMA OutcomeIInv ==
    ASSUME IInv, NEW n \in Node, NEW s, NEW o, NEW out, NEW dial, NEW left,
           Outcome(n, s, o, out, dial, left),
           wanted' \subseteq Node \X Node,
           mail' \in [1 .. MaxSends -> [fate : Fate, on : SUBSET Id]],
           budget' \in [joins : Nat, leaves : Nat, timeouts : Nat],
           budget'.joins <= budget.joins,
           Cardinality(Own(n, o)) + budget'.joins <= MaxJoins + 1
    PROVE  IInv' /\ ReadsOnly(n, left)
<1>1. TypeInv'
  BY OutcomeType
<1>2. DotsInv'
  BY OutcomeDots
<1>3. PairInv' /\ BacklogInv' /\ MessagesInv' /\ SettledInv'
  BY OutcomePair, OutcomeBacklog, OutcomeMessages, OutcomeSettled
<1>4. (\A m \in Node : Good(m, srv[m]))'
  BY OutcomeGood
<1> QED
  BY <1>1, <1>2, <1>3, <1>4, OutcomeReads DEF IInv

Working(n, h) ==
    Kept(n, h.s, h.dial) /\ Wrote(n, h.s, h.out) /\ Dotted(n, h.o, h.out)

LEMMA CommitIInv ==
    ASSUME IInv, NEW n \in Node, NEW h, Working(n, h),
           NEW left, Remains(n, left), Settles(h.s, left), Commit(n, h, left),
           wanted' \subseteq Node \X Node,
           budget' \in [joins : Nat, leaves : Nat, timeouts : Nat],
           budget'.joins <= budget.joins,
           Cardinality(Own(n, h.o)) + budget'.joins <= MaxJoins + 1
    PROVE  IInv' /\ ReadsOnly(n, left)
<1> DEFINE s == close(h.s, h.errs)
<1>1. Good(n, h.s)
  BY DEF Working, Kept
<1>2. Good(n, s) /\ Shrinks(h.s, s)
  BY <1>1, CloseGood
<1>3. /\ srv' = [srv EXCEPT ![n] = s]
      /\ members' = [members EXCEPT ![n] = h.o]
      /\ inbox' = [m \in Node |-> [c \in Id |->
             IF m = n THEN IF c \in Live(s) THEN left[c] ELSE <<>>
             ELSE IF c \in Live(srv[m]) /\ Peer(m, c) = n
                  THEN inbox[m][c] \o h.out[c] ELSE inbox[m][c]]]
      /\ backlog' = [m \in Node |-> backlog[m] \cup
             {<<c, n>> : c \in {c \in DOMAIN h.dial : h.dial[c] = m}}]
      /\ mail' = [k \in DOMAIN mail |->
             IF k \in h.got THEN [fate |-> "delivered", on |-> {}]
             ELSE IF mail[k].on \subseteq Live(s) \cup (Id \ Live(srv[n])) THEN mail[k]
             ELSE [fate |-> "lost", on |-> {}]]
  BY DEF Commit
<1> HIDE DEF s
<1>4. Kept(n, s, h.dial) /\ Wrote(n, s, h.out) /\ Settles(s, left)
  BY <1>2, ShrinksHand DEF Working
<1>5. inbox' = [m \in Node |-> [c \in Id |->
             IF m = n THEN Reads(n, c, s, left) ELSE Gets(n, m, c, h.out)]]
  BY <1>3 DEF Reads, Gets
<1>6. Outcome(n, s, h.o, h.out, h.dial, left)
  BY <1>3, <1>4, <1>5 DEF Outcome, Working
<1>7. mail' \in [1 .. MaxSends -> [fate : Fate, on : SUBSET Id]]
  <2>1. mail \in [1 .. MaxSends -> [fate : Fate, on : SUBSET Id]]
    BY DEF IInv, TypeInv
  <2>2. /\ [fate |-> "delivered", on |-> {}] \in [fate : Fate, on : SUBSET Id]
        /\ [fate |-> "lost", on |-> {}] \in [fate : Fate, on : SUBSET Id]
    BY DEF Fate
  <2> QED
    BY <1>3, <2>1, <2>2
<1> QED
  BY <1>6, <1>7, OutcomeIInv

-----------------------------------------------------------------------------
(* The steps of a handler.  In between it has greeted no one.              *)

Hand == [s : ServerState, o : ORSet, out : [Id -> Seq(Msg)],
         dial : PartialFn(Id, Node), errs : SUBSET Id, stop : BOOLEAN,
         got : SUBSET (1 .. MaxSends)]

Handling(n, h) == /\ h \in Hand /\ Working(n, h)
                  /\ \A c \in Live(srv[n]) : ~Greets(n, c, h.out)

LEMMA StartHandling ==
    ASSUME IInv, NEW n \in Node
    PROVE  /\ Handling(n, Start(n))
           /\ Start(n).s = srv[n] /\ Start(n).o = members[n] /\ ~Start(n).stop
           /\ Settles(srv[n], inbox[n]) /\ Remains(n, inbox[n])
<1> DEFINE h == Start(n)
<1>0. <<>> \in PartialFn(Id, Node) /\ DOMAIN <<>> = {}
  <2>1. DOMAIN <<>> = {} /\ <<>> = [x \in {} |-> {}]
    OBVIOUS
  <2> QED
    BY <2>1, EmptyFn
<1>1. /\ h.s = srv[n] /\ h.o = members[n] /\ h.out = [c \in Id |-> <<>>]
      /\ h.dial = <<>> /\ h.stop = FALSE
  BY DEF Start
<1>2. /\ srv[n] \in ServerState /\ members[n] \in ORSet /\ Good(n, srv[n])
      /\ inbox[n] \in [Id -> Seq(Msg)] /\ Live(srv[n]) \subseteq Id
  BY ServerStateFields DEF IInv, TypeInv
<1>3. h.out \in [Id -> Seq(Msg)]
  BY <1>1
<1>4. h \in Hand
  BY <1>0, <1>2 DEF Start, Hand
<1> HIDE DEF h
<1>5. Kept(n, h.s, h.dial)
  BY <1>0, <1>1, <1>2 DEF Kept, Peer, Sock
<1>6. Wrote(n, h.s, h.out)
  BY <1>1, <1>2, <1>3 DEF Wrote
<1>7. \A c \in Id : Len(h.out[c]) = 0
  BY <1>1
<1>8. Dotted(n, h.o, h.out)
  <2>1. Known(n, h.o, h.o)
    BY <1>1 DEF Known, IInv, DotsInv
  <2> QED
    BY <1>1, <1>2, <1>7, <2>1 DEF Dotted
<1>9. \A c \in Live(srv[n]) : ~Greets(n, c, h.out)
  BY <1>2, <1>7 DEF Greets
<1>10. Settles(srv[n], inbox[n]) /\ Remains(n, inbox[n])
  BY <1>2 DEF Settles, Remains, IInv, SettledInv
<1> QED
  BY <1>1, <1>4, <1>5, <1>6, <1>8, <1>9, <1>10 DEF Handling, Working, h

(* n broadcasts a delta of dots that their makers know, or that are its    *)
(* own, and applies it.                                                    *)
LEMMA BroadcastHandling ==
    ASSUME IInv, NEW n \in Node, NEW h, Handling(n, h), NEW d \in ORSet,
           \A a \in Node \ {n} : Own(a, d) \subseteq members[a].add,
           NEW g \in broadcast_delta(n, h, d)
    PROVE  /\ Handling(n, g)
           /\ g.s = h.s /\ g.dial = h.dial /\ g.got = h.got /\ g.o = Merge(h.o, d)
<1> DEFINE msg == DeltaMsg(n, d)
<1>1. PICK failed : /\ failed \subseteq Live(h.s)
                    /\ g = [write(h, Receivers(h.s) \ failed, msg)
                              EXCEPT !.o = Merge(@, d), !.errs = @ \cup failed,
                                     !.stop = failed # {}]
  <2>1. \A f \in IF WritesFail THEN SUBSET (Receivers(h.s) \cap Gone(n)) ELSE {{}} :
           f \subseteq Live(h.s)
    BY DEF Receivers
  <2> QED
    BY <2>1 DEF broadcast_delta
<1> DEFINE ids == Receivers(h.s) \ failed
           out == [c \in Id |-> IF c \in ids THEN Append(h.out[c], msg) ELSE h.out[c]]
<1>2. /\ h \in Hand /\ Good(n, h.s) /\ Live(h.s) \subseteq Id
      /\ h.out \in [Id -> Seq(Msg)] /\ h.o \in ORSet
      /\ Kept(n, h.s, h.dial) /\ Wrote(n, h.s, h.out) /\ Dotted(n, h.o, h.out)
      /\ \A c \in Live(srv[n]) : ~Greets(n, c, h.out)
  BY ServerStateFields DEF Handling, Working, Kept, Hand, Good
<1>3. msg \in Msg /\ msg.type = "Delta" /\ msg.from = n /\ msg.orset = d
  BY DEF DeltaMsg, Msg
<1>4. Merge(h.o, d) \in ORSet /\ Merge(h.o, d).add = h.o.add \cup d.add
  BY <1>2 DEF Merge, ORSet
<1> HIDE DEF msg
<1>5. out \in [Id -> Seq(Msg)]
  BY <1>2, <1>3
<1>6. /\ g = [h EXCEPT !.out = out, !.o = Merge(h.o, d), !.errs = h.errs \cup failed,
                       !.stop = failed # {}]
  BY <1>1, <1>2 DEF write, Hand
<1> HIDE DEF out, ids
<1>7. /\ g \in Hand /\ g.s = h.s /\ g.dial = h.dial /\ g.got = h.got
      /\ g.o = Merge(h.o, d) /\ g.out = out
  <2>1. failed \subseteq Id /\ (failed # {}) \in BOOLEAN
    BY <1>1, <1>2
  <2>2. h.errs \cup failed \in SUBSET Id
    BY <1>2, <2>1 DEF Hand
  <2> DEFINE o == Merge(h.o, d)
             errs == h.errs \cup failed
             stop == failed # {}
  <2>3. o \in ORSet /\ errs \in SUBSET Id /\ stop \in BOOLEAN
    BY <1>4, <2>1, <2>2
  <2>4. g = [h EXCEPT !.out = out, !.o = o, !.errs = errs, !.stop = stop]
    BY <1>6
  <2> HIDE DEF o, errs, stop
  <2>5. /\ g \in Hand /\ g.s = h.s /\ g.dial = h.dial /\ g.got = h.got
        /\ g.o = o /\ g.out = out
    BY <1>2, <1>5, <2>3, <2>4 DEF Hand
  <2> QED
    BY <2>5 DEF o
<1>8. \A c \in Id : out[c] = IF c \in ids THEN Append(h.out[c], msg) ELSE h.out[c]
  BY DEF out
<1>9. \A c \in ids : c \in Live(srv[n]) /\ Sent(srv[n], c) /\ c \in Id
  <2> SUFFICES ASSUME NEW c \in ids
               PROVE  c \in Live(srv[n]) /\ Sent(srv[n], c) /\ c \in Id
    OBVIOUS
  <2>1. c \in Live(h.s) /\ Sent(h.s, c)
    BY DEF ids, Receivers, Sent
  <2>2. c \in Live(srv[n])
    BY <1>2, <2>1 DEF Kept
  <2>3. Sent(srv[n], c)
    BY <1>2, <2>1, <2>2 DEF Wrote, Spoke
  <2> QED
    BY <1>2, <2>1, <2>2, <2>3
<1>10. \A c \in ids : /\ out[c] # <<>> /\ Len(out[c]) = Len(h.out[c]) + 1
                      /\ Len(h.out[c]) \in Nat
                      /\ out[c][Len(out[c])] = msg
                      /\ \A k \in 1 .. Len(out[c]) :
                            \/ k = Len(out[c])
                            \/ k \in 1 .. Len(h.out[c]) /\ out[c][k] = h.out[c][k]
  <2> SUFFICES ASSUME NEW c \in ids
               PROVE  /\ Append(h.out[c], msg) # <<>>
                      /\ Len(Append(h.out[c], msg)) = Len(h.out[c]) + 1
                      /\ Len(h.out[c]) \in Nat
                      /\ Append(h.out[c], msg)[Len(h.out[c]) + 1] = msg
                      /\ \A k \in 1 .. Len(h.out[c]) + 1 :
                            \/ k = Len(h.out[c]) + 1
                            \/ /\ k \in 1 .. Len(h.out[c])
                               /\ Append(h.out[c], msg)[k] = h.out[c][k]
    BY <1>8, <1>9
  <2>1. h.out[c] \in Seq(Msg)
    BY <1>2, <1>9
  <2> DEFINE q == h.out[c]
  <2>2. q \in Seq(Msg) /\ Len(q) \in Nat
    BY <2>1
  <2> HIDE DEF q
  <2>3. /\ Len(Append(q, msg)) = Len(q) + 1
        /\ Append(q, msg)[Len(q) + 1] = msg
        /\ \A k \in 1 .. Len(q) : Append(q, msg)[k] = q[k]
    BY <1>3, <2>2
  <2>4. \A k \in 1 .. Len(q) + 1 : k = Len(q) + 1 \/ k \in 1 .. Len(q)
    BY <2>2
  <2>5. Append(q, msg) # <<>>
    BY <2>2, <2>3
  <2> QED
    BY <2>2, <2>3, <2>4, <2>5 DEF q
<1>11. \A c \in ids : Spoke(n, c, out)
  <2> SUFFICES ASSUME NEW c \in ids, NEW k \in 1 .. Len(out[c])
               PROVE  out[c][k].type # "Members" /\ out[c][k].from = n
    BY <1>9 DEF Spoke
  <2>1. h.out[c] = <<>> \/ Spoke(n, c, h.out)
    BY <1>2, <1>9 DEF Wrote
  <2>2. Len(<<>>) = 0
    OBVIOUS
  <2> QED
    BY <1>3, <1>10, <2>1, <2>2 DEF Spoke
<1>12. Wrote(n, g.s, out)
  <2>1. \A c \in Id : out[c] # <<>> => c \in Live(srv[n])
    BY <1>2, <1>8, <1>9 DEF Wrote
  <2>2. ASSUME NEW c \in Live(srv[n])
        PROVE  \/ out[c] = <<>> /\ (c \in Live(g.s) /\ Sent(g.s, c) => Sent(srv[n], c))
               \/ Spoke(n, c, out)
    <3>1. CASE c \in ids
      BY <1>11, <3>1
    <3>2. CASE c \notin ids
      <4>1. c \in Id
        BY ServerStateFields DEF IInv, Good
      <4>2. out[c] = h.out[c]
        BY <1>8, <3>2, <4>1
      <4> QED
        BY <1>2, <1>7, <4>2 DEF Wrote, Spoke
    <3> QED
      BY <3>1, <3>2
  <2> QED
    BY <1>2, <1>5, <1>7, <2>1, <2>2 DEF Wrote
<1>13. Dotted(n, g.o, out)
  <2>1. g.o.add = h.o.add \cup d.add /\ g.o \in ORSet
    BY <1>4, <1>7
  <2>2. Known(n, g.o, g.o) /\ Known(n, g.o, d)
    BY <1>2, <2>1 DEF Dotted, Known, Own
  <2>3. ASSUME NEW c \in Id, NEW k \in 1 .. Len(out[c]), out[c][k].type # "Envelope"
        PROVE  Known(n, g.o, out[c][k].orset)
    <3>1. \/ k \in 1 .. Len(h.out[c]) /\ out[c][k] = h.out[c][k]
          \/ out[c][k] = msg
      BY <1>8, <1>10, <2>3
    <3>2. \A x : Known(n, h.o, x) => Known(n, g.o, x)
      BY <2>1 DEF Known
    <3> QED
      BY <1>2, <1>3, <2>2, <2>3, <3>1, <3>2 DEF Dotted
  <2> QED
    BY <1>2, <2>1, <2>2, <2>3 DEF Dotted
<1>14. \A c \in Live(srv[n]) : ~Greets(n, c, out)
  <2> SUFFICES ASSUME NEW c \in Live(srv[n])
               PROVE  ~Greets(n, c, out)
    OBVIOUS
  <2>1. CASE c \in ids
    BY <1>9, <2>1 DEF Greets
  <2>2. CASE c \notin ids
    <3>1. c \in Id
      BY ServerStateFields DEF IInv, Good
    <3> QED
      BY <1>2, <1>8, <2>2, <3>1 DEF Greets
  <2> QED
    BY <2>1, <2>2
<1> QED
  BY <1>2, <1>7, <1>12, <1>13, <1>14 DEF Handling, Working

(* connect() gives sockets of its own to different nodes of those asked    *)
(* for.                                                                    *)
LEMMA ConnectFacts ==
    ASSUME NEW nodes \in SUBSET Node
    PROVE  /\ Connect(nodes) \in PartialFn(Id, Node)
           /\ DOMAIN Connect(nodes) \subseteq Free
           /\ \A c \in DOMAIN Connect(nodes) : Connect(nodes)[c] \in nodes
           /\ \A c, e \in DOMAIN Connect(nodes) :
                 Connect(nodes)[c] = Connect(nodes)[e] => c = e
<1> DEFINE d == Connect(nodes)
           D == {c \in Free : Rank(c, Free) < Cardinality(nodes)}
           r(c) == Rank(c, Free)
<1>1. /\ Free \subseteq Id /\ Free \in SUBSET Nat /\ IsFiniteSet(Free)
      /\ nodes \in SUBSET Nat /\ IsFiniteSet(nodes)
  <2>1. /\ Id \subseteq Nat /\ IsFiniteSet(Id) /\ Node \subseteq Nat /\ IsFiniteSet(Node)
    BY MeshAssumption, NodeAssumption
  <2>2. Free \subseteq Id
    BY DEF Free
  <2> QED
    BY <2>1, <2>2, FS_Subset
<1>2. d = [c \in D |-> CHOOSE m \in nodes : Rank(m, nodes) = r(c)]
  BY DEF Connect
<1> HIDE DEF d, r
<1>3. ASSUME NEW c \in D
      PROVE  d[c] \in nodes /\ Rank(d[c], nodes) = r(c)
  <2>1. r(c) \in Nat /\ r(c) < Cardinality(nodes)
    <3>1. Cardinality(Free) \in Nat /\ r(c) \in 0 .. Cardinality(Free) - 1
      BY <1>1, RankFacts DEF r
    <3> QED
      BY <3>1 DEF r
  <2>2. \E m \in nodes : Rank(m, nodes) = r(c)
    BY <1>1, <2>1, RankOnto
  <2> HIDE DEF D
  <2> QED
    BY <1>2, <2>2
<1>4. DOMAIN d = D /\ D \subseteq Free
  BY <1>2
<1>5. ASSUME NEW c \in D, NEW e \in D, d[c] = d[e]
      PROVE  c = e
  <2>1. r(c) = r(e)
    BY <1>3, <1>5
  <2>2. \A x \in Free : r(x) \in Int
    BY <1>1, RankFacts DEF r
  <2>3. \A x, y \in Free : x < y => r(x) < r(y)
    BY <1>1, RankFacts DEF r
  <2>4. c \in Nat /\ e \in Nat /\ c \in Free /\ e \in Free
    BY <1>1, <1>4
  <2>5. c < e \/ e < c \/ c = e
    BY <2>4
  <2> HIDE DEF D
  <2>6. ~(c < e) /\ ~(e < c)
    BY <2>1, <2>2, <2>3, <2>4
  <2> QED
    BY <2>5, <2>6
<1>6. d \in PartialFn(Id, Node)
  <2>1. d = [x \in DOMAIN d |-> d[x]] /\ DOMAIN d \subseteq Id
    <3> DEFINE v(c) == CHOOSE m \in nodes : Rank(m, nodes) = r(c)
    <3>1. d = [c \in D |-> v(c)]
      BY <1>2
    <3> HIDE DEF v, D
    <3>2. d = [c \in D |-> d[c]]
      BY <3>1
    <3> QED
      BY <1>1, <1>4, <3>2
  <2>2. \A x \in DOMAIN d : d[x] \in Node
    BY <1>3, <1>4
  <2> QED
    BY <2>1, <2>2, PartialFnChar
<1> HIDE DEF D
<1> QED
  BY <1>3, <1>4, <1>5, <1>6 DEF d

LEMMA AllNodes ==
    ASSUME NEW o \in ORSet
    PROVE  all(o) \subseteq Node
  BY DEF all, ORSet, Dot

(* check_connections, by a handler that has not dialled.                   *)
LEMMA CheckHandling ==
    ASSUME IInv, NEW n \in Node, NEW h, Handling(n, h), h.dial = <<>>,
           NEW left, Settles(h.s, left), NEW g \in check(h)
    PROVE  /\ Handling(n, g) /\ Settles(g.s, left)
           /\ g.o = h.o /\ g.out = h.out
<1> DEFINE ms == all(h.o)
           dial == IF h.s.node \in ms THEN Connect(ToConnect(h.s, ms)) ELSE <<>>
           t == check_connections(h.s, ms, dial, dial)
<1>1. /\ h \in Hand /\ Good(n, h.s) /\ h.s \in ServerState /\ h.s.node = n
      /\ h.o \in ORSet
      /\ Kept(n, h.s, h.dial) /\ Wrote(n, h.s, h.out) /\ Dotted(n, h.o, h.out)
      /\ \A c \in Live(srv[n]) : ~Greets(n, c, h.out)
  BY DEF Handling, Working, Kept, Hand, Good
<1>2. g = [h EXCEPT !.dial = dial, !.s = t]
  BY DEF check
<1>3. ms \in SUBSET Node
  BY <1>1, AllNodes
<1>4. /\ dial \in PartialFn(Id, Node) /\ DOMAIN dial \subseteq Free
      /\ \A c \in DOMAIN dial : dial[c] \in ToConnect(h.s, ms)
      /\ \A c, e \in DOMAIN dial : dial[c] = dial[e] => c = e
  <2>1. ToConnect(h.s, ms) \in SUBSET Node
    BY <1>3 DEF ToConnect
  <2>2. <<>> \in PartialFn(Id, Node) /\ DOMAIN <<>> = {}
    <3>1. DOMAIN <<>> = {} /\ <<>> = [x \in {} |-> {}]
      OBVIOUS
    <3> QED
      BY <3>1, EmptyFn
  <2>3. CASE h.s.node \in ms
    BY <2>1, <2>3, ConnectFacts
  <2>4. CASE h.s.node \notin ms
    BY <2>2, <2>4
  <2> QED
    BY <2>3, <2>4
<1> HIDE DEF ms, dial, t
<1>5. /\ \A c \in DOMAIN dial : c \in Id /\ \A m \in Node : c \notin Live(srv[m])
      /\ \A c \in DOMAIN dial : dial[c] \in Node \ {n}
  BY <1>1, <1>3, <1>4, DialledAlone DEF ToConnect
<1>6. Live(h.s) \subseteq Live(srv[n])
  <2>1. DOMAIN h.dial = {}
    OBVIOUS
  <2> QED
    BY <1>1, <2>1 DEF Kept
<1>7. Dials(h.s, ms, dial) /\ DOMAIN dial \subseteq Id
  BY <1>4, <1>5, <1>6 DEF Dials
<1>8. Good(n, t) /\ Checked(h.s, t, dial)
  BY <1>1, <1>3, <1>7, CheckConnectionsGood DEF t
<1>9. t \in ServerState /\ \A c \in Live(t) : Sock(t, c) \in Node
  BY <1>8, ServerStateFields DEF Good, Conn, Sock
<1>10. /\ g \in Hand /\ g.s = t /\ g.o = h.o /\ g.out = h.out /\ g.dial = dial
  BY <1>1, <1>2, <1>4, <1>9 DEF Hand
<1>11. \A c \in Live(t) \cap Live(srv[n]) :
          /\ c \in Live(h.s) /\ t.connections[c] = h.s.connections[c]
          /\ Sock(t, c) = Sock(h.s, c)
          /\ Sent(t, c) => Sent(h.s, c)
          /\ Sent(h.s, c) => Sent(t, c)
  BY <1>5, <1>8 DEF Checked, Sock, Sent
<1>12. \A c \in Live(t) \ Live(srv[n]) :
          c \in DOMAIN dial /\ Sock(t, c) = dial[c] /\ ~Sent(t, c)
  BY <1>6, <1>8 DEF Checked, Sock, Sent
<1>13. Kept(n, t, dial)
  <2>1. \A c \in Live(h.s) : Sock(h.s, c) = Peer(n, c)
    <3>1. DOMAIN h.dial = {}
      OBVIOUS
    <3> QED
      BY <1>1, <3>1 DEF Kept
  <2> QED
    BY <1>4, <1>5, <1>8, <1>11, <1>12, <2>1 DEF Kept
<1>14. Wrote(n, t, h.out)
  <2>1. ASSUME NEW c \in Live(srv[n])
        PROVE  \/ h.out[c] = <<>> /\ (c \in Live(t) /\ Sent(t, c) => Sent(srv[n], c))
               \/ Spoke(n, c, h.out)
    BY <1>1, <1>11 DEF Wrote
  <2>2. \A c \in Live(srv[n]) \cap Live(t) : Sent(srv[n], c) => Sent(t, c)
    BY <1>1, <1>11 DEF Wrote
  <2> QED
    BY <1>1, <2>1, <2>2 DEF Wrote
<1>15. Settles(t, left)
  <2>1. ASSUME NEW c \in Greeted(t, left)
        PROVE  c \in Greeted(h.s, left) /\ c \in Live(h.s) /\ c \in Live(t)
    <3>1. /\ c \in Live(t) /\ c \in Live(srv[Sock(t, c)]) /\ Sent(srv[Sock(t, c)], c)
          /\ MembersRead(left[c])
      BY <2>1 DEF Greeted
    <3>2. c \in Live(h.s) /\ Sock(t, c) = Sock(h.s, c)
      BY <1>5, <1>8, <1>9, <3>1 DEF Checked, Sock
    <3> QED
      BY <3>1, <3>2 DEF Greeted
  <2>2. Greeted(h.s, left) \in SUBSET Live(h.s)
    BY DEF Greeted
  <2>3. SingleOK(t, Greeted(h.s, left) \cap Live(t))
    BY <1>8, <2>2 DEF Checked, Settles
  <2>4. Greeted(t, left) \subseteq Greeted(h.s, left) \cap Live(t)
    BY <2>1
  <2> QED
    BY <2>3, <2>4 DEF Settles, SingleOK
<1> QED
  BY <1>1, <1>10, <1>13, <1>14, <1>15 DEF Handling, Working

-----------------------------------------------------------------------------
(* Reading.                                                                *)

(* A handler that has made no dots, with left still to be read.            *)
Going(n, h, left) ==
    Handling(n, h) /\ Settles(h.s, left) /\ Own(n, h.o) \subseteq members[n].add

LEMMA CheckGoing ==
    ASSUME IInv, NEW n \in Node, NEW h, NEW left, Going(n, h, left), h.dial = <<>>,
           NEW g \in check(h)
    PROVE  Going(n, g, left)
  BY CheckHandling DEF Going

(* Any message but the handshake.                                          *)
LEMMA OtherGoing ==
    ASSUME IInv, NEW n \in Node, NEW h, NEW left, Going(n, h, left), NEW c,
           NEW msg \in Msg, msg.type # "Members",
           msg.type # "Envelope" => \A a \in Node : Own(a, msg.orset) \subseteq members[a].add,
           NEW g \in Handle(n, h, c, msg)
    PROVE  Going(n, g, left)
<1>1. CASE h.stop
  BY <1>1 DEF Handle
<1>2. CASE ~h.stop /\ msg.type = "Envelope"
  <2>1. g = [h EXCEPT !.got = h.got \cup {msg.envelope}]
    BY <1>2 DEF Handle
  <2>2. h \in Hand /\ msg.envelope \in 1 .. MaxSends
    BY <1>2 DEF Msg, Going, Handling
  <2>3. /\ g \in Hand /\ g.s = h.s /\ g.o = h.o /\ g.out = h.out /\ g.dial = h.dial
    <3>1. h.got \cup {msg.envelope} \in SUBSET (1 .. MaxSends)
      BY <2>2 DEF Hand
    <3> QED
      BY <2>1, <2>2, <3>1 DEF Hand
  <2> QED
    BY <2>3 DEF Going, Handling, Working
<1>3. CASE ~h.stop /\ msg.type # "Envelope"
  <2>1. msg.type = "Delta" /\ msg.orset \in ORSet
    BY <1>3 DEF Msg
  <2>2. CASE Merge(h.o, msg.orset) = h.o
    BY <1>3, <2>1, <2>2 DEF Handle
  <2>3. CASE Merge(h.o, msg.orset) # h.o
    <3>1. g \in broadcast_delta(n, h, msg.orset)
      BY <1>3, <2>1, <2>3 DEF Handle
    <3>2. \A a \in Node \ {n} : Own(a, msg.orset) \subseteq members[a].add
      BY <1>3
    <3>3. Handling(n, g) /\ g.s = h.s /\ g.o = Merge(h.o, msg.orset)
      BY <2>1, <3>1, <3>2, BroadcastHandling DEF Going
    <3>4. Own(n, msg.orset) \subseteq members[n].add
      BY <1>3
    <3>5. g.o.add = h.o.add \cup msg.orset.add
      BY <3>3 DEF Merge
    <3>6. Own(n, g.o) \subseteq members[n].add
      BY <3>4, <3>5 DEF Going, Own
    <3> QED
      BY <3>3, <3>6 DEF Going
  <2> QED
    BY <2>2, <2>3
<1> QED
  BY <1>1, <1>2, <1>3

(* What is left of inbox[n] when the first k messages on c are read.       *)
Rest(n, c, k) == [inbox[n] EXCEPT ![c] = SubSeq(@, k + 1, Len(@))]

LEMMA RestFacts ==
    ASSUME IInv, NEW n \in Node, NEW c \in Id, NEW k \in 1 .. Len(inbox[n][c])
    PROVE  /\ Remains(n, Rest(n, c, k))
           /\ \A i \in Id : i # c => Rest(n, c, k)[i] = inbox[n][i]
<1> DEFINE q == inbox[n][c]
           left == Rest(n, c, k)
<1>1. inbox[n] \in [Id -> Seq(Msg)]
  BY DEF IInv, TypeInv
<1>2. q \in Seq(Msg) /\ Len(q) \in Nat /\ k \in Nat /\ k <= Len(q) /\ 1 <= k
  BY <1>1
<1>3. \A i \in 1 .. Len(q) : q[i].type = "Members" => i = 1
  BY DEF IInv, MessagesInv
<1>4. left = [inbox[n] EXCEPT ![c] = SubSeq(q, k + 1, Len(q))]
  BY DEF Rest
<1>5. q # <<>>
  <2>1. Len(<<>>) = 0
    OBVIOUS
  <2> QED
    BY <1>2, <2>1
<1> HIDE DEF q, left
<1>6. /\ SubSeq(q, k + 1, Len(q)) \in Seq(Msg)
      /\ Len(SubSeq(q, k + 1, Len(q))) = Len(q) - k
      /\ \A i \in 1 .. Len(q) - k : SubSeq(q, k + 1, Len(q))[i] = q[k + i]
  <2> DEFINE r == SubSeq(q, k + 1, Len(q))
  <2>1. \A i \in k + 1 .. Len(q) : q[i] \in Msg
    BY <1>2
  <2>2. r \in Seq(Msg)
    BY <1>2, <2>1
  <2>3. Len(r) = Len(q) - k
    BY <1>2
  <2>4. ASSUME NEW i \in 1 .. Len(q) - k
        PROVE  r[i] = q[k + i]
    BY <1>2, <2>4
  <2> QED
    BY <2>2, <2>3, <2>4
<1>7. left \in [Id -> Seq(Msg)] /\ \A i \in Id : i # c => left[i] = inbox[n][i]
  BY <1>1, <1>4, <1>6
<1>8. left[c] = SubSeq(q, k + 1, Len(q))
  BY <1>1, <1>4
<1>9. \A i \in 1 .. Len(left[c]) : /\ left[c][i].type # "Members"
                                   /\ \E j \in 1 .. Len(q) : left[c][i] = q[j]
  <2> SUFFICES ASSUME NEW i \in 1 .. Len(q) - k
               PROVE  q[k + i].type # "Members" /\ \E j \in 1 .. Len(q) : q[k + i] = q[j]
    BY <1>6, <1>8
  <2>1. k + i \in 1 .. Len(q) /\ k + i # 1
    BY <1>2
  <2> QED
    BY <1>3, <2>1
<1> QED
  BY <1>5, <1>7, <1>9 DEF Remains, q, left

(* The first message of a read, which may be the handshake.                *)
LEMMA FirstGoing ==
    ASSUME IInv, NEW n \in Node, NEW c \in Live(srv[n]), Sent(srv[n], c), c \in Id,
           NEW k \in 1 .. Len(inbox[n][c]),
           NEW g \in Handle(n, Start(n), c, inbox[n][c][1])
    PROVE  Going(n, g, Rest(n, c, k))
<1> DEFINE h == Start(n)
           msg == inbox[n][c][1]
           left == Rest(n, c, k)
           G == Greeted(srv[n], inbox[n])
           u == establish_connection(h.s, c, msg.from)
           t == [h EXCEPT !.o = Merge(h.o, msg.orset), !.s = u]
<1>1. /\ Handling(n, h) /\ h.s = srv[n] /\ h.o = members[n] /\ ~h.stop
      /\ Settles(srv[n], inbox[n])
  BY StartHandling
<1>2. h.dial = <<>> /\ h.out = [i \in Id |-> <<>>]
  BY DEF Start
<1>3. /\ \A i \in Id : i # c => left[i] = inbox[n][i]
      /\ Live(srv[n]) \subseteq Id /\ Good(n, srv[n]) /\ members[n] \in ORSet
      /\ Own(n, members[n]) \subseteq members[n].add
  BY RestFacts, ServerStateFields DEF IInv, TypeInv, Good, Own
<1>4. /\ msg \in Msg /\ msg.from = Peer(n, c)
      /\ msg.type # "Envelope" => \A a \in Node : Own(a, msg.orset) \subseteq members[a].add
      /\ inbox[n][c] # <<>>
  <2>1. inbox[n][c] \in Seq(Msg) /\ 1 \in 1 .. Len(inbox[n][c])
    BY DEF IInv, TypeInv
  <2>2. Len(<<>>) = 0
    OBVIOUS
  <2> QED
    BY <2>1, <2>2 DEF IInv, MessagesInv, DotsInv
<1> HIDE DEF h, msg, left, G, u
<1>5. CASE msg.type = "Members"
  <2>1. msg.orset \in ORSet /\ \A a \in Node : Own(a, msg.orset) \subseteq members[a].add
    BY <1>4, <1>5 DEF Msg
  <2>2. SingleOK(srv[n], G)
    BY <1>1 DEF Settles, G
  <2>3. /\ Good(n, u) /\ Live(u) \subseteq Live(srv[n])
        /\ \A i \in Live(u) :
             /\ u.connections[i].sock = srv[n].connections[i].sock
             /\ srv[n].connections[i].members_sent => u.connections[i].members_sent
             /\ u.connections[i].members_sent => srv[n].connections[i].members_sent
        /\ SingleOK(u, (G \cup {c}) \cap Live(u))
    <3> DEFINE s == srv[n]
               from == msg.from
    <3>1. u = establish_connection(s, c, from)
      BY <1>1 DEF u
    <3>2. /\ Good(n, s) /\ c \in Live(s) /\ s.connections[c].members_sent
          /\ from = s.connections[c].sock /\ SingleOK(s, G)
      BY <1>3, <1>4, <2>2 DEF Peer, Sent
    <3> HIDE DEF s, from
    <3> DEFINE v == establish_connection(s, c, from)
    <3>3. Good(n, v) /\ Live(v) \subseteq Live(s)
      BY <3>2, EstablishConnectionGood
    <3>4. SameSock(s, v)
      BY <3>2, EstablishConnectionGood
    <3>5. \A i \in Live(v) :
             /\ s.connections[i].members_sent => v.connections[i].members_sent
             /\ v.connections[i].members_sent => s.connections[i].members_sent
      BY <3>2, EstablishConnectionGood
    <3>6. SingleOK(v, (G \cup {c}) \cap Live(v))
      BY <3>2, EstablishConnectionGood
    <3> QED
      BY <3>1, <3>3, <3>4, <3>5, <3>6 DEF s, SameSock
  <2>4. Merge(members[n], msg.orset) \in ORSet
        /\ Merge(members[n], msg.orset).add = members[n].add \cup msg.orset.add
    BY <1>3, <2>1 DEF Merge, ORSet
  <2>5. /\ t \in Hand /\ t.s = u /\ t.o = Merge(members[n], msg.orset)
        /\ t.out = h.out /\ t.dial = <<>>
    <3>1. h \in Hand /\ u \in ServerState
      BY <1>1, <2>3 DEF Handling, Good
    <3> QED
      BY <1>1, <1>2, <2>4, <3>1 DEF Hand
  <2> HIDE DEF t
  <2>6. \A i \in Live(u) : /\ i \in Live(srv[n]) /\ Sock(u, i) = Peer(n, i)
                           /\ Sent(u, i) => Sent(srv[n], i)
                           /\ Sent(srv[n], i) => Sent(u, i)
    BY <2>3 DEF Sock, Sent, Peer
  <2>7. Kept(n, u, <<>>)
    <3>1. DOMAIN <<>> = {}
      OBVIOUS
    <3> QED
      BY <2>3, <2>6, <3>1 DEF Kept
  <2>8. Wrote(n, u, h.out) /\ \A i \in Live(srv[n]) : ~Greets(n, i, h.out)
    <3>1. h.out \in [Id -> Seq(Msg)] /\ \A i \in Live(srv[n]) : ~Greets(n, i, h.out)
      BY <1>1 DEF Handling, Hand
    <3> QED
      BY <1>2, <1>3, <2>6, <3>1 DEF Wrote
  <2>9. Dotted(n, t.o, h.out)
    <3>1. \A i \in Id : Len(h.out[i]) = 0
      BY <1>2
    <3>2. Known(n, t.o, t.o)
      BY <2>1, <2>4, <2>5 DEF Known, Own, IInv, DotsInv
    <3> QED
      BY <2>4, <2>5, <3>1, <3>2 DEF Dotted
  <2>10. Settles(u, left)
    <3>1. ASSUME NEW i \in Greeted(u, left)
          PROVE  i \in (G \cup {c}) \cap Live(u)
      <4>1. /\ i \in Live(u) /\ i \in Live(srv[Sock(u, i)]) /\ Sent(srv[Sock(u, i)], i)
            /\ MembersRead(left[i])
        BY <3>1 DEF Greeted
      <4>2. i # c => i \in G
        BY <1>3, <2>6, <4>1 DEF Greeted, G, Peer, Sock
      <4> QED
        BY <4>1, <4>2
    <3> QED
      BY <2>3, <3>1 DEF Settles, SingleOK
  <2>11. Own(n, t.o) \subseteq members[n].add
    BY <2>1, <2>4, <2>5 DEF Own
  <2>12. Going(n, t, left)
    BY <2>5, <2>7, <2>8, <2>9, <2>10, <2>11 DEF Going, Handling, Working
  <2>13. g \in check(t)
    <3>1. g \in UNION {check(x) : x \in {[h EXCEPT !.o = Merge(@, msg.orset),
                                 !.s = establish_connection(@, c, msg.from)]}}
      BY <1>1, <1>5 DEF Handle, h, msg
    <3> QED
      BY <3>1 DEF t, u
  <2> QED
    BY <2>5, <2>12, <2>13, CheckGoing DEF left
<1>6. CASE msg.type # "Members"
  <2>1. Greeted(srv[n], left) \subseteq G
    <3> SUFFICES ASSUME NEW i \in Greeted(srv[n], left)
                 PROVE  i \in G
      OBVIOUS
    <3>1. /\ i \in Live(srv[n]) /\ i \in Live(srv[Sock(srv[n], i)])
          /\ Sent(srv[Sock(srv[n], i)], i) /\ MembersRead(left[i])
      BY DEF Greeted
    <3>2. MembersRead(inbox[n][i])
      BY <1>3, <1>6, <3>1 DEF MembersRead, msg
    <3> QED
      BY <3>1, <3>2 DEF Greeted, G
  <2>2. Settles(srv[n], left)
    BY <1>1, <2>1 DEF Settles, SingleOK, G
  <2>3. Going(n, h, left)
    BY <1>1, <1>3, <2>2 DEF Going
  <2>4. g \in Handle(n, h, c, msg)
    BY DEF h, msg
  <2>5. Going(n, g, left)
    BY <1>4, <1>6, <2>3, <2>4, OtherGoing
  <2> QED
    BY <2>5 DEF left
<1> QED
  BY <1>5, <1>6

(* f holds, for each i, what a handler may have done after i messages.     *)
Steps(f, n, c, k) ==
    f = [i \in 0 .. k |->
          IF i = 0 THEN {Start(n)}
          ELSE UNION {Handle(n, h, c, inbox[n][c][i]) : h \in f[i - 1]}]

LEMMA StepsThere ==
    ASSUME NEW n, NEW c
    PROVE  \A k \in Nat : \E f : Steps(f, n, c, k)
<1> DEFINE S == {k \in Nat : \E f : Steps(f, n, c, k)}
           more(T, i) == UNION {Handle(n, h, c, inbox[n][c][i]) : h \in T}
<1>1. 0 \in S
  <2>1. Steps([i \in 0 .. 0 |-> {Start(n)}], n, c, 0)
    BY DEF Steps
  <2> QED
    BY <2>1
<1>2. ASSUME NEW k \in Nat, k \in S
      PROVE  k + 1 \in S
  <2>1. PICK f : Steps(f, n, c, k)
    BY <1>2
  <2> DEFINE g == [i \in 0 .. k + 1 |-> IF i = k + 1 THEN more(f[k], k + 1) ELSE f[i]]
             e == [i \in 0 .. k + 1 |-> IF i = 0 THEN {Start(n)} ELSE more(g[i - 1], i)]
  <2>2. \A i \in 0 .. k : f[i] = IF i = 0 THEN {Start(n)} ELSE more(f[i - 1], i)
    BY <2>1 DEF Steps
  <2> HIDE DEF more
  <2>3. \A i \in 0 .. k : g[i] = f[i] /\ (i # 0 => g[i - 1] = f[i - 1])
    OBVIOUS
  <2>4. g[k + 1] = more(f[k], k + 1) /\ g[(k + 1) - 1] = f[k] /\ k + 1 # 0
    OBVIOUS
  <2>5. \A i \in 0 .. k + 1 : i \in 0 .. k \/ i = k + 1
    OBVIOUS
  <2>6. \A i \in 0 .. k + 1 : g[i] = e[i]
    <3> SUFFICES ASSUME NEW i \in 0 .. k + 1
                 PROVE  g[i] = IF i = 0 THEN {Start(n)} ELSE more(g[i - 1], i)
      OBVIOUS
    <3> HIDE DEF g
    <3>1. CASE i \in 0 .. k
      BY <2>2, <2>3, <3>1
    <3>2. CASE i = k + 1
      BY <2>4, <3>2
    <3> QED
      BY <2>5, <3>1, <3>2
  <2>7. g = [i \in 0 .. k + 1 |-> g[i]] /\ e = [i \in 0 .. k + 1 |-> e[i]]
    OBVIOUS
  <2>8. e = [i \in 0 .. k + 1 |-> IF i = 0 THEN {Start(n)} ELSE more(g[i - 1], i)]
    OBVIOUS
  <2> HIDE DEF g, e
  <2>9. g = [i \in 0 .. k + 1 |-> IF i = 0 THEN {Start(n)} ELSE more(g[i - 1], i)]
    BY <2>6, <2>7, <2>8
  <2>10. Steps(g, n, c, k + 1)
    BY <2>9 DEF Steps, more
  <2> QED
    BY <2>10
<1> HIDE DEF S
<1>3. Nat \subseteq S
  BY <1>1, <1>2, NatSetInduction
<1> QED
  BY <1>3 DEF S

(* A message has been taken over: its envelope by the executor, its dots by *)
(* the members.                                                            *)
Applied(h, msg) ==
    IF msg.type = "Envelope" THEN msg.envelope \in h.got
    ELSE msg.orset.add \subseteq h.o.add /\ msg.orset.rem \subseteq h.o.rem

Later(h, g) == h.got \subseteq g.got /\ h.o.add \subseteq g.o.add /\ h.o.rem \subseteq g.o.rem

(* The handler has returned, for a write to a connection that is gone.      *)
GaveUp(n, h) == h.stop /\ h.errs \cap Gone(n) # {}

(* A message is applied also by the call that returns with an error: then  *)
(* it was a delta, and its broadcast failed.                               *)
LEMMA HandleApplies ==
    ASSUME NEW n, NEW h \in Hand, ~h.stop, NEW c, NEW msg \in Msg,
           NEW g \in Handle(n, h, c, msg)
    PROVE  /\ Applied(g, msg) /\ Later(h, g)
           /\ g.stop => GaveUp(n, g) /\ msg.type = "Delta"
<1>1. CASE msg.type = "Members"
  <2> DEFINE o == Merge(h.o, msg.orset)
             s == establish_connection(h.s, c, msg.from)
             t == [h EXCEPT !.o = o, !.s = s]
  <2>1. g \in UNION {check(x) : x \in {[h EXCEPT !.o = Merge(@, msg.orset),
                               !.s = establish_connection(@, c, msg.from)]}}
    BY <1>1 DEF Handle
  <2>2. g \in check(t)
    BY <2>1
  <2>3. t.o = o /\ t.got = h.got /\ t.stop = h.stop /\ DOMAIN t = DOMAIN h
    BY DEF Hand
  <2> HIDE DEF t
  <2>4. PICK dial : g = [t EXCEPT !.dial = dial,
                                  !.s = check_connections(@, all(t.o), dial, dial)]
    BY <2>2 DEF check
  <2>5. g.o = o /\ g.got = h.got /\ g.stop = h.stop
    <3>1. "o" \in DOMAIN h /\ "got" \in DOMAIN h /\ "stop" \in DOMAIN h
      BY DEF Hand
    <3> QED
      BY <2>3, <2>4, <3>1
  <2>6. o.add = h.o.add \cup msg.orset.add /\ o.rem = h.o.rem \cup msg.orset.rem
    BY DEF Merge
  <2> QED
    BY <1>1, <2>5, <2>6 DEF Applied, Later
<1>2. CASE msg.type = "Envelope"
  <2>1. g = [h EXCEPT !.got = h.got \cup {msg.envelope}]
    BY <1>2 DEF Handle
  <2>2. g.got = h.got \cup {msg.envelope} /\ g.o = h.o /\ g.stop = h.stop
    BY <2>1 DEF Hand
  <2> QED
    BY <1>2, <2>2 DEF Applied, Later
<1>3. CASE msg.type = "Delta" /\ Merge(h.o, msg.orset) = h.o
  <2>1. g = h
    BY <1>3 DEF Handle
  <2>2. h.o.add = h.o.add \cup msg.orset.add /\ h.o.rem = h.o.rem \cup msg.orset.rem
    BY <1>3 DEF Merge
  <2> QED
    BY <1>3, <2>1, <2>2 DEF Applied, Later
<1>4. CASE msg.type = "Delta" /\ Merge(h.o, msg.orset) # h.o
  <2> DEFINE o == Merge(h.o, msg.orset)
             x == DeltaMsg(n, msg.orset)
  <2>1. g \in broadcast_delta(n, h, msg.orset)
    BY <1>4 DEF Handle
  <2>2. PICK failed : /\ failed \subseteq Gone(n)
                      /\ g = [write(h, Receivers(h.s) \ failed, x)
                                EXCEPT !.o = Merge(@, msg.orset),
                                       !.errs = @ \cup failed, !.stop = failed # {}]
    <3>1. \A f \in IF WritesFail THEN SUBSET (Receivers(h.s) \cap Gone(n)) ELSE {{}} :
             f \subseteq Gone(n)
      OBVIOUS
    <3> QED
      BY <2>1, <3>1 DEF broadcast_delta
  <2> DEFINE out == [i \in Id |-> IF i \in Receivers(h.s) \ failed
                                  THEN Append(h.out[i], x) ELSE h.out[i]]
             errs == h.errs \cup failed
             stop == failed # {}
  <2>3. g = [h EXCEPT !.out = out, !.o = o, !.errs = errs, !.stop = stop]
    BY <2>2 DEF write, Hand
  <2>4. stop => errs \cap Gone(n) # {}
    BY <2>2
  <2> HIDE DEF out, errs, stop
  <2>5. g.o = o /\ g.got = h.got /\ g.stop = stop /\ g.errs = errs
    BY <2>3 DEF Hand
  <2>6. o.add = h.o.add \cup msg.orset.add /\ o.rem = h.o.rem \cup msg.orset.rem
    BY DEF Merge
  <2> QED
    BY <1>4, <2>4, <2>5, <2>6 DEF Applied, Later, GaveUp
<1> QED
  BY <1>1, <1>2, <1>3, <1>4 DEF Msg

AllApplied(h, q, i) == \A j \in 1 .. i : Applied(h, q[j])

(* Of the first i messages of q all have been applied, or all up to the    *)
(* delta whose broadcast made the handler give up.                         *)
Progress(n, h, q, i) ==
    IF h.stop
    THEN GaveUp(n, h) /\ \E j \in 1 .. i : q[j].type = "Delta" /\ AllApplied(h, q, j)
    ELSE AllApplied(h, q, i)

LEMMA ProgressFirst ==
    ASSUME IInv, NEW n \in Node, NEW c, NEW q, q[1] \in Msg,
           NEW g \in Handle(n, Start(n), c, q[1])
    PROVE  Progress(n, g, q, 1)
<1>1. Start(n) \in Hand /\ ~Start(n).stop
  BY StartHandling DEF Handling
<1>2. Applied(g, q[1]) /\ (g.stop => GaveUp(n, g) /\ q[1].type = "Delta")
  BY <1>1, HandleApplies
<1>3. 1 \in 1 .. 1 /\ \A j \in 1 .. 1 : j = 1
  OBVIOUS
<1>4. AllApplied(g, q, 1)
  BY <1>2, <1>3 DEF AllApplied
<1> QED
  BY <1>2, <1>3, <1>4 DEF Progress

LEMMA ProgressNext ==
    ASSUME NEW n, NEW h \in Hand, NEW c, NEW q, NEW i \in Nat, Progress(n, h, q, i),
           q[i + 1] \in Msg, NEW g \in Handle(n, h, c, q[i + 1])
    PROVE  Progress(n, g, q, i + 1)
<1>1. i + 1 \in 1 .. i + 1 /\ \A j \in 1 .. i : j \in 1 .. i + 1
  OBVIOUS
<1>2. CASE h.stop
  <2>1. g = h
    BY <1>2 DEF Handle
  <2> QED
    BY <1>1, <1>2, <2>1 DEF Progress
<1>3. CASE ~h.stop
  <2>1. \A j \in 1 .. i : Applied(h, q[j])
    BY <1>3 DEF Progress, AllApplied
  <2>2. /\ Applied(g, q[i + 1]) /\ Later(h, g)
        /\ g.stop => GaveUp(n, g) /\ q[i + 1].type = "Delta"
    BY <1>3, HandleApplies
  <2>3. \A j \in 1 .. i : Applied(g, q[j])
    BY <2>1, <2>2 DEF Applied, Later
  <2>4. \A j \in 1 .. i + 1 : j \in 1 .. i \/ j = i + 1
    OBVIOUS
  <2>5. AllApplied(g, q, i + 1)
    BY <2>2, <2>3, <2>4 DEF AllApplied
  <2> QED
    BY <1>1, <2>2, <2>5 DEF Progress
<1> QED
  BY <1>2, <1>3

LEMMA HandleFirstGoing ==
    ASSUME IInv, NEW n \in Node, NEW c \in Live(srv[n]), Sent(srv[n], c), c \in Id,
           NEW k \in 1 .. Len(inbox[n][c]), NEW g \in HandleFirst(n, c, k)
    PROVE  Going(n, g, Rest(n, c, k)) /\ Progress(n, g, inbox[n][c], k)
<1> DEFINE q == inbox[n][c]
           left == Rest(n, c, k)
           more(T, i) == UNION {Handle(n, h, c, q[i]) : h \in T}
           f == CHOOSE f : Steps(f, n, c, k)
           A == {i \in Nat : i + 1 <= k =>
                    \A h \in f[i + 1] : Going(n, h, left) /\ Progress(n, h, q, i + 1)}
<1>1. q \in Seq(Msg) /\ Len(q) \in Nat /\ k \in Nat /\ 1 <= k /\ k <= Len(q)
  BY DEF IInv, TypeInv
<1>2. HandleFirst(n, c, k) = f[k]
  BY DEF HandleFirst, Steps
<1>3. Steps(f, n, c, k)
  <2>1. \E e : Steps(e, n, c, k)
    BY <1>1, StepsThere
  <2> QED
    BY <2>1
<1> HIDE DEF f
<1>4. \A i \in 0 .. k : f[i] = IF i = 0 THEN {Start(n)} ELSE more(f[i - 1], i)
  BY <1>3 DEF Steps
<1> HIDE DEF left
<1>5. 0 \in A
  <2> SUFFICES ASSUME NEW h \in f[1]
               PROVE  Going(n, h, left) /\ Progress(n, h, q, 1)
    OBVIOUS
  <2>1. 0 \in 0 .. k /\ 1 \in 0 .. k /\ 1 - 1 = 0
    BY <1>1
  <2> HIDE DEF more
  <2>2. f[0] = {Start(n)} /\ f[1] = more(f[1 - 1], 1)
    BY <1>4, <2>1
  <2>3. h \in Handle(n, Start(n), c, inbox[n][c][1])
    BY <2>1, <2>2 DEF more
  <2>4. q[1] \in Msg
    BY <1>1
  <2>5. Progress(n, h, q, 1)
    BY <2>3, <2>4, ProgressFirst
  <2> QED
    BY <2>3, <2>5, FirstGoing DEF left
<1>6. ASSUME NEW i \in Nat, i \in A
      PROVE  i + 1 \in A
  <2> SUFFICES ASSUME (i + 1) + 1 <= k, NEW h \in f[(i + 1) + 1]
               PROVE  Going(n, h, left) /\ Progress(n, h, q, (i + 1) + 1)
    OBVIOUS
  <2> DEFINE j == i + 1
  <2>1. /\ j + 1 \in 0 .. k /\ j + 1 # 0 /\ (j + 1) - 1 = j /\ j <= k
        /\ j + 1 \in 1 .. Len(q) /\ j + 1 # 1
    BY <1>1
  <2>2. /\ h \in f[j + 1] /\ j \in Nat
        /\ \A x \in f[j] : Going(n, x, left) /\ Progress(n, x, q, j)
    BY <1>6, <2>1
  <2> SUFFICES Going(n, h, left) /\ Progress(n, h, q, j + 1)
    OBVIOUS
  <2> HIDE DEF j
  <2>3. f[j + 1] = more(f[j], j + 1)
    BY <1>4, <2>1
  <2>4. PICK x \in f[j] : h \in Handle(n, x, c, q[j + 1])
    BY <2>2, <2>3
  <2>5. /\ q[j + 1] \in Msg /\ q[j + 1].type # "Members"
        /\ q[j + 1].type # "Envelope" =>
              \A a \in Node : Own(a, q[j + 1].orset) \subseteq members[a].add
    <3>1. \A m \in 1 .. Len(q) : q[m].type = "Members" => m = 1
      BY DEF IInv, MessagesInv
    <3>2. \A m \in 1 .. Len(q) : q[m].type # "Envelope" =>
             \A a \in Node : Own(a, q[m].orset) \subseteq members[a].add
      BY DEF IInv, DotsInv
    <3> HIDE DEF q
    <3> QED
      BY <1>1, <2>1, <3>1, <3>2
  <2> HIDE DEF q
  <2>6. Progress(n, h, q, j + 1)
    <3>1. x \in Hand /\ Progress(n, x, q, j)
      BY <2>2 DEF Going, Handling
    <3> QED
      BY <2>2, <2>4, <2>5, <3>1, ProgressNext
  <2> QED
    BY <2>2, <2>4, <2>5, <2>6, OtherGoing
<1> HIDE DEF A
<1>7. Nat \subseteq A
  BY <1>5, <1>6, NatSetInduction
<1>8. k - 1 \in Nat /\ (k - 1) + 1 = k
  BY <1>1
<1>9. k - 1 \in A
  BY <1>7, <1>8
<1> QED
  BY <1>1, <1>2, <1>8, <1>9 DEF A, left

-----------------------------------------------------------------------------
(* The actions.                                                            *)

LEMMA CommitSame ==
    ASSUME IInv, NEW n \in Node, NEW h, NEW left, Going(n, h, left), Remains(n, left),
           Commit(n, h, left), wanted' = wanted,
           budget' \in [joins : Nat, leaves : Nat, timeouts : Nat],
           budget'.joins = budget.joins
    PROVE  IInv' /\ ReadsOnly(n, left)
<1>1. Working(n, h) /\ h.o \in ORSet /\ Settles(h.s, left)
  BY DEF Going, Handling, Hand
<1>2. wanted' \subseteq Node \X Node
  BY DEF IInv, TypeInv
<1>3. members[n] \in ORSet
  BY DEF IInv, TypeInv
<1>4. Own(n, h.o) \subseteq Own(n, members[n])
  BY DEF Going, Own
<1>5. /\ IsFiniteSet(Own(n, members[n])) /\ Cardinality(Own(n, members[n])) \in Nat
      /\ Cardinality(Own(n, h.o)) \in Nat
  BY <1>1, <1>3, OwnFinite
<1>6. Cardinality(Own(n, h.o)) <= Cardinality(Own(n, members[n]))
  BY <1>4, <1>5, FS_Subset
<1>7. budget.joins \in Nat /\ MaxJoins \in Nat /\ budget'.joins <= budget.joins
  BY MeshAssumption DEF IInv, TypeInv
<1>8. Cardinality(Own(n, members[n])) + budget.joins <= MaxJoins + 1
  BY DEF IInv, DotsInv
<1>9. Cardinality(Own(n, h.o)) + budget'.joins <= MaxJoins + 1
  BY <1>5, <1>6, <1>7, <1>8
<1> QED
  BY <1>1, <1>2, <1>7, <1>9, CommitIInv

LEMMA BudgetSame ==
    ASSUME IInv, UNCHANGED budget
    PROVE  /\ budget' \in [joins : Nat, leaves : Nat, timeouts : Nat]
           /\ budget'.joins = budget.joins
  BY DEF IInv, TypeInv

LEMMA StartGoing ==
    ASSUME IInv, NEW n \in Node
    PROVE  Going(n, Start(n), inbox[n]) /\ Remains(n, inbox[n])
  BY StartHandling DEF Going, Own

LEMMA ReadIInv ==
    ASSUME IInv, NEW n \in Node, NEW c \in Id, NEW k \in 1 .. Len(inbox[n][c]),
           Read(n, c, k)
    PROVE  IInv' /\ ReadsOnly(n, Rest(n, c, k))
<1>1. c \in Live(srv[n]) /\ Sent(srv[n], c)
  BY DEF Read, Sent
<1>2. PICK h \in HandleFirst(n, c, k) : Commit(n, h, Rest(n, c, k))
  BY DEF Read, Rest
<1>3. Going(n, h, Rest(n, c, k)) /\ Remains(n, Rest(n, c, k))
  BY <1>1, HandleFirstGoing, RestFacts
<1>4. wanted' = wanted /\ UNCHANGED budget
  BY DEF Read
<1> QED
  BY <1>2, <1>3, <1>4, BudgetSame, CommitSame

LEMMA PeerClosedIInv ==
    ASSUME IInv, NEW n \in Node, NEW c \in Id, PeerClosed(n, c)
    PROVE  IInv' /\ NothingRead
<1> DEFINE h == [Start(n) EXCEPT !.errs = {c}]
<1>1. Going(n, Start(n), inbox[n]) /\ Remains(n, inbox[n])
  BY StartGoing
<1>2. Start(n) \in Hand
  BY <1>1 DEF Going, Handling
<1>3. /\ h \in Hand /\ h.s = Start(n).s /\ h.o = Start(n).o /\ h.out = Start(n).out
      /\ h.dial = Start(n).dial
  BY <1>2 DEF Hand
<1>4. Commit(n, h, inbox[n]) /\ wanted' = wanted /\ UNCHANGED budget
  BY DEF PeerClosed
<1> HIDE DEF h
<1>5. Going(n, h, inbox[n])
  BY <1>1, <1>3 DEF Going, Handling, Working
<1> QED
  BY <1>1, <1>4, <1>5, BudgetSame, CommitSame, NothingLeft

LEMMA TickIInv ==
    ASSUME IInv, NEW n \in Node, NEW expired \in SUBSET Live(srv[n]), tick(n, expired)
    PROVE  IInv' /\ NothingRead
<1> DEFINE s == close(srv[n], expired)
           t == [Start(n) EXCEPT !.s = s]
<1>1. /\ Going(n, Start(n), inbox[n]) /\ Remains(n, inbox[n])
      /\ Start(n).s = srv[n] /\ Start(n).dial = <<>>
  BY StartGoing DEF Start
<1>2. PICK g \in check(t) : Commit(n, g, inbox[n])
  BY <1>1 DEF tick
<1>3. Good(n, s) /\ Shrinks(srv[n], s) /\ s \in ServerState
  BY CloseGood DEF IInv, Good
<1> HIDE DEF s
<1>4. /\ t \in Hand /\ t.s = s /\ t.o = Start(n).o /\ t.out = Start(n).out
      /\ t.dial = <<>>
  BY <1>1, <1>3 DEF Going, Handling, Hand
<1> HIDE DEF t
<1>5. Kept(n, s, <<>>) /\ Wrote(n, s, t.out) /\ Settles(s, inbox[n])
  <2>1. /\ Kept(n, srv[n], <<>>) /\ Wrote(n, srv[n], t.out)
        /\ Settles(srv[n], inbox[n])
    BY <1>1, <1>4 DEF Going, Handling, Working
  <2> QED
    BY <1>3, <2>1, ShrinksHand
<1>6. Going(n, t, inbox[n])
  BY <1>1, <1>4, <1>5 DEF Going, Handling, Working
<1>7. Going(n, g, inbox[n])
  BY <1>2, <1>4, <1>6, CheckGoing
<1>8. Cardinality(expired) \in Nat
  <2>1. Live(srv[n]) \subseteq Id
    BY ServerStateFields DEF IInv, TypeInv
  <2>2. IsFiniteSet(expired)
    BY <2>1, FS_Subset, MeshAssumption
  <2> QED
    BY <2>2, FS_CardinalityType
<1>9. /\ budget' \in [joins : Nat, leaves : Nat, timeouts : Nat]
      /\ budget'.joins = budget.joins
  <2>1. /\ budget \in [joins : Nat, leaves : Nat, timeouts : Nat]
        /\ Cardinality(expired) <= budget.timeouts
        /\ budget' = [budget EXCEPT !.timeouts = budget.timeouts - Cardinality(expired)]
    BY DEF IInv, TypeInv, tick
  <2>2. budget.timeouts - Cardinality(expired) \in Nat
    BY <1>8, <2>1
  <2> QED
    BY <2>1, <2>2
<1>10. wanted' = wanted
  BY DEF tick
<1> QED
  BY <1>1, <1>2, <1>7, <1>9, <1>10, CommitSame, NothingLeft

LEMMA LeaveIInv ==
    ASSUME IInv, NEW n \in Node, NEW m \in Node, leave(n, m)
    PROVE  IInv' /\ NothingRead
<1> DEFINE d == RemoveDelta(members[n], m)
<1>1. /\ Going(n, Start(n), inbox[n]) /\ Remains(n, inbox[n])
      /\ Start(n).s = srv[n] /\ Start(n).o = members[n]
  BY StartGoing DEF Start
<1>2. PICK h \in broadcast_delta(n, Start(n), d) : Commit(n, h, inbox[n])
  BY DEF leave
<1>3. d \in ORSet /\ d.add = {}
  BY DEF IInv, TypeInv, ORSet, RemoveDelta
<1>4. \A a \in Node : Own(a, d) = {}
  BY <1>3 DEF Own
<1> HIDE DEF d
<1>5. Handling(n, h) /\ h.s = srv[n] /\ h.o = Merge(members[n], d)
  BY <1>1, <1>2, <1>3, <1>4, BroadcastHandling DEF Going
<1>6. h.o.add = members[n].add
  BY <1>3, <1>5 DEF Merge
<1>7. Going(n, h, inbox[n])
  BY <1>1, <1>5, <1>6 DEF Going, Own
<1>8. /\ budget' \in [joins : Nat, leaves : Nat, timeouts : Nat]
      /\ budget'.joins = budget.joins
  <2>1. /\ budget \in [joins : Nat, leaves : Nat, timeouts : Nat]
        /\ budget.leaves > 0 /\ budget' = [budget EXCEPT !.leaves = budget.leaves - 1]
    BY DEF leave, IInv, TypeInv
  <2>2. budget.leaves - 1 \in Nat
    BY <2>1
  <2> QED
    BY <2>1, <2>2
<1>9. wanted' \subseteq Node \X Node
  BY DEF leave
<1>10. Working(n, h) /\ Settles(h.s, inbox[n])
  BY <1>7 DEF Going, Handling
<1>11. budget'.joins <= budget.joins
  BY <1>8
<1>12. Cardinality(Own(n, h.o)) + budget'.joins <= MaxJoins + 1
  BY <1>6, <1>8 DEF Own, IInv, DotsInv
<1> QED
  BY <1>1, <1>2, <1>8, <1>9, <1>10, <1>11, <1>12, CommitIInv, NothingLeft

(* join connects after it has told the others.                             *)
Dialled(h, dial) == [h EXCEPT !.dial = dial, !.s = init_connection(@, dial, dial)]

LEMMA DialHandling ==
    ASSUME IInv, NEW n \in Node, NEW h, Handling(n, h), h.s = srv[n], h.dial = <<>>,
           NEW m \in Node, NEW dial, dial = <<>> \/ dial = Connect({m} \ {n})
    PROVE  /\ Working(n, Dialled(h, dial)) /\ Settles(Dialled(h, dial).s, inbox[n])
           /\ Dialled(h, dial).o = h.o
<1> DEFINE t == init_connection(srv[n], dial, dial)
           g == Dialled(h, dial)
<1>1. /\ h \in Hand /\ Good(n, srv[n]) /\ h.o \in ORSet
      /\ Kept(n, srv[n], <<>>) /\ Wrote(n, srv[n], h.out) /\ Dotted(n, h.o, h.out)
      /\ \A c \in Live(srv[n]) : ~Greets(n, c, h.out)
  BY DEF Handling, Working, Kept, Hand
<1>2. /\ dial \in PartialFn(Id, Node) /\ DOMAIN dial \subseteq Free
      /\ \A c \in DOMAIN dial : dial[c] \in Node \ {n}
  <2>1. <<>> \in PartialFn(Id, Node) /\ DOMAIN <<>> = {}
    <3>1. DOMAIN <<>> = {} /\ <<>> = [x \in {} |-> {}]
      OBVIOUS
    <3> QED
      BY <3>1, EmptyFn
  <2>2. CASE dial = <<>>
    BY <2>1, <2>2
  <2>3. CASE dial = Connect({m} \ {n})
    <3>1. {m} \ {n} \in SUBSET Node
      OBVIOUS
    <3> QED
      BY <2>3, <3>1, ConnectFacts
  <2> QED
    BY <2>2, <2>3
<1>3. \A c \in DOMAIN dial : c \in Id /\ \A k \in Node : c \notin Live(srv[k])
  BY <1>2, DialledAlone
<1>4. g = [h EXCEPT !.dial = dial, !.s = t]
  BY DEF Dialled
<1> HIDE DEF t, g
<1>5. /\ Good(n, t) /\ Live(t) = Live(srv[n]) \cup DOMAIN dial
      /\ \A c \in Live(srv[n]) : t.connections[c] = srv[n].connections[c]
      /\ t.established = srv[n].established
      /\ \A c \in DOMAIN dial :
            t.connections[c].sock = dial[c] /\ ~t.connections[c].members_sent
  <2>1. DOMAIN dial \subseteq Id \ Live(srv[n])
    BY <1>3
  <2>2. \A c \in DOMAIN dial : dial[c] \in Node /\ dial[c] \in Node \cup {NoNode}
    BY <1>2
  <2> QED
    BY <1>1, <2>1, <2>2, InitConnectionGood DEF t
<1>6. t \in ServerState /\ \A c \in Live(t) : Sock(t, c) \in Node
  BY <1>5, ServerStateFields DEF Good, Conn, Sock
<1>7. g.s = t /\ g.o = h.o /\ g.out = h.out /\ g.dial = dial
  BY <1>1, <1>2, <1>4, <1>6 DEF Hand
<1>8. \A c \in Live(srv[n]) : /\ Sock(t, c) = Peer(n, c)
                              /\ Sent(t, c) => Sent(srv[n], c)
                              /\ Sent(srv[n], c) => Sent(t, c)
  BY <1>5 DEF Sock, Sent, Peer
<1>9. \A c \in DOMAIN dial : Sock(t, c) = dial[c] /\ ~Sent(t, c)
  BY <1>5 DEF Sock, Sent
<1>10. Kept(n, t, dial)
  BY <1>2, <1>5, <1>8, <1>9 DEF Kept
<1>11. Wrote(n, t, h.out)
  BY <1>1, <1>8 DEF Wrote
<1>12. Settles(t, inbox[n])
  <2>1. ASSUME NEW c \in Greeted(t, inbox[n])
        PROVE  c \in Greeted(srv[n], inbox[n])
    <3>1. /\ c \in Live(t) /\ c \in Live(srv[Sock(t, c)]) /\ Sent(srv[Sock(t, c)], c)
          /\ MembersRead(inbox[n][c])
      BY <2>1 DEF Greeted
    <3>2. c \in Live(srv[n])
      BY <1>3, <1>5, <1>6, <3>1
    <3> QED
      BY <1>8, <3>1, <3>2 DEF Greeted, Peer, Sock
  <2>2. SingleOK(srv[n], Greeted(srv[n], inbox[n]))
    BY DEF IInv, SettledInv
  <2>3. \A c \in Live(srv[n]) : t.connections[c].sock = srv[n].connections[c].sock
    BY <1>5
  <2> QED
    BY <1>5, <2>1, <2>2, <2>3 DEF Settles, SingleOK
<1> QED
  BY <1>1, <1>7, <1>10, <1>11, <1>12 DEF Working, g

LEMMA JoinIInv ==
    ASSUME IInv, NEW n \in Node, NEW m \in Node, join(n, m)
    PROVE  IInv' /\ NothingRead
<1> DEFINE d == AddDelta(members[n], n, m)
           N == Cardinality(Own(n, members[n]))
           x == <<m, n, 1 + N>>
<1>1. /\ Going(n, Start(n), inbox[n]) /\ Remains(n, inbox[n])
      /\ Start(n).s = srv[n] /\ Start(n).o = members[n] /\ Start(n).dial = <<>>
      /\ members[n] \in ORSet
  BY StartGoing DEF Start, IInv, TypeInv
<1>2. PICK h \in broadcast_delta(n, Start(n), d) :
        \E dial \in {IF h.stop THEN <<>> ELSE Connect({m} \ {n})} :
          Commit(n, [h EXCEPT !.dial = dial, !.s = init_connection(@, dial, dial)],
                 inbox[n])
  BY DEF join
<1>3. PICK dial \in {<<>>, Connect({m} \ {n})} :
          Commit(n, [h EXCEPT !.dial = dial, !.s = init_connection(@, dial, dial)],
                 inbox[n])
  BY <1>2
<1>4. /\ N \in Nat /\ MaxJoins \in Nat /\ N + budget.joins <= MaxJoins + 1
      /\ budget \in [joins : Nat, leaves : Nat, timeouts : Nat]
      /\ budget.joins > 0
      /\ budget' = [budget EXCEPT !.joins = budget.joins - 1]
      /\ IsFiniteSet(Own(n, members[n]))
  BY <1>1, OwnFinite, MeshAssumption DEF join, IInv, TypeInv, DotsInv
<1> HIDE DEF N
<1>5. x \in Dot /\ x[2] = n
  BY <1>4 DEF Dot
<1>6. d = [add |-> {x}, rem |-> {}]
  BY DEF AddDelta, N, Own
<1> HIDE DEF x, d
<1>7. d \in ORSet /\ d.add = {x}
  BY <1>5, <1>6 DEF ORSet
<1>8. \A a \in Node \ {n} : Own(a, d) = {}
  BY <1>5, <1>7 DEF Own
<1>9. Handling(n, h) /\ h.s = srv[n] /\ h.dial = <<>> /\ h.o = Merge(members[n], d)
  BY <1>1, <1>2, <1>7, <1>8, BroadcastHandling DEF Going
<1> DEFINE g == Dialled(h, dial)
<1>10. Working(n, g) /\ Settles(g.s, inbox[n]) /\ g.o = h.o
  <2>1. dial = <<>> \/ dial = Connect({m} \ {n})
    BY <1>3
  <2> QED
    BY <1>4, <1>9, <2>1, DialHandling
<1>11. Commit(n, g, inbox[n])
  BY <1>3 DEF Dialled
<1> HIDE DEF g
<1>12. Cardinality(Own(n, g.o)) \in Nat /\ Cardinality(Own(n, g.o)) <= N + 1
  <2>1. Own(n, g.o) \subseteq Own(n, members[n]) \cup {x}
    BY <1>7, <1>9, <1>10 DEF Merge, Own
  <2>2. /\ IsFiniteSet(Own(n, members[n]) \cup {x})
        /\ Cardinality(Own(n, members[n]) \cup {x}) \in Nat
        /\ Cardinality(Own(n, members[n]) \cup {x}) <= N + 1
    <3>1. /\ IsFiniteSet(Own(n, members[n]) \cup {x})
          /\ \/ Cardinality(Own(n, members[n]) \cup {x}) = N
             \/ Cardinality(Own(n, members[n]) \cup {x}) = N + 1
      BY <1>4, FS_AddElement DEF N
    <3> QED
      BY <1>4, <3>1
  <2>3. /\ IsFiniteSet(Own(n, g.o))
        /\ Cardinality(Own(n, g.o)) <= Cardinality(Own(n, members[n]) \cup {x})
    BY <2>1, <2>2, FS_Subset
  <2>4. Cardinality(Own(n, g.o)) \in Nat
    BY <2>3, FS_CardinalityType
  <2> QED
    BY <1>4, <2>2, <2>3, <2>4
<1>13. /\ budget' \in [joins : Nat, leaves : Nat, timeouts : Nat]
       /\ budget'.joins = budget.joins - 1
  <2>1. budget.joins - 1 \in Nat
    BY <1>4
  <2> QED
    BY <1>4, <2>1
<1>14. /\ budget'.joins <= budget.joins
       /\ Cardinality(Own(n, g.o)) + budget'.joins <= MaxJoins + 1
  BY <1>4, <1>12, <1>13
<1>15. wanted' \subseteq Node \X Node
  BY DEF join, IInv, TypeInv
<1> QED
  BY <1>1, <1>10, <1>11, <1>13, <1>14, <1>15, CommitIInv, NothingLeft

(* ReadUnsent: the Members of n, on a connection something came in on.     *)
LEMMA ReadUnsentIInv ==
    ASSUME IInv, NEW n \in Node, NEW c \in Id, ReadUnsent(n, c)
    PROVE  IInv' /\ NothingRead
<1> DEFINE s == send_members(srv[n], c)
           msg == MembersMsg(n, members[n])
           out == [i \in Id |-> IF i = c THEN <<msg>> ELSE <<>>]
           h == write([Start(n) EXCEPT !.s = send_members(@, c)], {c}, msg)
<1>1. /\ Going(n, Start(n), inbox[n]) /\ Remains(n, inbox[n])
      /\ Start(n).s = srv[n] /\ Start(n).o = members[n] /\ Start(n).dial = <<>>
      /\ Start(n).out = [i \in Id |-> <<>>]
      /\ members[n] \in ORSet /\ Good(n, srv[n])
  BY StartGoing DEF Start, IInv, TypeInv
<1>2. /\ c \in Live(srv[n]) /\ ~Sent(srv[n], c) /\ inbox[n][c] # <<>>
      /\ Commit(n, h, inbox[n]) /\ wanted' = wanted /\ UNCHANGED budget
  BY DEF ReadUnsent, Sent
<1>3. msg \in Msg /\ msg.type = "Members" /\ msg.from = n /\ msg.orset = members[n]
  BY <1>1 DEF MembersMsg, Msg
<1>4. /\ Good(n, s) /\ Live(s) = Live(srv[n]) /\ s.established = srv[n].established
      /\ \A i \in Live(srv[n]) :
            /\ s.connections[i].sock = srv[n].connections[i].sock
            /\ srv[n].connections[i].members_sent => s.connections[i].members_sent
            /\ i # c => s.connections[i] = srv[n].connections[i]
            /\ i = c => s.connections[i].members_sent
  BY <1>1, SendMembersGood
<1> HIDE DEF s, msg
<1>5. h = [Start(n) EXCEPT !.s = s, !.out = out]
  <2> DEFINE g == [Start(n) EXCEPT !.s = s]
  <2>1. /\ Start(n) \in Hand /\ s \in ServerState
    BY <1>1, <1>4 DEF Going, Handling, Good
  <2>2. /\ g.out = [i \in Id |-> <<>>]
    BY <1>1, <2>1 DEF Hand
  <2>3. h = [g EXCEPT !.out = [i \in Id |-> IF i \in {c} THEN Append(g.out[i], msg)
                                                         ELSE g.out[i]]]
    BY <1>1 DEF write, s
  <2> HIDE DEF g
  <2>4. \A i \in Id : (IF i \in {c} THEN Append(g.out[i], msg) ELSE g.out[i])
                         = IF i = c THEN <<msg>> ELSE <<>>
    BY <2>2
  <2>5. h = [g EXCEPT !.out = out]
    BY <2>3, <2>4
  <2> HIDE DEF h, out
  <2> QED
    BY <2>5 DEF g
<1>6. /\ out \in [Id -> Seq(Msg)] /\ out[c] = <<msg>>
      /\ \A i \in Id : i # c => out[i] = <<>>
  <2>1. <<msg>> \in Seq(Msg) /\ <<>> \in Seq(Msg)
    BY <1>3
  <2> QED
    BY <2>1
<1> HIDE DEF out, h
<1>7. h.s = s /\ h.o = members[n] /\ h.out = out /\ h.dial = <<>>
  <2>1. Start(n) \in Hand /\ s \in ServerState
    BY <1>1, <1>4 DEF Going, Handling, Good
  <2> QED
    BY <1>1, <1>5, <1>6, <2>1 DEF Hand
<1>8. \A i \in Live(srv[n]) : /\ Sock(s, i) = Peer(n, i)
                              /\ Sent(srv[n], i) => Sent(s, i)
                              /\ i # c => (Sent(s, i) => Sent(srv[n], i))
                              /\ i = c => Sent(s, i)
  BY <1>4 DEF Sock, Sent, Peer
<1>9. Kept(n, s, <<>>)
  <2>1. DOMAIN <<>> = {}
    OBVIOUS
  <2> QED
    BY <1>4, <1>8, <2>1 DEF Kept
<1>10. Len(out[c]) = 1 /\ out[c][1] = msg
  BY <1>6
<1>11. Wrote(n, s, out)
  <2>1. Greets(n, c, out)
    BY <1>2, <1>3, <1>10 DEF Greets
  <2>2. Live(srv[n]) \subseteq Id
    BY <1>1, ServerStateFields DEF Good
  <2> QED
    BY <1>2, <1>6, <1>8, <2>1, <2>2 DEF Wrote
<1>12. Dotted(n, members[n], out)
  <2>1. Known(n, members[n], members[n])
    BY DEF IInv, DotsInv, Known
  <2>2. \A i \in Id : \A k \in 1 .. Len(out[i]) : out[i][k] = msg
    <3>1. Len(<<>>) = 0
      OBVIOUS
    <3> QED
      BY <1>6, <1>10, <3>1
  <2> QED
    BY <1>1, <1>3, <2>1, <2>2 DEF Dotted
<1>13. Settles(s, inbox[n])
  <2>1. Greeted(s, inbox[n]) \subseteq Greeted(srv[n], inbox[n])
    BY <1>4, <1>8 DEF Greeted, Peer, Sock
  <2>2. SingleOK(srv[n], Greeted(srv[n], inbox[n]))
    BY DEF IInv, SettledInv
  <2> QED
    BY <1>4, <2>1, <2>2 DEF Settles, SingleOK
<1>14. Working(n, h) /\ Settles(h.s, inbox[n])
  BY <1>7, <1>9, <1>11, <1>12, <1>13 DEF Working
<1>15. /\ budget' \in [joins : Nat, leaves : Nat, timeouts : Nat]
       /\ budget'.joins <= budget.joins
       /\ wanted' \subseteq Node \X Node
       /\ Cardinality(Own(n, h.o)) + budget'.joins <= MaxJoins + 1
  BY <1>2, <1>7 DEF IInv, TypeInv, DotsInv
<1> QED
  BY <1>1, <1>2, <1>14, <1>15, CommitIInv, NothingLeft

(* Nothing but an envelope's fate changes.                                 *)
LEMMA SameIInv ==
    ASSUME IInv, UNCHANGED <<members, srv, inbox, backlog, wanted, budget>>,
           mail' \in [1 .. MaxSends -> [fate : Fate, on : SUBSET Id]]
    PROVE  IInv' /\ NothingRead
<1>1. TypeInv' /\ DotsInv'
  BY DEF IInv, TypeInv, DotsInv
<1>2. PairInv' /\ BacklogInv' /\ MessagesInv'
  BY DEF IInv, PairInv, BacklogInv, MessagesInv, Peer, Live, Sent
<1>3. SettledInv'
  BY DEF IInv, SettledInv, SingleOK, Greeted, Live, Sock, Sent
<1>4. (\A m \in Node : Good(m, srv[m]))'
  BY DEF IInv, Good, WheelOK, EstOK, Live
<1>5. NothingRead
  <2>1. \A m \in Node : \A c \in Live(srv[m]) : inbox[m][c] \in Seq(Msg)
    BY ServerStateFields DEF IInv, TypeInv
  <2>2. \A m \in Node : \A c \in Live(srv[m]) : Len(inbox[m][c]) \in Nat
    BY <2>1
  <2>3. \A m \in Node : \A c \in Live(srv[m]) : Len(inbox[m][c]) <= Len(inbox[m][c])
    BY <2>2
  <2> QED
    BY <2>3 DEF NothingRead
<1> QED
  BY <1>1, <1>2, <1>3, <1>4, <1>5 DEF IInv

(* An envelope for an established peer is on its socket, whose other end   *)
(* is that peer's, unless it is closed.                                    *)
LEMMA EstablishedEnd ==
    ASSUME IInv, NEW n \in Node, NEW m \in DOMAIN Established(n)
    PROVE  /\ m \in Node /\ Established(n)[m] \in Live(srv[n]) /\ Established(n)[m] \in Id
           /\ Peer(n, Established(n)[m]) = m /\ m # n /\ Sent(srv[n], Established(n)[m])
           /\ \/ PeerGone(n, Established(n)[m])
              \/ /\ Established(n)[m] \in Live(srv[m])
                 /\ Peer(m, Established(n)[m]) = n
<1> DEFINE c == Established(n)[m]
<1>1. /\ m \in Node /\ c \in Live(srv[n]) /\ Peer(n, c) = m /\ Sent(srv[n], c) /\ c \in Id
  BY ServerStateFields DEF IInv, TypeInv, Good, EstOK, Established, Peer, Sent
<1> HIDE DEF c
<1>2. m # n
  BY <1>1 DEF IInv, PairInv
<1>3. ASSUME ~PeerGone(n, c)
      PROVE  c \in Live(srv[m])
  <2>1. c \in Live(srv[m]) \/ <<c, n>> \in backlog[m]
    BY <1>1, <1>3 DEF PeerGone
  <2>2. ASSUME <<c, n>> \in backlog[m]
        PROVE  FALSE
    <3>1. <<c, n>>[1] = c
      OBVIOUS
    <3> QED
      BY <1>1, <2>2, <3>1 DEF IInv, BacklogInv
  <2> QED
    BY <2>1, <2>2
<1>4. c \in Live(srv[m]) => Peer(m, c) = n
  BY <1>1, <1>2 DEF IInv, PairInv
<1> QED
  BY <1>1, <1>2, <1>3, <1>4 DEF c

(* The message list is packaged so that it stays a term of its own.        *)
OneOut(c, msg) == [i \in Id |-> IF i = c THEN <<msg>> ELSE <<>>]

LEMMA SendRemoteIInv ==
    ASSUME IInv, NEW n \in Node, NEW m \in Node, NEW k \in 1 .. MaxSends, send_remote(n, m, k)
    PROVE  IInv' /\ NothingRead
<1>1. mail \in [1 .. MaxSends -> [fate : Fate, on : SUBSET Id]]
  BY DEF IInv, TypeInv
<1>2. CASE m \notin DOMAIN Established(n)
  <2>1. /\ UNCHANGED <<members, srv, inbox, backlog, wanted, budget>>
        /\ \/ mail' = [mail EXCEPT ![k].fate = "lost"]
           \/ mail' = mail
    BY <1>2 DEF send_remote
  <2>2. mail' \in [1 .. MaxSends -> [fate : Fate, on : SUBSET Id]]
    BY <1>1, <2>1 DEF Fate
  <2> QED
    BY <2>1, <2>2, SameIInv
<1>3. CASE m \in DOMAIN Established(n)
  <2> DEFINE c == Established(n)[m]
             msg == EnvelopeMsg(n, k)
             gone == PeerGone(n, c)
             out == IF gone THEN [i \in Id |-> <<>>] ELSE OneOut(c, msg)
  <2>1. PICK errs : /\ errs \subseteq {c} /\ (errs = {} \/ gone)
                    /\ srv' = [srv EXCEPT ![n] = close(@, errs)]
                    /\ inbox' = IF gone
                                THEN [inbox EXCEPT ![n][c] = IF c \in errs THEN <<>> ELSE @]
                                ELSE [inbox EXCEPT ![m][c] = Append(@, msg)]
                    /\ mail' = [mail EXCEPT ![k] =
                                  IF gone THEN [fate |-> "lost", on |-> {}]
                                          ELSE [fate |-> "written", on |-> {c}]]
    BY <1>3 DEF send_remote
  <2>2. /\ c \in Live(srv[n]) /\ c \in Id /\ Peer(n, c) = m /\ m # n /\ Sent(srv[n], c)
        /\ gone \/ (c \in Live(srv[m]) /\ Peer(m, c) = n)
    BY <1>3, EstablishedEnd
  <2>3. UNCHANGED <<members, backlog, wanted, budget>>
    BY DEF send_remote
  <2>4. msg \in Msg /\ msg.type = "Envelope" /\ msg.from = n
    BY DEF EnvelopeMsg, Msg
  <2> HIDE DEF c, msg, gone
  <2> DEFINE s == close(srv[n], errs)
  <2>5. /\ Going(n, Start(n), inbox[n]) /\ Remains(n, inbox[n])
        /\ Start(n).s = srv[n] /\ Start(n).o = members[n] /\ Start(n).dial = <<>>
        /\ Start(n).out = [i \in Id |-> <<>>]
        /\ members[n] \in ORSet /\ Good(n, srv[n])
    BY StartGoing DEF Start, IInv, TypeInv
  <2>6. /\ Good(n, s) /\ Shrinks(srv[n], s) /\ Live(s) = Live(srv[n]) \ errs
    BY <2>5, CloseGood
  <2>7. /\ out \in [Id -> Seq(Msg)]
        /\ \A i \in Id : i # c => out[i] = <<>>
        /\ gone => out[c] = <<>>
        /\ ~gone => out[c] = <<msg>>
    <3>1. <<msg>> \in Seq(Msg) /\ <<>> \in Seq(Msg)
      BY <2>4
    <3> QED
      BY <2>2, <3>1 DEF OneOut
  <2> HIDE DEF out, s
  <2>8. ~gone => Spoke(n, c, out)
    <3>1. ~gone => Len(out[c]) = 1 /\ out[c][1] = msg
      <4>1. Len(<<msg>>) = 1 /\ <<msg>>[1] = msg
        OBVIOUS
      <4> QED
        BY <2>7, <4>1
    <3> QED
      BY <2>2, <2>4, <3>1 DEF Spoke
  <2>9. Wrote(n, srv[n], out)
    <3>1. Live(srv[n]) \subseteq Id
      BY <2>5, ServerStateFields DEF Good
    <3> QED
      BY <2>2, <2>7, <2>8, <3>1 DEF Wrote
  <2>10. Dotted(n, members[n], out)
    <3>1. Known(n, members[n], members[n])
      BY DEF IInv, DotsInv, Known
    <3>2. \A i \in Id : \A j \in 1 .. Len(out[i]) : out[i][j] = msg
      <4>1. Len(<<>>) = 0 /\ Len(<<msg>>) = 1 /\ <<msg>>[1] = msg
        OBVIOUS
      <4> QED
        BY <2>7, <4>1
    <3> QED
      BY <2>4, <2>5, <3>1, <3>2 DEF Dotted
  <2>11. Kept(n, srv[n], <<>>) /\ Settles(srv[n], inbox[n])
    BY <2>5 DEF Going, Handling, Working
  <2>12. Kept(n, s, <<>>) /\ Wrote(n, s, out) /\ Settles(s, inbox[n])
    BY <2>6, <2>9, <2>11, ShrinksHand
  <2>13. inbox' = [j \in Node |-> [i \in Id |->
                     IF j = n THEN Reads(n, i, s, inbox[n]) ELSE Gets(n, j, i, out)]]
    <3>1. inbox \in [Node -> [Id -> Seq(Msg)]]
      BY DEF IInv, TypeInv
    <3>2. \A i \in Id : i \notin Live(srv[n]) => inbox[n][i] = <<>>
      BY DEF IInv, MessagesInv
    <3>3. \A i \in Id : Reads(n, i, s, inbox[n]) = IF i \in errs THEN <<>> ELSE inbox[n][i]
      BY <2>6, <3>2 DEF Reads
    <3>4. ASSUME NEW j \in Node \ {n}, NEW i \in Id
          PROVE  Gets(n, j, i, out) = IF ~gone /\ j = m /\ i = c THEN Append(inbox[m][c], msg)
                                                               ELSE inbox[j][i]
      <4>1. inbox[j][i] \in Seq(Msg) /\ inbox[j][i] \o <<>> = inbox[j][i]
        BY <3>1
      <4>2. inbox[j][i] \o <<msg>> = Append(inbox[j][i], msg)
        BY <2>4, <4>1
      <4>3. c \in Live(srv[j]) => j = m
        BY <2>2 DEF IInv, PairInv
      <4> QED
        BY <2>2, <2>7, <4>1, <4>2, <4>3 DEF Gets
    <3> DEFINE new == [j \in Node |-> [i \in Id |->
                         IF j = n THEN Reads(n, i, s, inbox[n]) ELSE Gets(n, j, i, out)]]
    <3> DEFINE same(j, i) == new[j][i] = IF j = n THEN Reads(n, i, s, inbox[n])
                                                  ELSE Gets(n, j, i, out)
    <3>7. \A j \in Node, i \in Id : same(j, i)
      OBVIOUS
    <3>8. new = [j \in Node |-> [i \in Id |-> new[j][i]]]
      OBVIOUS
    <3> HIDE DEF new
    <3>5. CASE gone
      <4>1. inbox' = [inbox EXCEPT ![n][c] = IF c \in errs THEN <<>> ELSE @]
        BY <2>1, <3>5
      <4>2. \A j \in Node, i \in Id : inbox'[j][i] =
               IF j = n /\ i = c /\ c \in errs THEN <<>> ELSE inbox[j][i]
        BY <2>2, <3>1, <4>1
      <4>3. \A j \in Node, i \in Id : inbox'[j][i] = new[j][i]
        <5> SUFFICES ASSUME NEW j \in Node, NEW i \in Id
                     PROVE  inbox'[j][i] = new[j][i]
          OBVIOUS
        <5>1. CASE j = n
          <6>1. i \in errs <=> (i = c /\ c \in errs)
            BY <2>1
          <6>2. new[j][i] = IF i \in errs THEN <<>> ELSE inbox[n][i]
            BY <3>3, <3>7, <5>1
          <6> QED
            BY <4>2, <5>1, <6>1, <6>2
        <5>2. CASE j # n
          BY <3>4, <3>5, <3>7, <4>2, <5>2
        <5> QED
          BY <5>1, <5>2
      <4>4. inbox' = [j \in Node |-> [i \in Id |-> inbox'[j][i]]]
        BY <3>1, <4>1
      <4> QED
        BY <3>8, <4>3, <4>4 DEF new
    <3>6. CASE ~gone
      <4>1. inbox' = [inbox EXCEPT ![m][c] = Append(@, msg)] /\ errs = {}
        BY <2>1, <3>6
      <4>2. \A j \in Node, i \in Id : inbox'[j][i] =
               IF j = m /\ i = c THEN Append(inbox[m][c], msg) ELSE inbox[j][i]
        BY <2>2, <3>1, <4>1
      <4>3. \A j \in Node, i \in Id : inbox'[j][i] = new[j][i]
        <5> SUFFICES ASSUME NEW j \in Node, NEW i \in Id
                     PROVE  inbox'[j][i] = new[j][i]
          OBVIOUS
        <5>1. CASE j = n
          <6>1. new[j][i] = inbox[n][i]
            BY <3>3, <3>7, <4>1, <5>1
          <6> QED
            BY <2>2, <4>2, <5>1, <6>1
        <5>2. CASE j # n
          BY <3>4, <3>6, <3>7, <4>2, <5>2
        <5> QED
          BY <5>1, <5>2
      <4>4. inbox' = [j \in Node |-> [i \in Id |-> inbox'[j][i]]]
        BY <3>1, <4>1
      <4> QED
        BY <3>8, <4>3, <4>4 DEF new
    <3> QED
      BY <3>5, <3>6 DEF new
  <2>14. /\ srv' = [srv EXCEPT ![n] = s]
         /\ members' = [members EXCEPT ![n] = members[n]]
         /\ backlog' = [j \in Node |-> backlog[j] \cup
                          {<<i, n>> : i \in {i \in DOMAIN <<>> : <<>>[i] = j}}]
    <3>1. members \in [Node -> ORSet] /\ backlog \in [Node -> SUBSET (Id \X Node)]
      BY DEF IInv, TypeInv
    <3>2. DOMAIN <<>> = {}
      OBVIOUS
    <3> QED
      BY <2>1, <2>3, <3>1, <3>2 DEF s
  <2>15. Outcome(n, s, members[n], out, <<>>, inbox[n])
    BY <2>5, <2>10, <2>12, <2>13, <2>14 DEF Outcome
  <2>16. mail' \in [1 .. MaxSends -> [fate : Fate, on : SUBSET Id]]
    <3>1. /\ [fate |-> "lost", on |-> {}] \in [fate : Fate, on : SUBSET Id]
          /\ [fate |-> "written", on |-> {c}] \in [fate : Fate, on : SUBSET Id]
      BY <2>2 DEF Fate
    <3> QED
      BY <1>1, <2>1, <3>1
  <2>17. /\ wanted' \subseteq Node \X Node
         /\ budget' \in [joins : Nat, leaves : Nat, timeouts : Nat]
         /\ budget'.joins <= budget.joins
         /\ Cardinality(Own(n, members[n])) + budget'.joins <= MaxJoins + 1
    BY <2>3 DEF IInv, TypeInv, DotsInv
  <2> QED
    BY <2>15, <2>16, <2>17, OutcomeIInv, NothingLeft
<1> QED
  BY <1>2, <1>3

(* A socket that is accepted: a new connection of n, with its Members in   *)
(* the inbox of the node that dialled it, if that one is still there.      *)
Accepted(n, c, m, s, msg) ==
    /\ Good(n, s) /\ Live(s) = Live(srv[n]) \cup {c}
    /\ \A i \in Live(srv[n]) : s.connections[i] = srv[n].connections[i]
    /\ s.established = srv[n].established
    /\ Sock(s, c) = m /\ Sent(s, c)
    /\ msg \in Msg /\ msg.type = "Members" /\ msg.from = n /\ msg.orset = members[n]
    /\ srv' = [srv EXCEPT ![n] = s]
    /\ \A k \in Node, i \in Id : inbox'[k][i] =
          IF k = m /\ i = c /\ c \in Live(srv[m]) THEN <<msg>> ELSE inbox[k][i]
    /\ inbox' \in [Node -> [Id -> Seq(Msg)]]
    /\ backlog' = [backlog EXCEPT ![n] = @ \ {<<c, m>>}]
    /\ UNCHANGED <<members, wanted, mail, budget>>

(* What is known of a socket that waits to be accepted.                    *)
LEMMA WaitingEnd ==
    ASSUME IInv, NEW n \in Node, NEW c, NEW m, <<c, m>> \in backlog[n]
    PROVE  /\ c \in Id /\ m \in Node /\ m # n
           /\ \A k \in Node : c \in Live(srv[k]) =>
                 k = m /\ Peer(k, c) = n /\ ~Sent(srv[k], c) /\ inbox[k][c] = <<>>
           /\ \A k \in Node : \A f \in backlog[k] : f[1] = c => k = n /\ f = <<c, m>>
<1>1. <<c, m>> \in Id \X Node
  BY DEF IInv, TypeInv
<1>2. <<c, m>>[1] = c /\ <<c, m>>[2] = m
  OBVIOUS
<1> DEFINE e == <<c, m>>
<1>3. e \in backlog[n] /\ e[1] = c /\ e[2] = m
  BY <1>2
<1> HIDE DEF e
<1>4. /\ e[2] # n
      /\ \A k \in Node : e[1] \in Live(srv[k]) =>
            k = e[2] /\ Peer(k, e[1]) = n /\ ~Sent(srv[k], e[1]) /\ inbox[k][e[1]] = <<>>
      /\ \A k \in Node : \A f \in backlog[k] : f[1] = e[1] => k = n /\ f = e
  BY <1>3 DEF IInv, BacklogInv
<1> QED
  BY <1>1, <1>3, <1>4 DEF e

LEMMA AcceptAccepted ==
    ASSUME IInv, NEW n \in Node, NEW c, NEW m, accept_connection(n, c, m)
    PROVE  <<c, m>> \in backlog[n] /\ \E s, msg : Accepted(n, c, m, s, msg)
<1> DEFINE sock == [i \in {c} |-> m]
           none == [i \in {c} |-> NoNode]
           t == init_connection(srv[n], sock, none)
           s == send_members(t, c)
           msg == MembersMsg(n, members[n])
           h == write([Start(n) EXCEPT !.s = s], {c}, msg)
<1>1. /\ <<c, m>> \in backlog[n] /\ srv' = [srv EXCEPT ![n] = h.s]
      /\ inbox' = IF c \in Live(srv[m]) THEN [inbox EXCEPT ![m][c] = @ \o h.out[c]] ELSE inbox
      /\ backlog' = [backlog EXCEPT ![n] = @ \ {<<c, m>>}]
      /\ UNCHANGED <<members, wanted, mail, budget>>
  BY DEF accept_connection
<1>2. /\ c \in Id /\ m \in Node /\ m # n /\ c \notin Live(srv[n])
      /\ c \in Live(srv[m]) => inbox[m][c] = <<>>
  BY <1>1, WaitingEnd
<1>3. Good(n, srv[n]) /\ members[n] \in ORSet
  BY DEF IInv, TypeInv
<1>4. msg \in Msg /\ msg.type = "Members" /\ msg.from = n /\ msg.orset = members[n]
  BY <1>3 DEF MembersMsg, Msg
<1>5. /\ DOMAIN sock = {c} /\ DOMAIN sock \subseteq Id \ Live(srv[n])
      /\ \A i \in DOMAIN sock : sock[i] \in Node /\ none[i] \in Node \cup {NoNode}
      /\ sock[c] = m
  BY <1>2
<1> HIDE DEF sock, none
<1>6. /\ Good(n, t) /\ Live(t) = Live(srv[n]) \cup {c}
      /\ \A i \in Live(srv[n]) : t.connections[i] = srv[n].connections[i]
      /\ t.established = srv[n].established
      /\ t.connections[c].sock = m
  BY <1>3, <1>5, InitConnectionGood
<1> HIDE DEF t
<1>7. /\ Good(n, s) /\ Live(s) = Live(t) /\ s.established = t.established
      /\ \A i \in Live(t) :
            /\ s.connections[i].sock = t.connections[i].sock
            /\ i # c => s.connections[i] = t.connections[i]
            /\ i = c => s.connections[i].members_sent
  BY <1>6, SendMembersGood
<1> HIDE DEF s, msg
<1>8. h.s = s /\ h.out[c] = <<msg>>
  <2> DEFINE g == [Start(n) EXCEPT !.s = s]
  <2>1. Start(n) \in Hand /\ Start(n).out = [i \in Id |-> <<>>] /\ s \in ServerState
    BY <1>7, StartHandling DEF Handling, Good, Start
  <2>2. g \in Hand /\ g.s = s /\ g.out = [i \in Id |-> <<>>]
    BY <2>1 DEF Hand
  <2>3. h = [g EXCEPT !.out = [i \in Id |-> IF i \in {c} THEN Append(g.out[i], msg)
                                                         ELSE g.out[i]]]
    BY DEF write
  <2> HIDE DEF g
  <2>4. \A i \in Id : Append(g.out[i], msg) = <<msg>>
    BY <2>2
  <2>5. h.s = g.s /\ h.out = [i \in Id |-> IF i \in {c} THEN Append(g.out[i], msg)
                                                         ELSE g.out[i]]
    BY <2>2, <2>3 DEF Hand
  <2> HIDE DEF h
  <2> QED
    BY <1>2, <2>2, <2>4, <2>5
<1> HIDE DEF h
<1>9. inbox \in [Node -> [Id -> Seq(Msg)]] /\ <<msg>> \in Seq(Msg) /\ <<>> \o <<msg>> = <<msg>>
  BY <1>4 DEF IInv, TypeInv
<1>10. /\ \A k \in Node, i \in Id : inbox'[k][i] =
            IF k = m /\ i = c /\ c \in Live(srv[m]) THEN <<msg>> ELSE inbox[k][i]
       /\ inbox' \in [Node -> [Id -> Seq(Msg)]]
  <2>1. CASE c \in Live(srv[m])
    <3>1. inbox' = [inbox EXCEPT ![m][c] = <<msg>>]
      BY <1>1, <1>2, <1>8, <1>9, <2>1
    <3> QED
      BY <1>2, <1>9, <2>1, <3>1
  <2>2. CASE c \notin Live(srv[m])
    BY <1>1, <1>9, <2>2
  <2> QED
    BY <2>1, <2>2
<1>11. /\ \A i \in Live(srv[n]) : s.connections[i] = srv[n].connections[i]
       /\ Sock(s, c) = m /\ Sent(s, c)
       /\ Live(s) = Live(srv[n]) \cup {c} /\ s.established = srv[n].established
  BY <1>2, <1>6, <1>7 DEF Sock, Sent
<1>12. Accepted(n, c, m, s, msg)
  BY <1>1, <1>4, <1>7, <1>8, <1>10, <1>11 DEF Accepted
<1> QED
  BY <1>1, <1>12

LEMMA AcceptIInv ==
    ASSUME IInv, NEW n \in Node, NEW c, NEW m, accept_connection(n, c, m)
    PROVE  IInv' /\ NothingRead
<1>1. PICK s, msg : Accepted(n, c, m, s, msg)
  BY AcceptAccepted
<1>2. /\ c \in Id /\ m \in Node /\ m # n
      /\ \A k \in Node : c \in Live(srv[k]) =>
            k = m /\ Peer(k, c) = n /\ ~Sent(srv[k], c) /\ inbox[k][c] = <<>>
      /\ \A k \in Node : \A f \in backlog[k] : f[1] = c => k = n /\ f = <<c, m>>
  BY AcceptAccepted, WaitingEnd
<1>3. /\ Good(n, s) /\ Live(s) = Live(srv[n]) \cup {c}
      /\ s.established = srv[n].established /\ Sock(s, c) = m /\ Sent(s, c)
      /\ msg \in Msg /\ msg.type = "Members" /\ msg.from = n /\ msg.orset = members[n]
      /\ UNCHANGED <<members, wanted, mail, budget>>
  BY <1>1 DEF Accepted
<1>4. srv'[n] = s /\ \A k \in Node \ {n} : srv'[k] = srv[k]
  BY <1>1 DEF Accepted, IInv, TypeInv
<1>5. \A i \in Live(srv[n]) : /\ Sock(s, i) = Peer(n, i)
                              /\ Sent(s, i) => Sent(srv[n], i)
                              /\ Sent(srv[n], i) => Sent(s, i)
  BY <1>1 DEF Accepted, Sock, Sent, Peer
<1>6. /\ c \notin Live(srv[n]) /\ \A k \in Node \ {m} : c \notin Live(srv[k])
  BY <1>2
<1>7. \A k \in Node, i \in Id : inbox'[k][i] =
         IF k = m /\ i = c /\ c \in Live(srv[m]) THEN <<msg>> ELSE inbox[k][i]
  BY <1>1 DEF Accepted
<1>8. /\ \A k \in Node : Live(srv[k]) \subseteq Id
      /\ backlog \in [Node -> SUBSET (Id \X Node)]
  BY ServerStateFields DEF IInv, TypeInv
<1>9. /\ \A k \in Node : \A e \in backlog'[k] : e \in backlog[k] /\ e[1] # c
      /\ backlog' \in [Node -> SUBSET (Id \X Node)]
  <2>1. backlog' = [backlog EXCEPT ![n] = backlog[n] \ {<<c, m>>}]
    BY <1>1 DEF Accepted
  <2>2. \A k \in Node : backlog'[k] = IF k = n THEN backlog[n] \ {<<c, m>>} ELSE backlog[k]
    BY <1>8, <2>1
  <2> QED
    BY <1>2, <1>8, <2>1, <2>2
<1>10. TypeInv'
  <2>1. srv' \in [Node -> ServerState]
    BY <1>1, <1>3 DEF Accepted, Good, IInv, TypeInv
  <2>2. inbox' \in [Node -> [Id -> Seq(Msg)]]
    BY <1>1 DEF Accepted
  <2> QED
    BY <1>3, <1>9, <2>1, <2>2 DEF IInv, TypeInv
<1>11. (\A k \in Node : Good(k, srv[k]))'
  <2>1. \A k \in Node : Good(k, srv'[k])
    BY <1>3, <1>4 DEF IInv
  <2> QED
    BY <2>1 DEF Good, WheelOK, EstOK, Live
<1>12. PairInv'
  <2> SUFFICES ASSUME NEW k \in Node, NEW i \in Live(srv'[k])
               PROVE  /\ Sock(srv'[k], i) # k
                      /\ \A j \in Node \ {k} : i \in Live(srv'[j]) => Sock(srv'[k], i) = j
    BY DEF PairInv, Peer, Sock, Live
  <2>1. \A j \in Node : \A x \in Live(srv[j]) :
           /\ Sock(srv[j], x) # j
           /\ \A l \in Node \ {j} : x \in Live(srv[l]) => Sock(srv[j], x) = l
    BY DEF IInv, PairInv, Peer, Sock
  <2>2. CASE i = c
    BY <1>2, <1>3, <1>4, <2>2 DEF Peer, Sock
  <2>3. CASE i # c
    <3>1. \A j \in Node : i \in Live(srv'[j]) =>
             i \in Live(srv[j]) /\ Sock(srv'[j], i) = Sock(srv[j], i)
      BY <1>3, <1>4, <1>5, <2>3 DEF Peer, Sock
    <3> QED
      BY <2>1, <3>1
  <2> QED
    BY <2>2, <2>3
<1>13. BacklogInv'
  <2> SUFFICES ASSUME NEW k \in Node, NEW e \in backlog'[k]
               PROVE  /\ e[2] # k
                      /\ \A j \in Node : e[1] \in Live(srv'[j]) =>
                            /\ j = e[2] /\ Sock(srv'[j], e[1]) = k
                            /\ ~Sent(srv'[j], e[1]) /\ inbox'[j][e[1]] = <<>>
                      /\ \A j \in Node : \A f \in backlog'[j] : f[1] = e[1] => j = k /\ f = e
    BY DEF BacklogInv, Peer, Sock, Sent, Live
  <2>1. e \in backlog[k] /\ e[1] # c
    BY <1>9
  <2>2. /\ e[2] # k
        /\ \A j \in Node : e[1] \in Live(srv[j]) =>
              /\ j = e[2] /\ Peer(j, e[1]) = k
              /\ ~Sent(srv[j], e[1]) /\ inbox[j][e[1]] = <<>>
        /\ \A j \in Node : \A f \in backlog[j] : f[1] = e[1] => j = k /\ f = e
    BY <2>1 DEF IInv, BacklogInv
  <2>3. ASSUME NEW j \in Node, e[1] \in Live(srv'[j])
        PROVE  /\ j = e[2] /\ Sock(srv'[j], e[1]) = k
               /\ ~Sent(srv'[j], e[1]) /\ inbox'[j][e[1]] = <<>>
    <3>1. /\ e[1] \in Live(srv[j]) /\ Sock(srv'[j], e[1]) = Peer(j, e[1])
          /\ Sent(srv'[j], e[1]) => Sent(srv[j], e[1])
      BY <1>3, <1>4, <1>5, <2>1, <2>3 DEF Peer, Sock
    <3>2. inbox'[j][e[1]] = inbox[j][e[1]]
      BY <1>7, <1>8, <2>1, <3>1
    <3> QED
      BY <2>2, <3>1, <3>2
  <2> QED
    BY <1>9, <2>2, <2>3
<1>14. \A k \in Node, i \in Id : inbox'[k][i] # inbox[k][i] =>
          /\ k = m /\ i = c /\ c \in Live(srv[m])
          /\ Len(inbox'[k][i]) = 1 /\ inbox'[k][i][1] = msg
  <2>1. Len(<<msg>>) = 1 /\ <<msg>>[1] = msg
    OBVIOUS
  <2> QED
    BY <1>7, <2>1
<1>15. MessagesInv'
  <2> SUFFICES ASSUME NEW k \in Node, NEW i \in Id
               PROVE  /\ i \notin Live(srv'[k]) => inbox'[k][i] = <<>>
                      /\ \A x \in 1 .. Len(inbox'[k][i]) :
                            /\ inbox'[k][i][x].from = Sock(srv'[k], i)
                            /\ inbox'[k][i][x].type = "Members" => x = 1
                      /\ \A j \in Node \ {k} :
                            i \in Live(srv'[j]) /\ i \in Live(srv'[k]) /\ ~Sent(srv'[j], i)
                               => inbox'[k][i] = <<>>
    BY DEF MessagesInv, Peer, Sock, Sent, Live
  <2>1. /\ i \notin Live(srv[k]) => inbox[k][i] = <<>>
        /\ \A x \in 1 .. Len(inbox[k][i]) :
              /\ inbox[k][i][x].from = Peer(k, i)
              /\ inbox[k][i][x].type = "Members" => x = 1
        /\ \A j \in Node \ {k} :
              i \in Live(srv[j]) /\ i \in Live(srv[k]) /\ ~Sent(srv[j], i)
                 => inbox[k][i] = <<>>
    BY DEF IInv, MessagesInv
  <2>2. CASE inbox'[k][i] # inbox[k][i]
    <3>1. /\ k = m /\ i = c /\ c \in Live(srv[m]) /\ m # n
          /\ Len(inbox'[k][i]) = 1 /\ inbox'[k][i][1] = msg
      BY <1>2, <1>14, <2>2
    <3>2. k # n /\ srv'[k] = srv[k] /\ Sock(srv'[k], i) = n /\ i \in Live(srv'[k])
      BY <1>2, <1>4, <3>1 DEF Peer, Sock
    <3>3. \A x \in 1 .. Len(inbox'[k][i]) : x = 1
      BY <3>1
    <3>4. \A j \in Node \ {k} : i \in Live(srv'[j]) => Sent(srv'[j], i)
      BY <1>3, <1>4, <1>6, <3>1
    <3> QED
      BY <1>3, <3>1, <3>2, <3>3, <3>4
  <2>3. CASE inbox'[k][i] = inbox[k][i]
    <3>1. Live(srv[k]) \subseteq Live(srv'[k])
      BY <1>3, <1>4
    <3>2. inbox[k][i] # <<>> => i \in Live(srv[k]) /\ Sock(srv'[k], i) = Peer(k, i)
      BY <1>4, <1>5, <2>1 DEF Peer, Sock
    <3>3. ASSUME NEW x \in 1 .. Len(inbox[k][i])
          PROVE  inbox[k][i] # <<>>
      <4>1. Len(<<>>) = 0
        OBVIOUS
      <4> QED
        BY <4>1
    <3>4. \A j \in Node \ {k} : i \in Live(srv'[j]) /\ ~Sent(srv'[j], i)
                                  => i \in Live(srv[j]) /\ ~Sent(srv[j], i)
      BY <1>3, <1>4, <1>5
    <3> QED
      BY <2>1, <2>3, <3>1, <3>2, <3>3, <3>4
  <2> QED
    BY <2>2, <2>3
<1>16. DotsInv'
  <2>1. ASSUME NEW k \in Node, NEW i \in Id, NEW x \in 1 .. Len(inbox'[k][i]),
               inbox'[k][i][x].type # "Envelope", NEW a \in Node
        PROVE  Own(a, inbox'[k][i][x].orset) \subseteq members[a].add
    <3>1. CASE inbox'[k][i] = inbox[k][i]
      BY <2>1, <3>1 DEF IInv, DotsInv
    <3>2. CASE inbox'[k][i] # inbox[k][i]
      <4>1. x = 1 /\ inbox'[k][i][x] = msg
        <5>1. Len(inbox'[k][i]) = 1 /\ inbox'[k][i][1] = msg
          BY <1>14, <3>2
        <5>2. x \in 1 .. 1
          BY <5>1
        <5> QED
          BY <5>1, <5>2
      <4> QED
        BY <1>3, <4>1 DEF IInv, DotsInv
    <3> QED
      BY <3>1, <3>2
  <2> QED
    BY <1>3, <2>1 DEF IInv, DotsInv, Own
<1>17. SettledInv'
  <2> DEFINE G(k) == {i \in Live(srv'[k]) : /\ i \in Live(srv'[Sock(srv'[k], i)])
                                            /\ Sent(srv'[Sock(srv'[k], i)], i)
                                            /\ MembersRead(inbox'[k][i])}
  <2> SUFFICES ASSUME NEW k \in Node
               PROVE  SingleOK(srv'[k], G(k))
    BY DEF SettledInv, SingleOK, Greeted, Sock, Sent, Live, MembersRead
  <2>1. ASSUME NEW i \in G(k)
        PROVE  i \in Greeted(srv[k], inbox[k])
    <3> DEFINE p == Sock(srv'[k], i)
    <3>1. /\ i \in Live(srv'[k]) /\ i \in Live(srv'[p]) /\ Sent(srv'[p], i)
          /\ MembersRead(inbox'[k][i])
      BY <2>1
    <3>2. p \in Node
      BY <3>1, <1>10, ServerStateFields DEF TypeInv, Conn, Sock, Live
    <3> HIDE DEF G
    <3>3. i # c
      <4> SUFFICES ASSUME i = c PROVE FALSE
        OBVIOUS
      <4>1. CASE k = n
        <5>1. p = m /\ m # n /\ srv'[m] = srv[m]
          BY <1>2, <1>3, <1>4, <4>1
        <5> QED
          BY <1>2, <3>1, <5>1
      <4>2. CASE k # n
        <5>1. k = m /\ c \in Live(srv[m]) /\ srv'[k] = srv[k]
          BY <1>2, <1>4, <3>1, <4>2
        <5>2. inbox'[k][i] = <<msg>> /\ <<msg>> # <<>> /\ <<msg>>[1] = msg
          BY <1>2, <1>7, <5>1
        <5> QED
          BY <1>3, <3>1, <5>2 DEF MembersRead
      <4> QED
        BY <4>1, <4>2
    <3>4. i \in Live(srv[k]) /\ p = Sock(srv[k], i)
      BY <1>3, <1>4, <1>5, <3>1, <3>3 DEF Peer, Sock
    <3> HIDE DEF p
    <3>5. i \in Live(srv[p]) /\ Sent(srv[p], i)
      BY <1>3, <1>4, <1>5, <3>1, <3>2, <3>3
    <3>6. MembersRead(inbox[k][i])
      BY <1>7, <1>8, <3>1, <3>3, <3>4
    <3> QED
      BY <3>4, <3>5, <3>6 DEF Greeted
  <2>2. SingleOK(srv[k], Greeted(srv[k], inbox[k]))
    BY DEF IInv, SettledInv
  <2>3. \A i \in Live(srv[k]) : /\ i \in Live(srv'[k])
                                /\ srv'[k].connections[i].sock = srv[k].connections[i].sock
    BY <1>3, <1>4, <1>5 DEF Peer, Sock
  <2>4. srv'[k].established = srv[k].established
    BY <1>3, <1>4
  <2> HIDE DEF G
  <2> QED
    BY <2>1, <2>2, <2>3, <2>4 DEF SingleOK, Greeted
<1>18. NothingRead
  <2> SUFFICES ASSUME NEW k \in Node, NEW i \in Live(srv[k])
               PROVE  Len(inbox[k][i]) <= Len(inbox'[k][i])
    BY DEF NothingRead
  <2>1. i \in Id /\ Len(<<>>) = 0
    BY <1>8
  <2>2. inbox[k][i] \in Seq(Msg)
    BY <2>1 DEF IInv, TypeInv
  <2>3. Len(inbox[k][i]) \in Nat
    BY <2>2
  <2>4. CASE inbox'[k][i] = inbox[k][i]
    BY <2>3, <2>4
  <2>5. CASE inbox'[k][i] # inbox[k][i]
    <3>1. k = m /\ i = c /\ c \in Live(srv[m]) /\ Len(inbox'[k][i]) = 1
      BY <1>14, <2>1, <2>5
    <3>2. inbox[k][i] = <<>>
      BY <1>2, <3>1
    <3> QED
      BY <2>1, <3>1, <3>2
  <2> QED
    BY <2>4, <2>5
<1> QED
  BY <1>18, <1>10, <1>11, <1>12, <1>13, <1>15, <1>16, <1>17 DEF IInv

-----------------------------------------------------------------------------
(* The theorems.                                                           *)

LEMMA InitIInv ==
    ASSUME Init
    PROVE  IInv
<1>1. /\ MaxJoins \in Nat /\ MaxLeaves \in Nat /\ MaxTimeouts \in Nat
  BY MeshAssumption
<1>2. /\ \A n \in Node : srv[n] = ServerNew(n) /\ Good(n, srv[n]) /\ Live(srv[n]) = {}
      /\ srv = [n \in Node |-> ServerNew(n)]
  BY ServerNewGood DEF Init, ServerNew, Live
<1>3. \A n \in Node : /\ members[n] \in ORSet /\ Own(n, members[n]) = {<<n, n, 1>>}
                      /\ \A a \in Node \ {n} : Own(a, members[n]) = {}
  <2> SUFFICES ASSUME NEW n \in Node
               PROVE  /\ MembersNew(n) \in ORSet /\ Own(n, MembersNew(n)) = {<<n, n, 1>>}
                      /\ \A a \in Node \ {n} : Own(a, MembersNew(n)) = {}
    BY DEF Init
  <2>1. <<n, n, 1>> \in Dot /\ <<n, n, 1>>[2] = n
    BY <1>1 DEF Dot
  <2> DEFINE x == <<n, n, 1>>
  <2>2. x \in Dot /\ x[2] = n /\ MembersNew(n) = [add |-> {x}, rem |-> {}]
    BY <2>1 DEF MembersNew
  <2> HIDE DEF x
  <2>3. MembersNew(n) \in ORSet /\ MembersNew(n).add = {x}
    BY <2>2 DEF ORSet
  <2> QED
    BY <2>2, <2>3 DEF Own, x
<1>4. \A n \in Node : Cardinality(Own(n, members[n])) = 1
  BY <1>3, FS_Singleton
<1>5. \A n \in Node, c \in Id : inbox[n][c] = <<>> /\ Len(inbox[n][c]) = 0
  BY DEF Init
<1>6. TypeInv
  <2>1. members \in [Node -> ORSet]
    BY <1>3 DEF Init
  <2>2. srv \in [Node -> ServerState]
    BY <1>2 DEF Good
  <2>3. inbox \in [Node -> [Id -> Seq(Msg)]] /\ backlog \in [Node -> SUBSET (Id \X Node)]
    BY DEF Init
  <2>4. mail \in [1 .. MaxSends -> [fate : Fate, on : SUBSET Id]]
    BY DEF Init, Fate
  <2>5. wanted \subseteq Node \X Node /\ budget \in [joins : Nat, leaves : Nat, timeouts : Nat]
    BY <1>1 DEF Init
  <2> QED
    BY <2>1, <2>2, <2>3, <2>4, <2>5 DEF TypeInv
<1>7. PairInv /\ BacklogInv
  BY <1>2 DEF PairInv, BacklogInv, Init
<1>8. MessagesInv
  BY <1>2, <1>5 DEF MessagesInv
<1>9. DotsInv
  <2>1. \A n \in Node, a \in Node : Own(a, members[n]) \subseteq members[a].add
    BY <1>3 DEF Own
  <2>2. budget.joins = MaxJoins
    BY DEF Init
  <2>3. \A n \in Node : Cardinality(Own(n, members[n])) + budget.joins <= MaxJoins + 1
    BY <1>1, <1>4, <2>2
  <2> QED
    BY <1>5, <2>1, <2>3 DEF DotsInv
<1>10. SettledInv
  BY <1>2 DEF SettledInv, SingleOK, Greeted
<1> QED
  BY <1>2, <1>6, <1>7, <1>8, <1>9, <1>10 DEF IInv

LEMMA NextIInv ==
    ASSUME IInv, [Next]_vars
    PROVE  IInv'
<1>1. CASE Next
  <2>1. PICK n \in Node :
          \/ \E m \in Node : \/ join(n, m) \/ leave(n, m)
                             \/ \E k \in 1 .. MaxSends : send_remote(n, m, k)
          \/ \E e \in backlog[n] : accept_connection(n, e[1], e[2])
          \/ Receive(n)
          \/ \E expired \in SUBSET Live(srv[n]) : tick(n, expired)
    BY <1>1 DEF Next
  <2>2. ASSUME NEW m \in Node, join(n, m) \/ leave(n, m)
        PROVE  IInv'
    BY <2>2, JoinIInv, LeaveIInv
  <2>3. ASSUME NEW m \in Node, NEW k \in 1 .. MaxSends, send_remote(n, m, k)
        PROVE  IInv'
    BY <2>3, SendRemoteIInv
  <2>4. ASSUME NEW e \in backlog[n], accept_connection(n, e[1], e[2])
        PROVE  IInv'
    BY <2>4, AcceptIInv
  <2>5. CASE Receive(n)
    <3>1. ASSUME NEW c \in Id, ReadUnsent(n, c) \/ PeerClosed(n, c)
          PROVE  IInv'
      BY <3>1, ReadUnsentIInv, PeerClosedIInv
    <3>2. ASSUME NEW c \in Id, NEW k \in 1 .. Len(inbox[n][c]), Read(n, c, k)
          PROVE  IInv'
      BY <3>2, ReadIInv
    <3> QED
      BY <2>5, <3>1, <3>2 DEF Receive
  <2>6. ASSUME NEW expired \in SUBSET Live(srv[n]), tick(n, expired)
        PROVE  IInv'
    BY <2>6, TickIInv
  <2> QED
    BY <2>1, <2>2, <2>3, <2>4, <2>5, <2>6
<1>2. CASE UNCHANGED vars
  <2>1. /\ UNCHANGED <<members, srv, inbox, backlog, wanted, budget>>
        /\ mail' \in [1 .. MaxSends -> [fate : Fate, on : SUBSET Id]]
    BY <1>2 DEF vars, IInv, TypeInv
  <2> QED
    BY <2>1, SameIInv
<1> QED
  BY <1>1, <1>2

LEMMA Invariance == Spec => []IInv
<1> QED
  BY InitIInv, NextIInv, PTL DEF Spec

(* Members stay ORSets of dots within the bounds, every server's state and *)
(* everything on a socket stays what its fields say, whatever the nodes    *)
(* join, leave, send, close or time out.                                   *)
THEOREM TypeCorrectness == Spec => []TypeOK
<1>1. IInv => TypeOK
  <2> SUFFICES ASSUME IInv PROVE TypeOK
    OBVIOUS
  <2>1. \A n \in Node : srv[n] \in ServerState /\ srv[n].node = n
    BY DEF IInv, Good
  <2>2. \A n \in Node, c \in Id : \A k \in DOMAIN inbox[n][c] : inbox[n][c][k] \in Msg
    <3>1. \A n \in Node, c \in Id : inbox[n][c] \in Seq(Msg)
      BY DEF IInv, TypeInv
    <3> QED
      BY <3>1
  <2>3. DOMAIN budget = {"joins", "leaves", "timeouts"}
    BY DEF IInv, TypeInv
  <2> QED
    BY <2>1, <2>2, <2>3 DEF IInv, TypeInv, TypeOK
<1> QED
  BY <1>1, Invariance, PTL

(* choose_connection_to_close and close, run at both ends from what each   *)
(* has seen, leave no established connection that the other end does not   *)
(* have, or has as another one, once nothing is under way: for any number  *)
(* of nodes that dial each other, leave, crash a socket or time out.       *)
THEOREM EndsAgreeWhenQuiet == Spec => []EndsAgree
<1>1. IInv => EndsAgree
  <2> SUFFICES ASSUME IInv, Quiet, NEW n \in Node, NEW m \in DOMAIN Established(n)
               PROVE  Connected(n, m)
    BY DEF EndsAgree
  <2> DEFINE c == Established(n)[m]
  <2>1. /\ m \in Node /\ c \in Live(srv[n]) /\ c \in Id /\ Peer(n, c) = m
        /\ Sent(srv[n], c)
        /\ PeerGone(n, c) \/ (c \in Live(srv[m]) /\ Peer(m, c) = n)
    BY EstablishedEnd
  <2>2. Gone(n) = {} /\ inbox[m][c] = <<>>
    BY <2>1 DEF Quiet
  <2> HIDE DEF c
  <2>3. c \in Live(srv[m]) /\ Sock(srv[m], c) = n
    BY <2>1, <2>2 DEF Gone, Peer, Sock
  <2>4. c \in Greeted(srv[m], inbox[m])
    BY <2>1, <2>2, <2>3 DEF Greeted, MembersRead
  <2>5. n \in DOMAIN Established(m) /\ Established(m)[n] = c
    BY <2>1, <2>3, <2>4 DEF IInv, SettledInv, SingleOK, Sock, Established
  <2> QED
    BY <2>5 DEF Connected, c
<1> QED
  BY <1>1, Invariance, PTL

(* The body of ReadLossIsBounded.                                          *)
LossBounded ==
    \A n \in Node : \A c \in Live(srv[n]) \cap Live(srv'[n]) :
         \A k \in 1 .. Len(inbox[n][c]) - Len(inbox'[n][c]) :
            \/ Applies(n, inbox[n][c][k])
            \/ /\ inbox[n][c][k].type # "Members"
               /\ Gone(n) \ Live(srv'[n]) # {}
               /\ \E j \in 1 .. k - 1 :
                     /\ inbox[n][c][j].type = "Delta"
                     /\ \A i \in 1 .. j : Applies(n, inbox[n][c][i])

LEMMA NothingReadBounded ==
    ASSUME IInv, IInv', NothingRead
    PROVE  LossBounded
<1>1. \A n \in Node : \A c \in Live(srv[n]) :
         Len(inbox[n][c]) \in Nat /\ Len(inbox'[n][c]) \in Nat
  <2> SUFFICES ASSUME NEW n \in Node, NEW c \in Live(srv[n])
               PROVE  Len(inbox[n][c]) \in Nat /\ Len(inbox'[n][c]) \in Nat
    OBVIOUS
  <2>1. c \in Id
    BY ServerStateFields DEF IInv, TypeInv
  <2>2. inbox[n][c] \in Seq(Msg) /\ inbox'[n][c] \in Seq(Msg)
    BY <2>1 DEF IInv, TypeInv
  <2> QED
    BY <2>2
<1>2. ASSUME NEW n \in Node, NEW c \in Live(srv[n]) \cap Live(srv'[n]),
             NEW k \in 1 .. Len(inbox[n][c]) - Len(inbox'[n][c])
      PROVE  FALSE
  <2>1. /\ Len(inbox[n][c]) <= Len(inbox'[n][c])
        /\ Len(inbox[n][c]) \in Nat /\ Len(inbox'[n][c]) \in Nat
    BY <1>1 DEF NothingRead
  <2> QED
    BY <2>1
<1> QED
  BY <1>2 DEF LossBounded

(* What the handler has applied is what the step leaves.                   *)
LEMMA AppliedApplies ==
    ASSUME IInv, NEW n \in Node, NEW h \in Hand, members'[n] = h.o,
           \A e \in 1 .. MaxSends : e \in h.got => mail'[e].fate = "delivered",
           NEW msg \in Msg, Applied(h, msg)
    PROVE  Applies(n, msg)
<1>1. msg.type = "Envelope" => mail'[msg.envelope].fate = "delivered"
  BY DEF Applied, Msg
<1>2. msg.type # "Envelope" => Merge(members'[n], msg.orset) = members'[n]
  <2> SUFFICES ASSUME msg.type # "Envelope"
               PROVE  Merge(h.o, msg.orset) = h.o
    OBVIOUS
  <2>1. /\ msg.orset.add \subseteq h.o.add /\ msg.orset.rem \subseteq h.o.rem
    BY DEF Applied
  <2>2. h.o = [add |-> h.o.add, rem |-> h.o.rem]
    BY DEF Hand, ORSet
  <2>3. h.o.add \cup msg.orset.add = h.o.add /\ h.o.rem \cup msg.orset.rem = h.o.rem
    BY <2>1
  <2>4. Merge(h.o, msg.orset) = [add |-> h.o.add, rem |-> h.o.rem]
    BY <2>3 DEF Merge
  <2> QED
    BY <2>2, <2>4
<1> QED
  BY <1>1, <1>2 DEF Applies

LEMMA ReadBounded ==
    ASSUME IInv, IInv', NEW n \in Node, NEW c \in Id,
           NEW k \in 1 .. Len(inbox[n][c]), Read(n, c, k)
    PROVE  LossBounded
<1> DEFINE left == Rest(n, c, k)
<1>1. c \in Live(srv[n]) /\ Sent(srv[n], c) /\ ReadsOnly(n, left)
  BY ReadIInv DEF Read, Sent
<1>2. PICK h \in HandleFirst(n, c, k) : Commit(n, h, left)
  BY DEF Read, Rest
<1>3. /\ Progress(n, h, inbox[n][c], k) /\ h \in Hand
      /\ \A i \in Id : i # c => left[i] = inbox[n][i]
  BY <1>1, <1>2, HandleFirstGoing, RestFacts DEF Going, Handling
<1>4. /\ members' = [members EXCEPT ![n] = h.o]
      /\ srv' = [srv EXCEPT ![n] = close(h.s, h.errs)]
      /\ \A e \in DOMAIN mail : e \in h.got => mail'[e].fate = "delivered"
  BY <1>2 DEF Commit
<1>5. /\ members'[n] = h.o /\ srv'[n] = close(h.s, h.errs)
      /\ DOMAIN mail = 1 .. MaxSends
  BY <1>4 DEF IInv, TypeInv
<1> SUFFICES ASSUME NEW m \in Node, NEW i \in Live(srv[m]) \cap Live(srv'[m]),
                    NEW j \in 1 .. Len(inbox[m][i]) - Len(inbox'[m][i]),
                    ~Applies(m, inbox[m][i][j])
             PROVE  /\ inbox[m][i][j].type # "Members"
                    /\ Gone(m) \ Live(srv'[m]) # {}
                    /\ \E x \in 1 .. j - 1 :
                          /\ inbox[m][i][x].type = "Delta"
                          /\ \A y \in 1 .. x : Applies(m, inbox[m][i][y])
  BY DEF LossBounded
<1>6. i \in Id
  BY ServerStateFields DEF IInv, TypeInv
<1>7. inbox[m][i] \in Seq(Msg) /\ inbox'[m][i] \in Seq(Msg)
  BY <1>6 DEF IInv, TypeInv
<1>8. Len(inbox[m][i]) \in Nat /\ Len(inbox'[m][i]) \in Nat
  BY <1>7
<1>9. m = n /\ inbox'[m][i] = left[i] /\ ~(Len(inbox[m][i]) <= Len(inbox'[m][i]))
  BY <1>1, <1>8 DEF ReadsOnly
<1>10. i = c
  BY <1>3, <1>6, <1>8, <1>9
<1>11. inbox[n] \in [Id -> Seq(Msg)] /\ k \in 1 .. Len(inbox[n][c])
  BY DEF IInv, TypeInv
<1>12. Len(left[c]) = Len(inbox[n][c]) - k
  <2> DEFINE q == inbox[n][c]
  <2>1. left[c] = SubSeq(q, k + 1, Len(q))
    BY <1>11 DEF Rest
  <2>2. q \in Seq(Msg) /\ Len(q) \in Nat /\ k \in 1 .. Len(q)
    BY <1>11
  <2> HIDE DEF q, left
  <2>3. Len(SubSeq(q, k + 1, Len(q))) = Len(q) - k
    BY <2>2
  <2> QED
    BY <2>1, <2>3 DEF q
<1>13. j \in 1 .. k /\ j \in 1 .. Len(inbox[n][c])
  BY <1>8, <1>9, <1>10, <1>12
<1>14. \A msg \in Msg : Applied(h, msg) => Applies(n, msg)
  BY <1>3, <1>4, <1>5, AppliedApplies
<1> DEFINE q == inbox[n][c]
<1>15. /\ q \in Seq(Msg) /\ Len(q) \in Nat /\ \A x \in 1 .. k : x \in 1 .. Len(q) /\ q[x] \in Msg
  <2>1. q \in Seq(Msg) /\ Len(q) \in Nat /\ k \in 1 .. Len(q)
    BY <1>11
  <2> HIDE DEF q
  <2> QED
    BY <2>1
<1>16. ~Applies(n, q[j])
  BY <1>9, <1>10
<1>17. q[j].type = "Members" => j = 1
  BY <1>13 DEF IInv, MessagesInv
<1> HIDE DEF q
<1>18. h.stop
  BY <1>3, <1>13, <1>14, <1>15, <1>16 DEF Progress, AllApplied, q
<1>19. PICK x \in 1 .. k : q[x].type = "Delta" /\ AllApplied(h, q, x)
  BY <1>3, <1>18 DEF Progress, q
<1>20. \A y \in 1 .. x : y \in 1 .. k /\ Applies(n, q[y])
  BY <1>14, <1>15, <1>19 DEF AllApplied
<1>21. x \in 1 .. j - 1
  BY <1>13, <1>16, <1>20
<1>22. Gone(n) \ Live(srv'[n]) # {}
  <2>1. h.errs \cap Gone(n) # {}
    BY <1>3, <1>18 DEF Progress, GaveUp
  <2>2. \A y \in h.errs : y \notin Live(srv'[n])
    BY <1>5 DEF close, Without, Live
  <2> QED
    BY <2>1, <2>2
<1>23. q[j].type # "Members"
  BY <1>17, <1>21
<1> QED
  BY <1>9, <1>10, <1>19, <1>20, <1>21, <1>22, <1>23 DEF q

(* A read that an error of broadcast_delta ends early loses only messages   *)
(* behind the delta that was being passed on: that one and all before it   *)
(* have been merged or handed to the executor, the connection to the peer  *)
(* that is gone is closed, and the peer's Members are never among what is  *)
(* lost, however many messages the read brings and whichever of them close *)
(* and dial connections.  With no such error nothing is lost.              *)
THEOREM ReadLossBounded == Spec => ReadLossIsBounded
<1>1. ASSUME IInv, [Next]_vars
      PROVE  [LossBounded]_vars
  <2>1. IInv'
    BY <1>1, NextIInv
  <2> SUFFICES ASSUME Next
               PROVE  LossBounded
    BY <1>1
  <2>2. PICK n \in Node :
          \/ \E m \in Node : \/ join(n, m) \/ leave(n, m)
                             \/ \E k \in 1 .. MaxSends : send_remote(n, m, k)
          \/ \E e \in backlog[n] : accept_connection(n, e[1], e[2])
          \/ Receive(n)
          \/ \E expired \in SUBSET Live(srv[n]) : tick(n, expired)
    BY DEF Next
  <2>3. ASSUME NEW m \in Node, join(n, m) \/ leave(n, m)
        PROVE  NothingRead
    BY <1>1, <2>3, JoinIInv, LeaveIInv
  <2>4. ASSUME NEW m \in Node, NEW k \in 1 .. MaxSends, send_remote(n, m, k)
        PROVE  NothingRead
    BY <1>1, <2>4, SendRemoteIInv
  <2>5. ASSUME NEW e \in backlog[n], accept_connection(n, e[1], e[2])
        PROVE  NothingRead
    BY <1>1, <2>5, AcceptIInv
  <2>6. ASSUME NEW c \in Id, ReadUnsent(n, c) \/ PeerClosed(n, c)
        PROVE  NothingRead
    BY <1>1, <2>6, ReadUnsentIInv, PeerClosedIInv
  <2>7. ASSUME NEW expired \in SUBSET Live(srv[n]), tick(n, expired)
        PROVE  NothingRead
    BY <1>1, <2>7, TickIInv
  <2>8. ASSUME NEW c \in Id, NEW k \in 1 .. Len(inbox[n][c]), Read(n, c, k)
        PROVE  LossBounded
    BY <1>1, <2>1, <2>8, ReadBounded
  <2>9. CASE NothingRead
    BY <1>1, <2>1, <2>9, NothingReadBounded
  <2> QED
    BY <2>2, <2>3, <2>4, <2>5, <2>6, <2>7, <2>8, <2>9 DEF Receive
<1>2. [][LossBounded]_vars => ReadLossIsBounded
  BY DEF LossBounded, ReadLossIsBounded
<1> QED
  BY <1>1, <1>2, Invariance, PTL DEF Spec
=============================================================================
