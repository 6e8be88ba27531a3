----------------------------- MODULE LibraryProofs -----------------------------
(***************************************************************************)
(* The library's string patterns and files, which share no state.          *)
(*                                                                         *)
(* Patterns: whatever program the machine runs, it stays inside of it, and *)
(* each attempt ends with the match that the order of the branches         *)
(* prefers, or says rightly that there is none; what Find has found is     *)
(* what the pattern means.                                                 *)
(*                                                                         *)
(* Files: for any number of handles and every size of the buffers, as long *)
(* as programs neither write where a handle has read ahead nor move it     *)
(* while it holds something back, a file behind its buffers is a text, and *)
(* what is read of it is what it holds.                                    *)
(***************************************************************************)
EXTENDS PatternWays, IoFile, SequenceTheorems, WellFoundedInduction, TLAPS

-----------------------------------------------------------------------------
(* Ways through a game. *)

LEMMA WayFrom ==
  ASSUME NEW g, NEW c \in Squares(g), IsMatch(g, c)
  PROVE  Accepts(g, c) /\ Ends(g, c, c)
  <1> DEFINE w == <<c>>
  <1>1. w \in Seq(Squares(g)) /\ w # << >> /\ Len(w) = 1 /\ w[1] = c
    OBVIOUS
  <1> HIDE DEF w
  <1>2. 1 .. Len(w) - 1 = {} /\ IsMatch(g, w[Len(w)])
    BY <1>1
  <1>3. w \in Ways(g, c)
    BY <1>1, <1>2 DEF Ways
  <1>4. \A n \in 1 .. Len(w) - 1 : Prefers(g, w[n], w[n + 1])
    BY <1>1
  <1>5. c = w[Len(w)]
    BY <1>1
  <1> QED
    BY <1>3, <1>4, <1>5 DEF Accepts, Ends

(* A way goes on from a place as from one that follows it. *)
LEMMA WayOn ==
  ASSUME NEW g, NEW c \in Squares(g), NEW k \in DOMAIN Follows(g, c), NEW w \in Ways(g, Follows(g, c)[k])
  PROVE  /\ <<c>> \o w \in Ways(g, c)
         /\ (<<c>> \o w)[Len(<<c>> \o w)] = w[Len(w)]
         /\ Len(<<c>> \o w) = Len(w) + 1
         /\ (<<c>> \o w)[1] = c
         /\ \A n \in 1 .. Len(w) : (<<c>> \o w)[n + 1] = w[n]
         /\ Len(w) \in Nat \ {0} /\ w[1] = Follows(g, c)[k]
  <1> DEFINE d == Follows(g, c)[k]
             v == <<c>> \o w
  <1>1. /\ w \in Seq(Squares(g)) /\ w # << >> /\ w[1] = d /\ IsMatch(g, w[Len(w)])
        /\ \A n \in 1 .. Len(w) - 1 : \E j \in DOMAIN Follows(g, w[n]) : w[n + 1] = Follows(g, w[n])[j]
    BY DEF Ways
  <1>2. Len(w) \in Nat \ {0}
    BY <1>1
  <1>3. /\ v \in Seq(Squares(g)) /\ Len(v) = Len(w) + 1 /\ v[1] = c
        /\ \A n \in 1 .. Len(w) : v[n + 1] = w[n]
    BY <1>1
  <1>4. ASSUME NEW n \in 1 .. Len(v) - 1 PROVE \E j \in DOMAIN Follows(g, v[n]) : v[n + 1] = Follows(g, v[n])[j]
    <2>1. CASE n = 1
      <3>1. v[n] = c /\ v[n + 1] = d
        BY <1>1, <1>2, <1>3, <2>1
      <3> QED
        BY <3>1
    <2>2. CASE n # 1
      <3>1. n - 1 \in 1 .. Len(w) - 1 /\ (n - 1) + 1 = n /\ n \in 1 .. Len(w)
        BY <1>2, <1>3, <2>2
      <3>2. v[n] = w[n - 1] /\ v[n + 1] = w[n]
        BY <1>3, <3>1
      <3>3. \E j \in DOMAIN Follows(g, w[n - 1]) : w[n] = Follows(g, w[n - 1])[j]
        BY <1>1, <3>1
      <3> QED
        BY <3>2, <3>3
    <2> QED
      BY <2>1, <2>2
  <1>5. v # << >> /\ v[Len(v)] = w[Len(w)]
    BY <1>2, <1>3
  <1> HIDE DEF v
  <1>6. v \in Ways(g, c)
    BY <1>1, <1>3, <1>4, <1>5 DEF Ways
  <1> QED
    BY <1>1, <1>2, <1>3, <1>5, <1>6 DEF v

LEMMA AcceptsOn ==
  ASSUME NEW g, NEW c \in Squares(g), NEW k \in DOMAIN Follows(g, c), Accepts(g, Follows(g, c)[k])
  PROVE  Accepts(g, c)
  <1>1. PICK w \in Ways(g, Follows(g, c)[k]) : TRUE
    BY DEF Accepts
  <1>2. <<c>> \o w \in Ways(g, c)
    BY WayOn
  <1> QED
    BY <1>2 DEF Accepts

LEMMA EndsOn ==
  ASSUME NEW g, NEW c \in Squares(g), NEW k \in DOMAIN Follows(g, c), NEW e,
         Ends(g, Follows(g, c)[k], e), \A j \in 1 .. k - 1 : ~Accepts(g, Follows(g, c)[j])
  PROVE  Ends(g, c, e)
  <1>1. PICK w \in Ways(g, Follows(g, c)[k]) :
          e = w[Len(w)] /\ \A n \in 1 .. Len(w) - 1 : Prefers(g, w[n], w[n + 1])
    BY DEF Ends
  <1> DEFINE v == <<c>> \o w
  <1>2. /\ v \in Ways(g, c) /\ v[Len(v)] = w[Len(w)] /\ Len(v) = Len(w) + 1 /\ v[1] = c
        /\ \A n \in 1 .. Len(w) : v[n + 1] = w[n]
        /\ Len(w) \in Nat \ {0} /\ w[1] = Follows(g, c)[k]
    BY WayOn
  <1> HIDE DEF v
  <1>3. ASSUME NEW n \in 1 .. Len(v) - 1 PROVE Prefers(g, v[n], v[n + 1])
    <2>1. CASE n = 1
      <3>1. v[n] = c /\ v[n + 1] = Follows(g, c)[k]
        BY <1>2, <2>1
      <3> QED
        BY <3>1 DEF Prefers
    <2>2. CASE n # 1
      <3>1. n - 1 \in 1 .. Len(w) - 1 /\ (n - 1) + 1 = n /\ n \in 1 .. Len(w)
        BY <1>2, <2>2
      <3>2. v[n] = w[n - 1] /\ v[n + 1] = w[n]
        BY <1>2, <3>1
      <3> QED
        BY <1>1, <3>1, <3>2
    <2> QED
      BY <2>1, <2>2
  <1> QED
    BY <1>1, <1>2, <1>3 DEF Ends

LEMMA EndsAccepts ==
  ASSUME NEW g, NEW c, NEW e, Ends(g, c, e)
  PROVE  Accepts(g, c) /\ e \in Squares(g) /\ IsMatch(g, e)
  <1>1. PICK w \in Ways(g, c) : e = w[Len(w)]
    BY DEF Ends
  <1>2. w \in Seq(Squares(g)) /\ w # << >> /\ IsMatch(g, w[Len(w)])
    BY DEF Ways
  <1>3. w[Len(w)] \in Squares(g)
    BY <1>2
  <1> QED
    BY <1>1, <1>2, <1>3 DEF Accepts

(* A place that is no match has a way only through one that follows it. *)
LEMMA AcceptsThrough ==
  ASSUME NEW g, NEW c, Accepts(g, c), ~IsMatch(g, c)
  PROVE  \E k \in DOMAIN Follows(g, c) : Accepts(g, Follows(g, c)[k])
  <1>1. PICK w \in Ways(g, c) : TRUE
    BY DEF Accepts
  <1>2. /\ w \in Seq(Squares(g)) /\ w # << >> /\ w[1] = c /\ IsMatch(g, w[Len(w)])
        /\ \A n \in 1 .. Len(w) - 1 : \E k \in DOMAIN Follows(g, w[n]) : w[n + 1] = Follows(g, w[n])[k]
    BY DEF Ways
  <1>3. Len(w) \in Nat /\ Len(w) >= 2
    <2>1. Len(w) # 1
      BY <1>2
    <2>2. Len(w) \in Nat /\ Len(w) # 0
      BY <1>2
    <2> QED
      BY <2>1, <2>2
  <1>4. PICK k \in DOMAIN Follows(g, c) : w[2] = Follows(g, c)[k]
    <2>1. 1 \in 1 .. Len(w) - 1
      BY <1>3
    <2>2. \E k \in DOMAIN Follows(g, w[1]) : w[1 + 1] = Follows(g, w[1])[k]
      BY <1>2, <2>1
    <2> QED
      BY <1>2, <2>2
  <1> DEFINE v == Tail(w)
  <1>5. v \in Seq(Squares(g)) /\ Len(v) = Len(w) - 1 /\ \A n \in 1 .. Len(w) - 1 : v[n] = w[n + 1]
    BY <1>2, <1>3
  <1> HIDE DEF v
  <1>6. v # << >> /\ v[1] = w[2] /\ v[Len(v)] = w[Len(w)]
    BY <1>3, <1>5
  <1>7. ASSUME NEW n \in 1 .. Len(v) - 1 PROVE \E j \in DOMAIN Follows(g, v[n]) : v[n + 1] = Follows(g, v[n])[j]
    <2>1. n + 1 \in 1 .. Len(w) - 1 /\ n \in 1 .. Len(w) - 1
      BY <1>3, <1>5
    <2>2. v[n] = w[n + 1] /\ v[n + 1] = w[(n + 1) + 1]
      BY <1>5, <2>1
    <2>3. \E j \in DOMAIN Follows(g, w[n + 1]) : w[(n + 1) + 1] = Follows(g, w[n + 1])[j]
      BY <1>2, <2>1
    <2> QED
      BY <2>2, <2>3
  <1>8. v \in Ways(g, w[2])
    BY <1>2, <1>5, <1>6, <1>7 DEF Ways
  <1> QED
    BY <1>4, <1>8 DEF Accepts

(* The three shapes of what follows a place. *)
LEMMA Stuck ==
  ASSUME NEW g, NEW c, ~IsMatch(g, c), Follows(g, c) = << >>
  PROVE  ~Accepts(g, c)
  BY AcceptsThrough

LEMMA OneWay ==
  ASSUME NEW g, NEW c \in Squares(g), NEW d, ~IsMatch(g, c), Follows(g, c) = <<d>>
  PROVE  /\ Accepts(g, c) <=> Accepts(g, d)
         /\ \A e : Ends(g, d, e) => Ends(g, c, e)
  <1>1. DOMAIN Follows(g, c) = {1} /\ Follows(g, c)[1] = d
    OBVIOUS
  <1>2. Accepts(g, c) => Accepts(g, d)
    BY <1>1, AcceptsThrough
  <1>3. Accepts(g, d) => Accepts(g, c)
    BY <1>1, AcceptsOn
  <1>4. ASSUME NEW e, Ends(g, d, e) PROVE Ends(g, c, e)
    <2> DEFINE k == 1
    <2>1. k \in DOMAIN Follows(g, c) /\ Ends(g, Follows(g, c)[k], e)
      BY <1>1, <1>4
    <2>2. \A j \in 1 .. k - 1 : ~Accepts(g, Follows(g, c)[j])
      OBVIOUS
    <2> HIDE DEF k
    <2> QED
      BY <2>1, <2>2, EndsOn
  <1> QED
    BY <1>2, <1>3, <1>4

LEMMA Fork ==
  ASSUME NEW g, NEW c \in Squares(g), NEW d, NEW f, ~IsMatch(g, c), Follows(g, c) = <<d, f>>
  PROVE  /\ Accepts(g, c) <=> Accepts(g, d) \/ Accepts(g, f)
         /\ \A e : Ends(g, d, e) => Ends(g, c, e)
         /\ \A e : ~Accepts(g, d) /\ Ends(g, f, e) => Ends(g, c, e)
  <1>1. DOMAIN Follows(g, c) = {1, 2} /\ Follows(g, c)[1] = d /\ Follows(g, c)[2] = f
    OBVIOUS
  <1>2. Accepts(g, c) => Accepts(g, d) \/ Accepts(g, f)
    BY <1>1, AcceptsThrough
  <1>3. Accepts(g, d) \/ Accepts(g, f) => Accepts(g, c)
    BY <1>1, AcceptsOn
  <1>4. ASSUME NEW e, Ends(g, d, e) PROVE Ends(g, c, e)
    <2> DEFINE k == 1
    <2>1. k \in DOMAIN Follows(g, c) /\ Ends(g, Follows(g, c)[k], e)
      BY <1>1, <1>4
    <2>2. \A j \in 1 .. k - 1 : ~Accepts(g, Follows(g, c)[j])
      OBVIOUS
    <2> HIDE DEF k
    <2> QED
      BY <2>1, <2>2, EndsOn
  <1>5. ASSUME NEW e, ~Accepts(g, d), Ends(g, f, e) PROVE Ends(g, c, e)
    <2> DEFINE k == 2
    <2>1. k \in DOMAIN Follows(g, c) /\ Ends(g, Follows(g, c)[k], e)
      BY <1>1, <1>5
    <2>2. \A j \in 1 .. k - 1 : ~Accepts(g, Follows(g, c)[j])
      BY <1>1, <1>5
    <2> HIDE DEF k
    <2> QED
      BY <2>1, <2>2, EndsOn
  <1> QED
    BY <1>2, <1>3, <1>4, <1>5

-----------------------------------------------------------------------------
(* There is but one preferred way. *)

LessThan == {t \in Nat \X Nat : t[1] < t[2]}
LEMMA LessThanWellFounded == IsWellFoundedOn(LessThan, Nat)
  BY NatLessThanWellFounded DEF OpToRel, LessThan

LEMMA MinimumExists ==
  ASSUME NEW I \in SUBSET Nat, I # {}
  PROVE  \E x \in I : \A y \in I : x <= y
  <1>1. \A t, u \in Nat : <<t, u>> \in LessThan <=> t < u
    BY DEF LessThan
  <1>2. PICK t \in I : \A u \in I : <<u, t>> \notin LessThan
    BY LessThanWellFounded, WFMin
  <1>3. \A u \in I : ~(u < t) /\ u \in Nat /\ t \in Nat
    BY <1>1, <1>2
  <1>4. \A u \in I : t <= u
    BY <1>3
  <1> QED
    BY <1>4

LEMMA OnWay ==
  ASSUME NEW g, NEW c, NEW w \in Ways(g, c), NEW n \in 1 .. Len(w)
  PROVE  Accepts(g, w[n])
  <1> DEFINE v == SubSeq(w, n, Len(w))
  <1>1. /\ w \in Seq(Squares(g)) /\ w # << >> /\ IsMatch(g, w[Len(w)])
        /\ \A k \in 1 .. Len(w) - 1 : \E j \in DOMAIN Follows(g, w[k]) : w[k + 1] = Follows(g, w[k])[j]
    BY DEF Ways
  <1>2. Len(w) \in Nat /\ n \in Nat /\ 1 <= n /\ n <= Len(w)
    BY <1>1
  <1>3. v \in Seq(Squares(g)) /\ Len(v) = Len(w) - n + 1 /\ \A k \in 1 .. Len(v) : v[k] = w[k + n - 1]
    BY <1>1, <1>2
  <1> HIDE DEF v
  <1>4. v # << >> /\ v[1] = w[n] /\ v[Len(v)] = w[Len(w)]
    BY <1>2, <1>3
  <1>5. ASSUME NEW k \in 1 .. Len(v) - 1 PROVE \E j \in DOMAIN Follows(g, v[k]) : v[k + 1] = Follows(g, v[k])[j]
    <2> DEFINE l == k + n - 1
    <2>1. /\ k \in 1 .. Len(v) /\ k + 1 \in 1 .. Len(v)
          /\ l \in 1 .. Len(w) - 1 /\ k + 1 + n - 1 = l + 1
      <3>1. Len(v) = Len(w) - n + 1
        BY <1>3
      <3> HIDE DEF l
      <3>2. k \in Int /\ 1 <= k /\ k <= Len(w) - n
        BY <1>2, <3>1
      <3> QED
        BY <1>2, <3>1, <3>2 DEF l
    <2>2. v[k] = w[l]
      BY <1>3, <2>1
    <2>3. v[k + 1] = w[k + 1 + n - 1]
      BY <1>3, <2>1
    <2> HIDE DEF l
    <2> QED
      BY <1>1, <2>1, <2>2, <2>3
  <1>6. v \in Ways(g, w[n])
    BY <1>1, <1>3, <1>4, <1>5 DEF Ways
  <1> QED
    BY <1>6 DEF Accepts

LEMMA AtMostTwoFollow ==
  ASSUME NEW g, NEW c
  PROVE  DOMAIN Follows(g, c) \subseteq {1, 2}
  <1> DEFINE i == g.insts[c.pc + 1]
  <1> HIDE DEF i
  <1>1. \A x, at : DOMAIN OnIf(x, c, at) \subseteq {1, 2}
    <2> SUFFICES ASSUME NEW x, NEW at PROVE DOMAIN OnIf(x, c, at) \subseteq {1, 2}
      OBVIOUS
    <2>1. OnIf(x, c, at) = << >> \/ OnIf(x, c, at) = <<Square(c.pc + 1, at, c.saved)>>
      BY DEF OnIf
    <2>2. DOMAIN << >> = {} /\ DOMAIN <<Square(c.pc + 1, at, c.saved)>> = {1}
      OBVIOUS
    <2> QED
      BY <2>1, <2>2
  <1>2. CASE i.op \in {"char", "brace", "number"}
    <2>1. DOMAIN CharFollows(g, c, i) \subseteq {1, 2}
      BY <1>1 DEF CharFollows
    <2>2. DOMAIN BraceFollows(g, c, i) \subseteq {1, 2}
      BY <1>1 DEF BraceFollows
    <2>3. DOMAIN NumberFollows(g, c, i) \subseteq {1, 2}
      BY <1>1 DEF NumberFollows
    <2>4. Follows(g, c) \in {CharFollows(g, c, i), BraceFollows(g, c, i), NumberFollows(g, c, i)}
      BY <1>2 DEF Follows, i
    <2> QED
      BY <2>1, <2>2, <2>3, <2>4
  <1>3. CASE i.op \in {"jmp", "split", "save", "psave"}
    BY <1>3 DEF Follows, i
  <1>4. CASE i.op \notin {"char", "jmp", "split", "save", "psave", "brace", "number"}
    <2>1. Follows(g, c) = << >>
      BY <1>4 DEF Follows, i
    <2> QED
      BY <2>1
  <1> QED
    BY <1>2, <1>3, <1>4

LEMMA PrefersOne ==
  ASSUME NEW g, NEW c, NEW d, NEW f, Prefers(g, c, d), Prefers(g, c, f), Accepts(g, d), Accepts(g, f)
  PROVE  d = f
  <1>1. PICK k \in DOMAIN Follows(g, c) : d = Follows(g, c)[k] /\ \A j \in 1 .. k - 1 : ~Accepts(g, Follows(g, c)[j])
    BY DEF Prefers
  <1>2. PICK l \in DOMAIN Follows(g, c) : f = Follows(g, c)[l] /\ \A j \in 1 .. l - 1 : ~Accepts(g, Follows(g, c)[j])
    BY DEF Prefers
  <1>3. k \in Nat /\ l \in Nat /\ k >= 1 /\ l >= 1
    BY AtMostTwoFollow
  <1>4. k \notin 1 .. l - 1 /\ l \notin 1 .. k - 1
    BY <1>1, <1>2
  <1>5. k = l
    BY <1>3, <1>4
  <1> QED
    BY <1>1, <1>2, <1>5

LEMMA NothingAfterMatch ==
  ASSUME NEW g, NEW c, IsMatch(g, c)
  PROVE  Follows(g, c) = << >>
  <1> DEFINE i == g.insts[c.pc + 1]
  <1>1. i.op \in {"match", "tailMatch"}
    BY DEF IsMatch
  <1> QED
    BY <1>1 DEF Follows

(* What "the preferred way" means below is one thing: of the ways to a match
   that begin at a place there is at most one end that is preferred. *)
LEMMA PreferredEndIsOne ==
  ASSUME NEW g, NEW c, NEW e, NEW f, Ends(g, c, e), Ends(g, c, f)
  PROVE  e = f
  <1>1. PICK w \in Ways(g, c) : e = w[Len(w)] /\ \A n \in 1 .. Len(w) - 1 : Prefers(g, w[n], w[n + 1])
    BY DEF Ends
  <1>2. PICK v \in Ways(g, c) : f = v[Len(v)] /\ \A n \in 1 .. Len(v) - 1 : Prefers(g, v[n], v[n + 1])
    BY DEF Ends
  <1>3. /\ w \in Seq(Squares(g)) /\ w # << >> /\ w[1] = c /\ IsMatch(g, w[Len(w)])
        /\ v \in Seq(Squares(g)) /\ v # << >> /\ v[1] = c /\ IsMatch(g, v[Len(v)])
    BY DEF Ways
  <1>4. Len(w) \in Nat \ {0} /\ Len(v) \in Nat \ {0}
    BY <1>3
  <1>5. \A n \in 1 .. Len(w) : n <= Len(v) => w[n] = v[n]
    <2> SUFFICES ASSUME NEW n \in 1 .. Len(w), n <= Len(v), w[n] # v[n] PROVE FALSE
      OBVIOUS
    <2> DEFINE D == {k \in 1 .. Len(w) : k <= Len(v) /\ w[k] # v[k]}
    <2>1. D \in SUBSET Nat /\ n \in D
      BY <1>4
    <2>2. PICK k \in D : \A j \in D : k <= j
      BY <2>1, MinimumExists
    <2>3. k # 1
      BY <1>3
    <2>4. k - 1 \in 1 .. Len(w) - 1 /\ k - 1 \in 1 .. Len(v) - 1 /\ (k - 1) + 1 = k /\ k - 1 \notin D
      BY <1>4, <2>2, <2>3
    <2>5. w[k - 1] = v[k - 1]
      BY <1>4, <2>4
    <2>6. Prefers(g, w[k - 1], w[k]) /\ Prefers(g, w[k - 1], v[k])
      BY <1>1, <1>2, <2>4, <2>5
    <2>7. Accepts(g, w[k]) /\ Accepts(g, v[k])
      BY <2>2, OnWay
    <2>8. w[k] = v[k]
      BY <2>6, <2>7, PrefersOne
    <2> QED
      BY <2>2, <2>8
  <1>6. ASSUME NEW x \in Ways(g, c), NEW y \in Ways(g, c), Len(x) \in Nat \ {0}, Len(y) \in Nat \ {0}, Len(x) < Len(y),
               x[Len(x)] = y[Len(x)]
        PROVE  FALSE
    <2>1. IsMatch(g, x[Len(x)])
      BY DEF Ways
    <2>2. Follows(g, y[Len(x)]) = << >>
      BY <1>6, <2>1, NothingAfterMatch
    <2>3. Len(x) \in 1 .. Len(y) - 1
      BY <1>6
    <2>4. \E k \in DOMAIN Follows(g, y[Len(x)]) : y[Len(x) + 1] = Follows(g, y[Len(x)])[k]
      BY <2>3 DEF Ways
    <2> QED
      BY <2>2, <2>4
  <1>7. ~(Len(w) < Len(v))
    <2>1. Len(w) < Len(v) => w[Len(w)] = v[Len(w)]
      BY <1>4, <1>5
    <2> QED
      BY <1>4, <1>6, <2>1
  <1>8. ~(Len(v) < Len(w))
    <2>1. Len(v) < Len(w) => v[Len(v)] = w[Len(v)]
      BY <1>4, <1>5
    <2> QED
      BY <1>4, <1>6, <2>1
  <1>9. Len(w) = Len(v)
    BY <1>4, <1>7, <1>8
  <1> QED
    BY <1>1, <1>2, <1>4, <1>5, <1>9

-----------------------------------------------------------------------------
(* Slots. *)

AnySlot == TextSlot \cup {Slot(n, TRUE) : n \in Nat}

LEMMA SlotFacts ==
  /\ \A n \in Nat : Slot(n, FALSE) \in TextSlot /\ Slot(n, FALSE) \in AnySlot /\ Slot(n, TRUE) \in AnySlot
  /\ Unset \in TextSlot /\ Unset \in AnySlot
  /\ \A x \in TextSlot : x \in AnySlot /\ x.at \in Nat
  /\ \A x \in AnySlot : x.at \in Nat
  <1>1. \A n \in Nat : Slot(n, FALSE) \in TextSlot
    BY Zenon DEF TextSlot
  <1>2. \A n \in Nat : Slot(n, FALSE) \in AnySlot
    BY <1>1, Zenon DEF AnySlot
  <1>3. \A n \in Nat : Slot(n, TRUE) \in AnySlot
    BY Zenon DEF AnySlot
  <1>4. \A n, b : Slot(n, b).at = n
    BY DEF Slot
  <1>5. \A x \in AnySlot : x.at \in Nat
    BY <1>4 DEF AnySlot, TextSlot
  <1>6. \A x \in TextSlot : x \in AnySlot /\ x.at \in Nat
    BY <1>5 DEF AnySlot
  <1>7. Unset \in TextSlot /\ Unset \in AnySlot
    <2>1. 0 \in Nat
      OBVIOUS
    <2> QED
      BY <1>1, <1>2, <2>1, Zenon DEF Unset
  <1> QED
    BY <1>1, <1>2, <1>3, <1>5, <1>6, <1>7

LEMMA WithSlotFacts ==
  ASSUME NEW m \in Seq(AnySlot), NEW s \in Nat, NEW v \in AnySlot
  PROVE  /\ WithSlot(m, s, v) \in Seq(AnySlot)
         /\ Len(WithSlot(m, s, v)) >= Len(m) /\ Len(WithSlot(m, s, v)) > s
         /\ \A i \in 1 .. Len(WithSlot(m, s, v)) :
              WithSlot(m, s, v)[i] = IF i = s + 1 THEN v ELSE IF i <= Len(m) THEN m[i] ELSE Unset
  <1> DEFINE end == IF Len(m) >= s + 1 THEN Len(m) ELSE s + 1
             at(i) == IF i = s + 1 THEN v ELSE IF i <= Len(m) THEN m[i] ELSE Unset
             f == [i \in 1 .. end |-> at(i)]
  <1>1. Len(m) \in Nat /\ end \in Nat /\ end >= Len(m) /\ end > s
    OBVIOUS
  <1>2. Max({Len(m), s + 1}) = end
    <2>1. end \in {Len(m), s + 1} /\ \A y \in {Len(m), s + 1} : end >= y
      BY <1>1
    <2>2. \A x \in {Len(m), s + 1} : (\A y \in {Len(m), s + 1} : x >= y) => x = end
      BY <1>1
    <2> HIDE DEF end
    <2> QED
      BY <2>1, <2>2 DEF Max
  <1>3. WithSlot(m, s, v) = f
    BY <1>2 DEF WithSlot, Unset
  <1>4. \A i \in 1 .. end : at(i) \in AnySlot
    BY <1>1, SlotFacts
  <1> HIDE DEF end
  <1>5. f \in [1 .. end -> AnySlot]
    BY <1>4
  <1>6. f \in Seq(AnySlot) /\ Len(f) = end
    BY <1>1, <1>5
  <1>7. \A i \in 1 .. end : f[i] = at(i)
    OBVIOUS
  <1> QED
    BY <1>1, <1>3, <1>6, <1>7

LEMMA ViewType ==
  ASSUME NEW g, NEW m
  PROVE  DOMAIN View(g, m) = TextSlots(g) /\ View(g, m) = [s \in TextSlots(g) |-> View(g, m)[s]]
  BY DEF View

(* To store text in a slot is to store it in what is seen of the slots. *)
LEMMA ViewOfSave ==
  ASSUME NEW g, TextSlots(g) \subseteq Nat, NEW m \in Seq(AnySlot), NEW to \in Nat, NEW v \in AnySlot
  PROVE  View(g, WithSlot(m, to, v)) = [View(g, m) EXCEPT ![to] = v]
  <1> DEFINE n == WithSlot(m, to, v)
  <1>1. /\ Len(n) \in Nat /\ Len(m) \in Nat /\ Len(n) >= Len(m) /\ Len(n) > to
        /\ \A i \in 1 .. Len(n) : n[i] = IF i = to + 1 THEN v ELSE IF i <= Len(m) THEN m[i] ELSE Unset
    <2>1. /\ n \in Seq(AnySlot) /\ Len(n) >= Len(m) /\ Len(n) > to
          /\ \A i \in 1 .. Len(n) : n[i] = IF i = to + 1 THEN v ELSE IF i <= Len(m) THEN m[i] ELSE Unset
      BY WithSlotFacts
    <2> HIDE DEF n
    <2>2. Len(n) \in Nat /\ Len(m) \in Nat
      BY <2>1
    <2> QED
      BY <2>1, <2>2
  <1> HIDE DEF n
  <1>2. ASSUME NEW s \in TextSlots(g) PROVE View(g, n)[s] = [View(g, m) EXCEPT ![to] = v][s]
    <2>1. s \in Nat
      OBVIOUS
    <2>2. View(g, n)[s] = IF s < Len(n) THEN n[s + 1] ELSE Unset
      BY DEF View
    <2>3. View(g, m)[s] = IF s < Len(m) THEN m[s + 1] ELSE Unset
      BY DEF View
    <2>4. [View(g, m) EXCEPT ![to] = v][s] = IF s = to THEN v ELSE View(g, m)[s]
      BY DEF View
    <2>5. CASE s = to
      <3>1. s < Len(n) /\ s + 1 \in 1 .. Len(n)
        BY <1>1, <2>5
      <3>2. n[s + 1] = v
        BY <1>1, <2>5, <3>1
      <3> QED
        BY <2>2, <2>4, <2>5, <3>1, <3>2
    <2>6. CASE s # to /\ s < Len(n)
      <3>1. s + 1 \in 1 .. Len(n) /\ s + 1 # to + 1 /\ (s + 1 <= Len(m) <=> s < Len(m))
        BY <1>1, <2>1, <2>6
      <3>2. n[s + 1] = IF s < Len(m) THEN m[s + 1] ELSE Unset
        BY <1>1, <3>1
      <3> QED
        BY <2>2, <2>3, <2>4, <2>6, <3>2
    <2>7. CASE s # to /\ ~(s < Len(n))
      <3>1. ~(s < Len(m))
        BY <1>1, <2>1, <2>7
      <3> QED
        BY <2>2, <2>3, <2>4, <2>7, <3>1
    <2> QED
      BY <2>5, <2>6, <2>7
  <1>3. DOMAIN View(g, n) = TextSlots(g) /\ DOMAIN [View(g, m) EXCEPT ![to] = v] = TextSlots(g)
    BY DEF View
  <1>4. View(g, n) = [s \in TextSlots(g) |-> View(g, n)[s]]
    BY DEF View
  <1>5. [View(g, m) EXCEPT ![to] = v] = [s \in TextSlots(g) |-> [View(g, m) EXCEPT ![to] = v][s]]
    BY <1>3
  <1>6. View(g, n) = [View(g, m) EXCEPT ![to] = v]
    BY <1>2, <1>4, <1>5
  <1> QED
    BY <1>6 DEF n

(* A slot that holds no text is not seen. *)
LEMMA ViewOfPosition ==
  ASSUME NEW g, TextSlots(g) \subseteq Nat, NEW m \in Seq(AnySlot), NEW to \in Nat, NEW v \in AnySlot, to \notin TextSlots(g)
  PROVE  View(g, WithSlot(m, to, v)) = View(g, m)
  <1>1. View(g, WithSlot(m, to, v)) = [View(g, m) EXCEPT ![to] = v]
    BY ViewOfSave
  <1>2. DOMAIN View(g, m) = TextSlots(g)
    BY ViewType
  <1>3. View(g, m) = [s \in TextSlots(g) |-> View(g, m)[s]]
    BY ViewType
  <1> HIDE DEF View
  <1>4. [View(g, m) EXCEPT ![to] = v] = View(g, m)
    BY <1>2, <1>3
  <1> QED
    BY <1>1, <1>4

-----------------------------------------------------------------------------
(* What the stack stands for. *)

ChoiceEntries == [is : {"split"}, pc : Nat, sp : Nat]
UndoEntries == [is : {"save"}, slot : Nat, old : AnySlot]
Entries == ChoiceEntries \cup UndoEntries

LEMMA Appended ==
  ASSUME NEW S, NEW q \in Seq(S), NEW x \in S
  PROVE  /\ Append(q, x) \in Seq(S) /\ Len(Append(q, x)) = Len(q) + 1 /\ Append(q, x)[Len(q) + 1] = x
         /\ \A i \in 1 .. Len(q) : Append(q, x)[i] = q[i]
         /\ Len(q) \in Nat
  OBVIOUS

LEMMA UndoneAppended ==
  ASSUME NEW st \in Seq(Entries), NEW x \in Entries, NEW i \in 1 .. Len(st), NEW s
  PROVE  Undone(Append(st, x), i, s) =
           Undone(st, i, s) \cup (IF x.is = "save" /\ x.slot = s THEN {Len(st) + 1} ELSE {})
  <1> DEFINE t == Append(st, x)
  <1>1. /\ Len(t) = Len(st) + 1 /\ t[Len(st) + 1] = x /\ \A j \in 1 .. Len(st) : t[j] = st[j]
        /\ Len(st) \in Nat
    BY Appended
  <1> HIDE DEF t
  <1>2. i + 1 .. Len(t) = (i + 1 .. Len(st)) \cup {Len(st) + 1} /\ i + 1 .. Len(st) \subseteq 1 .. Len(st)
    BY <1>1
  <1>3. Undone(t, i, s) = Undone(st, i, s) \cup (IF x.is = "save" /\ x.slot = s THEN {Len(st) + 1} ELSE {})
    BY <1>1, <1>2 DEF Undone
  <1> QED
    BY <1>3 DEF t

LEMMA LeastIsMin ==
  ASSUME NEW S \in SUBSET Nat, NEW x \in S, \A y \in S : x <= y
  PROVE  Min(S) = x
  <1>1. \A z \in S : (\A y \in S : z <= y) => z = x
    OBVIOUS
  <1> QED
    BY <1>1 DEF Min

LEMMA MinIsLeast ==
  ASSUME NEW S \in SUBSET Nat, S # {}
  PROVE  Min(S) \in S /\ \A y \in S : Min(S) <= y
  <1>1. PICK x \in S : \A y \in S : x <= y
    BY MinimumExists
  <1> QED
    BY <1>1, LeastIsMin

LEMMA LeastOfMore ==
  ASSUME NEW l \in Nat, NEW S, \A y \in S : y \in 1 .. l, NEW low \in S, \A y \in S : low <= y,
         NEW T, S \subseteq T, \A y \in T : y \in S \/ y = l + 1
  PROVE  Min(T) = low
  <1>1. low \in 1 .. l
    OBVIOUS
  <1>2. \A y \in T : y \in Nat
    OBVIOUS
  <1>3. \A y \in T : low <= y
    BY <1>1
  <1> QED
    BY <1>2, <1>3, LeastIsMin

(* A choice on top changes nothing below it. *)
LEMMA ChoiceAppended ==
  ASSUME NEW g, NEW m, NEW st \in Seq(Entries), NEW x \in Entries, x.is = "split"
  PROVE  /\ \A i \in 1 .. Len(st) : Choice(g, m, Append(st, x), i) = Choice(g, m, st, i)
         /\ Choice(g, m, Append(st, x), Len(st) + 1) = Square(x.pc, x.sp, View(g, m))
  <1> DEFINE t == Append(st, x)
  <1>1. /\ Len(t) = Len(st) + 1 /\ t[Len(st) + 1] = x /\ \A j \in 1 .. Len(st) : t[j] = st[j]
        /\ Len(st) \in Nat
    BY Appended
  <1>2. ASSUME NEW i \in 1 .. Len(st) PROVE Choice(g, m, t, i) = Choice(g, m, st, i)
    <2>1. \A s : Undone(t, i, s) = Undone(st, i, s)
      <3>1. \A s : Undone(t, i, s) = Undone(st, i, s) \cup (IF x.is = "save" /\ x.slot = s THEN {Len(st) + 1} ELSE {})
        BY UndoneAppended
      <3>2. x.is # "save"
        OBVIOUS
      <3> QED
        BY <3>1, <3>2
    <2>3. ASSUME NEW s, Undone(st, i, s) # {}
          PROVE  t[Min(Undone(st, i, s))] = st[Min(Undone(st, i, s))]
      <3>1. Undone(st, i, s) \in SUBSET Nat /\ Undone(st, i, s) \subseteq 1 .. Len(st)
        BY <1>1 DEF Undone
      <3>2. Min(Undone(st, i, s)) \in 1 .. Len(st)
        BY <2>3, <3>1, MinIsLeast
      <3> HIDE DEF t
      <3> QED
        BY <1>1, <3>2
    <2> HIDE DEF t
    <2>4. SavedAt(g, m, t, i) = SavedAt(g, m, st, i)
      BY <2>1, <2>3 DEF SavedAt
    <2>5. t[i] = st[i]
      BY <1>1
    <2> QED
      BY <2>4, <2>5 DEF Choice
  <1>3. Choice(g, m, t, Len(st) + 1) = Square(x.pc, x.sp, View(g, m))
    <2> DEFINE n == Len(st) + 1
    <2> HIDE DEF t
    <2>1. n + 1 .. Len(t) = {}
      BY <1>1
    <2>2. t[n] = x
      BY <1>1
    <2> HIDE DEF n
    <2>3. \A s : Undone(t, n, s) = {}
      BY <2>1 DEF Undone
    <2>4. SavedAt(g, m, t, n) = [s \in TextSlots(g) |-> View(g, m)[s]]
      BY <2>3 DEF SavedAt
    <2>5. SavedAt(g, m, t, n) = View(g, m)
      BY <2>4, ViewType
    <2>6. Choice(g, m, t, n) = Square(x.pc, x.sp, View(g, m))
      BY <2>2, <2>5 DEF Choice
    <2> QED
      BY <2>6 DEF n
  <1> QED
    BY <1>2, <1>3

(* Nor does an entry that undoes what was done when it was put there. *)
LEMMA UndoAppended ==
  ASSUME NEW g, NEW m, NEW n, NEW st \in Seq(Entries), NEW x \in Entries, x.is = "save",
         \A s \in TextSlots(g) : View(g, m)[s] = IF s = x.slot THEN x.old ELSE View(g, n)[s]
  PROVE  \A i \in 1 .. Len(st) : Choice(g, n, Append(st, x), i) = Choice(g, m, st, i)
  <1> DEFINE t == Append(st, x)
  <1>1. /\ Len(t) = Len(st) + 1 /\ t[Len(st) + 1] = x /\ \A j \in 1 .. Len(st) : t[j] = st[j]
        /\ Len(st) \in Nat
    BY Appended
  <1> SUFFICES ASSUME NEW i \in 1 .. Len(st) PROVE Choice(g, n, t, i) = Choice(g, m, st, i)
    OBVIOUS
  <1>2. \A s : Undone(t, i, s) = Undone(st, i, s) \cup (IF x.slot = s THEN {Len(st) + 1} ELSE {})
    BY UndoneAppended
  <1> HIDE DEF t
  <1> DEFINE before(s) == IF Undone(st, i, s) = {} THEN View(g, m)[s] ELSE st[Min(Undone(st, i, s))].old
             after(s) == IF Undone(t, i, s) = {} THEN View(g, n)[s] ELSE t[Min(Undone(t, i, s))].old
  <1>3. ASSUME NEW s \in TextSlots(g) PROVE after(s) = before(s)
    <2> DEFINE U == Undone(st, i, s)
    <2>1. U \in SUBSET Nat /\ U \subseteq 1 .. Len(st)
      BY <1>1 DEF Undone
    <2>2. Undone(t, i, s) = U \cup (IF x.slot = s THEN {Len(st) + 1} ELSE {})
      BY <1>2
    <2> HIDE DEF U
    <2>3. CASE U = {} /\ x.slot # s
      <3>1. after(s) = View(g, n)[s]
        BY <2>2, <2>3
      <3>2. before(s) = View(g, m)[s]
        BY <2>3 DEF U
      <3> QED
        BY <2>3, <3>1, <3>2
    <2>4. CASE U = {} /\ x.slot = s
      <3>1. Undone(t, i, s) = {Len(st) + 1}
        BY <2>2, <2>4
      <3>2. Min({Len(st) + 1}) = Len(st) + 1
        BY <1>1, LeastIsMin
      <3>3. after(s) = x.old
        BY <1>1, <3>1, <3>2
      <3>4. before(s) = View(g, m)[s]
        BY <2>4 DEF U
      <3> QED
        BY <2>4, <3>3, <3>4
    <2>5. CASE U # {}
      <3>1. Min(U) \in U /\ \A y \in U : Min(U) <= y
        BY <2>1, <2>5, MinIsLeast
      <3>2. Min(U) \in 1 .. Len(st)
        BY <2>1, <3>1
      <3>3. U \subseteq Undone(t, i, s) /\ \A y \in Undone(t, i, s) : y \in U \/ y = Len(st) + 1
        BY <2>2
      <3>4. Undone(t, i, s) # {} /\ Min(Undone(t, i, s)) = Min(U)
        <4>1. \A y \in U : y \in 1 .. Len(st)
          BY <2>1
        <4> QED
          BY <1>1, <2>5, <3>1, <3>3, <4>1, LeastOfMore
      <3>5. after(s) = t[Min(U)].old
        BY <3>4
      <3>6. before(s) = st[Min(U)].old
        BY <2>5 DEF U
      <3>7. t[Min(U)] = st[Min(U)]
        BY <1>1, <3>2
      <3> QED
        BY <3>5, <3>6, <3>7
    <2> QED
      BY <2>3, <2>4, <2>5
  <1>4. SavedAt(g, n, t, i) = [s \in TextSlots(g) |-> after(s)]
    BY DEF SavedAt
  <1>5. SavedAt(g, m, st, i) = [s \in TextSlots(g) |-> before(s)]
    BY DEF SavedAt
  <1> HIDE DEF before, after
  <1>6. SavedAt(g, n, t, i) = SavedAt(g, m, st, i)
    BY <1>3, <1>4, <1>5
  <1>7. t[i] = st[i]
    BY <1>1
  <1> QED
    BY <1>6, <1>7 DEF Choice

LEMMA SameAtHand ==
  ASSUME NEW g, NEW m, NEW n, NEW st \in Seq(Entries), NEW t \in Seq(Entries), Len(st) <= Len(t),
         \A i \in 1 .. Len(st) : Choice(g, n, t, i) = Choice(g, m, st, i) /\ (IsChoice(t, i) <=> IsChoice(st, i)),
         \A i \in 1 .. Len(t) : i > Len(st) => ~IsChoice(t, i)
  PROVE  /\ \A e : LeadsTo(g, n, t, e) <=> LeadsTo(g, m, st, e)
         /\ MayMatch(g, n, t) <=> MayMatch(g, m, st)
  <1>1. /\ DOMAIN st = 1 .. Len(st) /\ DOMAIN t = 1 .. Len(t) /\ Len(st) \in Nat /\ Len(t) \in Nat
        /\ 1 .. Len(st) \subseteq 1 .. Len(t)
    OBVIOUS
  <1>2. \A i \in 1 .. Len(t) : IsChoice(t, i) => i \in 1 .. Len(st)
    BY <1>1
  <1>3. MayMatch(g, n, t) <=> MayMatch(g, m, st)
    BY <1>1, <1>2 DEF MayMatch
  <1>4. ASSUME NEW e, LeadsTo(g, n, t, e) PROVE LeadsTo(g, m, st, e)
    <2>1. PICK i \in 1 .. Len(t) :
            /\ IsChoice(t, i) /\ Ends(g, Choice(g, n, t, i), e)
            /\ \A j \in i + 1 .. Len(t) : IsChoice(t, j) => ~Accepts(g, Choice(g, n, t, j))
      BY <1>1, <1>4 DEF LeadsTo
    <2>2. i \in 1 .. Len(st) /\ IsChoice(st, i) /\ Ends(g, Choice(g, m, st, i), e)
      BY <1>2, <2>1
    <2>3. ASSUME NEW j \in i + 1 .. Len(st), IsChoice(st, j) PROVE ~Accepts(g, Choice(g, m, st, j))
      <3>1. j \in i + 1 .. Len(t) /\ j \in 1 .. Len(st)
        BY <1>1, <2>2
      <3> QED
        BY <2>1, <2>3, <3>1
    <2> QED
      BY <1>1, <2>2, <2>3 DEF LeadsTo
  <1>5. ASSUME NEW e, LeadsTo(g, m, st, e) PROVE LeadsTo(g, n, t, e)
    <2>1. PICK i \in 1 .. Len(st) :
            /\ IsChoice(st, i) /\ Ends(g, Choice(g, m, st, i), e)
            /\ \A j \in i + 1 .. Len(st) : IsChoice(st, j) => ~Accepts(g, Choice(g, m, st, j))
      BY <1>1, <1>5 DEF LeadsTo
    <2>2. i \in 1 .. Len(t) /\ IsChoice(t, i) /\ Ends(g, Choice(g, n, t, i), e)
      BY <1>1, <2>1
    <2>3. ASSUME NEW j \in i + 1 .. Len(t), IsChoice(t, j) PROVE ~Accepts(g, Choice(g, n, t, j))
      <3>1. j \in 1 .. Len(t)
        BY <1>1, <2>1
      <3>2. j \in 1 .. Len(st) /\ j \in i + 1 .. Len(st)
        BY <1>1, <1>2, <2>1, <2>3, <3>1
      <3> QED
        BY <2>1, <2>3, <3>2
    <2> QED
      BY <1>1, <2>2, <2>3 DEF LeadsTo
  <1> QED
    BY <1>3, <1>4, <1>5

LEMMA ChoiceAtHand ==
  ASSUME NEW g, NEW m, NEW st \in Seq(Entries), NEW x \in Entries, x.is = "split"
  PROVE  LET top == Square(x.pc, x.sp, View(g, m))
         IN  /\ \A e : LeadsTo(g, m, Append(st, x), e) <=>
                         Ends(g, top, e) \/ (~Accepts(g, top) /\ LeadsTo(g, m, st, e))
             /\ MayMatch(g, m, Append(st, x)) <=> Accepts(g, top) \/ MayMatch(g, m, st)
  <1> DEFINE t == Append(st, x)
             top == Square(x.pc, x.sp, View(g, m))
             n == Len(st)
  <1>1. /\ n \in Nat /\ Len(t) = n + 1 /\ DOMAIN st = 1 .. n /\ DOMAIN t = 1 .. n + 1
        /\ Choice(g, m, t, n + 1) = top /\ IsChoice(t, n + 1)
        /\ \A i \in 1 .. n : Choice(g, m, t, i) = Choice(g, m, st, i) /\ (IsChoice(t, i) <=> IsChoice(st, i))
    <2>1. /\ t \in Seq(Entries) /\ Len(t) = n + 1 /\ t[n + 1] = x /\ n \in Nat
          /\ \A i \in 1 .. n : t[i] = st[i]
      BY Appended
    <2>2. Choice(g, m, t, n + 1) = top /\ \A i \in 1 .. n : Choice(g, m, t, i) = Choice(g, m, st, i)
      BY ChoiceAppended
    <2> HIDE DEF t, top
    <2>3. IsChoice(t, n + 1) /\ \A i \in 1 .. n : IsChoice(t, i) <=> IsChoice(st, i)
      BY <2>1 DEF IsChoice
    <2>4. DOMAIN st = 1 .. n /\ DOMAIN t = 1 .. n + 1
      BY <2>1
    <2> QED
      BY <2>1, <2>2, <2>3, <2>4
  <1> HIDE DEF t, top
  <1>2. n + 1 \in 1 .. n + 1 /\ \A i \in 1 .. n + 1 : i = n + 1 \/ i \in 1 .. n
    BY <1>1
  <1>3. \A i \in 1 .. n : i \in 1 .. n + 1 /\ n + 1 \in i + 1 .. n + 1
    BY <1>1
  <1>4. \A i \in 1 .. n : \A j \in i + 1 .. n + 1 : j = n + 1 \/ (j \in i + 1 .. n /\ j \in 1 .. n)
    BY <1>1
  <1>5. \A i \in 1 .. n : \A j \in i + 1 .. n : j \in i + 1 .. n + 1 /\ j \in 1 .. n
    BY <1>1
  <1>6. (n + 1) + 1 .. n + 1 = {}
    BY <1>1
  <1> HIDE DEF n
  <1>7. MayMatch(g, m, t) <=> Accepts(g, top) \/ MayMatch(g, m, st)
    BY <1>1, <1>2, <1>3 DEF MayMatch
  <1>8. ASSUME NEW e, LeadsTo(g, m, t, e) PROVE Ends(g, top, e) \/ (~Accepts(g, top) /\ LeadsTo(g, m, st, e))
    <2>1. PICK i \in 1 .. n + 1 :
            /\ IsChoice(t, i) /\ Ends(g, Choice(g, m, t, i), e)
            /\ \A j \in i + 1 .. n + 1 : IsChoice(t, j) => ~Accepts(g, Choice(g, m, t, j))
      BY <1>1, <1>8 DEF LeadsTo
    <2>2. CASE i = n + 1
      BY <1>1, <2>1, <2>2
    <2>3. CASE i \in 1 .. n
      <3>1. ~Accepts(g, top)
        BY <1>1, <1>3, <2>1, <2>3
      <3>2. IsChoice(st, i) /\ Ends(g, Choice(g, m, st, i), e)
        BY <1>1, <2>1, <2>3
      <3>3. \A j \in i + 1 .. n : IsChoice(st, j) => ~Accepts(g, Choice(g, m, st, j))
        BY <1>1, <1>5, <2>1, <2>3
      <3> QED
        BY <1>1, <2>3, <3>1, <3>2, <3>3 DEF LeadsTo, n
    <2> QED
      BY <1>2, <2>2, <2>3
  <1>9. ASSUME NEW e, Ends(g, top, e) PROVE LeadsTo(g, m, t, e)
    BY <1>1, <1>2, <1>6, <1>9 DEF LeadsTo
  <1>10. ASSUME NEW e, ~Accepts(g, top), LeadsTo(g, m, st, e) PROVE LeadsTo(g, m, t, e)
    <2>1. PICK i \in 1 .. n :
            /\ IsChoice(st, i) /\ Ends(g, Choice(g, m, st, i), e)
            /\ \A j \in i + 1 .. n : IsChoice(st, j) => ~Accepts(g, Choice(g, m, st, j))
      BY <1>1, <1>10 DEF LeadsTo, n
    <2>2. i \in 1 .. n + 1 /\ IsChoice(t, i) /\ Ends(g, Choice(g, m, t, i), e)
      BY <1>1, <1>3, <2>1
    <2>3. \A j \in i + 1 .. n + 1 : IsChoice(t, j) => ~Accepts(g, Choice(g, m, t, j))
      BY <1>1, <1>4, <1>10, <2>1
    <2> QED
      BY <1>1, <2>2, <2>3 DEF LeadsTo
  <1> QED
    BY <1>7, <1>8, <1>9, <1>10 DEF t, top

-----------------------------------------------------------------------------
(* Staying on course. *)

(* The only way on. *)
LEMMA CourseOn ==
  ASSUME NEW g, NEW at, NEW c \in Squares(g), NEW d, NEW m, NEW n, NEW st, NEW t,
         OnCourse(g, at, TRUE, c, m, st), ~IsMatch(g, c), Follows(g, c) = <<d>>,
         \A e : LeadsTo(g, n, t, e) <=> LeadsTo(g, m, st, e), MayMatch(g, n, t) <=> MayMatch(g, m, st)
  PROVE  OnCourse(g, at, TRUE, d, n, t)
  <1>1. (Accepts(g, c) <=> Accepts(g, d)) /\ \A e : Ends(g, d, e) => Ends(g, c, e)
    BY OneWay
  <1> QED
    BY <1>1 DEF OnCourse

(* No way on. *)
LEMMA CourseStuck ==
  ASSUME NEW g, NEW at, NEW c, NEW d, NEW m, NEW st,
         OnCourse(g, at, TRUE, c, m, st), ~IsMatch(g, c), Follows(g, c) = << >>
  PROVE  OnCourse(g, at, FALSE, d, m, st)
  <1>1. ~Accepts(g, c)
    BY Stuck
  <1> QED
    BY <1>1 DEF OnCourse

(* The first of two ways on; the second is put on the stack. *)
LEMMA CourseFork ==
  ASSUME NEW g, NEW at, NEW c \in Squares(g), NEW d, NEW m, NEW st \in Seq(Entries), NEW x \in Entries, x.is = "split",
         OnCourse(g, at, TRUE, c, m, st), ~IsMatch(g, c), Follows(g, c) = <<d, Square(x.pc, x.sp, View(g, m))>>
  PROVE  OnCourse(g, at, TRUE, d, m, Append(st, x))
  <1> DEFINE top == Square(x.pc, x.sp, View(g, m))
             t == Append(st, x)
  <1>1. /\ \A e : LeadsTo(g, m, t, e) <=> Ends(g, top, e) \/ (~Accepts(g, top) /\ LeadsTo(g, m, st, e))
        /\ MayMatch(g, m, t) <=> Accepts(g, top) \/ MayMatch(g, m, st)
    BY ChoiceAtHand
  <1>2. Follows(g, c) = <<d, top>>
    OBVIOUS
  <1> HIDE DEF top, t
  <1>3. /\ Accepts(g, c) <=> Accepts(g, d) \/ Accepts(g, top)
        /\ \A e : Ends(g, d, e) => Ends(g, c, e)
        /\ \A e : ~Accepts(g, d) /\ Ends(g, top, e) => Ends(g, c, e)
    BY <1>2, Fork
  <1>4. OnCourse(g, at, TRUE, d, m, t)
    BY <1>1, <1>3 DEF OnCourse
  <1> QED
    BY <1>4 DEF t

(* Back to the choice on top of the stack. *)
LEMMA CourseBack ==
  ASSUME NEW g, NEW at, NEW c, NEW m, NEW st \in Seq(Entries), NEW x \in Entries, x.is = "split",
         OnCourse(g, at, FALSE, c, m, Append(st, x))
  PROVE  OnCourse(g, at, TRUE, Square(x.pc, x.sp, View(g, m)), m, st)
  <1> DEFINE top == Square(x.pc, x.sp, View(g, m))
             t == Append(st, x)
  <1>1. /\ \A e : LeadsTo(g, m, t, e) <=> Ends(g, top, e) \/ (~Accepts(g, top) /\ LeadsTo(g, m, st, e))
        /\ MayMatch(g, m, t) <=> Accepts(g, top) \/ MayMatch(g, m, st)
    BY ChoiceAtHand
  <1>2. OnCourse(g, at, FALSE, c, m, t)
    OBVIOUS
  <1> HIDE DEF top, t
  <1>3. OnCourse(g, at, TRUE, top, m, st)
    BY <1>1, <1>2 DEF OnCourse
  <1> QED
    BY <1>3 DEF top

(* Back over an entry that only undoes. *)
LEMMA CourseUndone ==
  ASSUME NEW g, NEW at, NEW c, NEW d, NEW m, NEW n, NEW st, NEW t,
         OnCourse(g, at, FALSE, c, m, st),
         \A e : LeadsTo(g, n, t, e) <=> LeadsTo(g, m, st, e), MayMatch(g, n, t) <=> MayMatch(g, m, st)
  PROVE  OnCourse(g, at, FALSE, d, n, t)
  BY DEF OnCourse

(* An attempt begins on course, decides for the preferred way when it comes
   to a match, and has none when nothing is left to try. *)
LEMMA CourseBegins ==
  ASSUME NEW g, NEW at
  PROVE  OnCourse(g, at, TRUE, Origin(g, at), << >>, << >>)
  BY DEF OnCourse, LeadsTo, MayMatch

LEMMA CourseMatched ==
  ASSUME NEW g, NEW at, NEW c \in Squares(g), NEW m, NEW st, OnCourse(g, at, TRUE, c, m, st), IsMatch(g, c)
  PROVE  Ends(g, Origin(g, at), c)
  BY WayFrom DEF OnCourse

LEMMA CourseFailed ==
  ASSUME NEW g, NEW at, NEW c, NEW m, OnCourse(g, at, FALSE, c, m, << >>)
  PROVE  ~Accepts(g, Origin(g, at))
  BY DEF OnCourse, MayMatch

-----------------------------------------------------------------------------
(* What the machine holds fits the game. *)

GameOK(g) == IsProgram(g.insts) /\ g.text \in Seq(DOMAIN Code)

EntryFits(g, m, x) ==
  /\ x.is = "split" => x.pc + 1 \in DOMAIN g.insts /\ x.sp <= Len(g.text)
  /\ x.is = "save" => x.slot < Len(m) /\ (x.slot \in TextSlots(g) => x.old \in TextSlot)

Fits(g, p, at, m, st) ==
  /\ p \in Nat /\ p + 1 \in DOMAIN g.insts /\ at \in Nat /\ at <= Len(g.text)
  /\ m \in Seq(AnySlot) /\ View(g, m) \in [TextSlots(g) -> TextSlot]
  /\ st \in Seq(Entries) /\ \A j \in 1 .. Len(st) : EntryFits(g, m, st[j])

LEMMA SquareFacts ==
  ASSUME NEW p, NEW at, NEW v
  PROVE  Square(p, at, v).pc = p /\ Square(p, at, v).sp = at /\ Square(p, at, v).saved = v
  BY DEF Square

LEMMA SquareFits ==
  ASSUME NEW g, NEW p, NEW at, NEW m, NEW st, Fits(g, p, at, m, st)
  PROVE  Square(p, at, View(g, m)) \in Squares(g)
  BY DEF Fits, Square, Squares

(* Each instruction leads to one of the program. *)
LEMMA ProgramFacts ==
  ASSUME NEW g, GameOK(g), NEW p \in Nat, p + 1 \in DOMAIN g.insts
  PROVE  LET i == g.insts[p + 1]
         IN  /\ i.op \in {"char", "brace", "save", "psave", "number"} => (p + 1) + 1 \in DOMAIN g.insts
             /\ i.op \in {"save", "psave", "number"} => i.to \in Nat
             /\ i.op = "jmp" => i.to \in Nat /\ i.to + 1 \in DOMAIN g.insts
             /\ i.op = "split" => i.first \in Nat /\ i.second \in Nat /\ i.first + 1 \in DOMAIN g.insts /\ i.second + 1 \in DOMAIN g.insts
             /\ i.op \in {"char", "brace", "save", "psave", "number", "jmp", "split", "match", "tailMatch"}
  BY DEF GameOK, IsProgram

LEMMA SlotsAreNumbers ==
  ASSUME NEW g, GameOK(g)
  PROVE  TextSlots(g) \subseteq Nat
  <1>1. ASSUME NEW k \in DOMAIN g.insts PROVE Named(g.insts[k]) \subseteq Nat
    <2>1. g.insts[k].op \in {"save", "psave", "number"} => g.insts[k].to \in Nat
      BY DEF GameOK, IsProgram
    <2>2. CASE g.insts[k].op = "save"
      BY <2>1, <2>2 DEF Named
    <2>3. CASE g.insts[k].op = "number"
      BY <2>1, <2>3 DEF Named
    <2>4. CASE g.insts[k].op \notin {"save", "number"}
      BY <2>4 DEF Named
    <2> QED
      BY <2>2, <2>3, <2>4
  <1> QED
    BY <1>1 DEF TextSlots

LEMMA PositionSlots ==
  ASSUME NEW g, NEW k \in DOMAIN g.insts, g.insts[k].op = "psave"
  PROVE  g.insts[k].to \notin TextSlots(g) /\ g.insts[k].to + 1 \notin TextSlots(g)
  <1>1. OfPosition(g.insts[k]) = {g.insts[k].to, g.insts[k].to + 1}
    BY DEF OfPosition
  <1> DEFINE taken == {OfPosition(g.insts[j]) : j \in DOMAIN g.insts}
             held == {Named(g.insts[j]) : j \in DOMAIN g.insts}
  <1>2. OfPosition(g.insts[k]) \in taken
    OBVIOUS
  <1>3. TextSlots(g) = (UNION held) \ UNION taken
    BY DEF TextSlots
  <1> HIDE DEF taken, held
  <1>4. \A s \in OfPosition(g.insts[k]) : s \notin TextSlots(g)
    <2> SUFFICES ASSUME NEW s \in OfPosition(g.insts[k]) PROVE s \notin TextSlots(g)
      OBVIOUS
    <2>1. s \in UNION taken
      BY <1>2
    <2> QED
      BY <1>3, <2>1, Zenon
  <1> QED
    BY <1>1, <1>4

(* What the game allows at each instruction that is no match. *)
LEMMA InstAt ==
  ASSUME NEW g, NEW p, NEW at, NEW v
  PROVE  LET c == Square(p, at, v) IN c.pc = p /\ c.sp = at /\ c.saved = v /\ g.insts[c.pc + 1] = g.insts[p + 1]
  BY SquareFacts

LEMMA CharAt ==
  ASSUME NEW g, NEW p, NEW at, NEW v, g.insts[p + 1].op = "char"
  PROVE  Follows(g, Square(p, at, v)) = CharFollows(g, Square(p, at, v), g.insts[p + 1]) /\ ~IsMatch(g, Square(p, at, v))
  <1> DEFINE c == Square(p, at, v)
  <1>1. c.pc = p /\ c.sp = at /\ c.saved = v /\ g.insts[c.pc + 1] = g.insts[p + 1]
    BY InstAt
  <1> HIDE DEF c
  <1>2. Follows(g, c) = CharFollows(g, c, g.insts[p + 1])
    BY <1>1 DEF Follows
  <1>3. ~IsMatch(g, c)
    BY <1>1 DEF IsMatch
  <1> QED
    BY <1>2, <1>3 DEF c

LEMMA JmpAt ==
  ASSUME NEW g, NEW p, NEW at, NEW v, g.insts[p + 1].op = "jmp"
  PROVE  Follows(g, Square(p, at, v)) = <<Square(g.insts[p + 1].to, at, v)>> /\ ~IsMatch(g, Square(p, at, v))
  <1> DEFINE c == Square(p, at, v)
  <1>1. c.pc = p /\ c.sp = at /\ c.saved = v /\ g.insts[c.pc + 1] = g.insts[p + 1]
    BY InstAt
  <1> HIDE DEF c
  <1>2. Follows(g, c) = <<Square(g.insts[p + 1].to, at, v)>>
    BY <1>1 DEF Follows
  <1>3. ~IsMatch(g, c)
    BY <1>1 DEF IsMatch
  <1> QED
    BY <1>2, <1>3 DEF c

LEMMA SplitAt ==
  ASSUME NEW g, NEW p, NEW at, NEW v, g.insts[p + 1].op = "split"
  PROVE  Follows(g, Square(p, at, v)) = <<Square(g.insts[p + 1].first, at, v), Square(g.insts[p + 1].second, at, v)>> /\ ~IsMatch(g, Square(p, at, v))
  <1> DEFINE c == Square(p, at, v)
  <1>1. c.pc = p /\ c.sp = at /\ c.saved = v /\ g.insts[c.pc + 1] = g.insts[p + 1]
    BY InstAt
  <1> HIDE DEF c
  <1>2. Follows(g, c) = <<Square(g.insts[p + 1].first, at, v), Square(g.insts[p + 1].second, at, v)>>
    BY <1>1 DEF Follows
  <1>3. ~IsMatch(g, c)
    BY <1>1 DEF IsMatch
  <1> QED
    BY <1>2, <1>3 DEF c

LEMMA SaveAt ==
  ASSUME NEW g, NEW p, NEW at, NEW v, g.insts[p + 1].op = "save"
  PROVE  Follows(g, Square(p, at, v)) = <<Square(p + 1, at, [v EXCEPT ![g.insts[p + 1].to] = Slot(at, FALSE)])>> /\ ~IsMatch(g, Square(p, at, v))
  <1> DEFINE c == Square(p, at, v)
  <1>1. c.pc = p /\ c.sp = at /\ c.saved = v /\ g.insts[c.pc + 1] = g.insts[p + 1]
    BY InstAt
  <1> HIDE DEF c
  <1>2. Follows(g, c) = <<Square(p + 1, at, [v EXCEPT ![g.insts[p + 1].to] = Slot(at, FALSE)])>>
    BY <1>1 DEF Follows
  <1>3. ~IsMatch(g, c)
    BY <1>1 DEF IsMatch
  <1> QED
    BY <1>2, <1>3 DEF c

LEMMA PSaveAt ==
  ASSUME NEW g, NEW p, NEW at, NEW v, g.insts[p + 1].op = "psave"
  PROVE  Follows(g, Square(p, at, v)) = <<Square(p + 1, at, v)>> /\ ~IsMatch(g, Square(p, at, v))
  <1> DEFINE c == Square(p, at, v)
  <1>1. c.pc = p /\ c.sp = at /\ c.saved = v /\ g.insts[c.pc + 1] = g.insts[p + 1]
    BY InstAt
  <1> HIDE DEF c
  <1>2. Follows(g, c) = <<Square(p + 1, at, v)>>
    BY <1>1 DEF Follows
  <1>3. ~IsMatch(g, c)
    BY <1>1 DEF IsMatch
  <1> QED
    BY <1>2, <1>3 DEF c

LEMMA BraceAt ==
  ASSUME NEW g, NEW p, NEW at, NEW v, g.insts[p + 1].op = "brace"
  PROVE  Follows(g, Square(p, at, v)) = BraceFollows(g, Square(p, at, v), g.insts[p + 1]) /\ ~IsMatch(g, Square(p, at, v))
  <1> DEFINE c == Square(p, at, v)
  <1>1. c.pc = p /\ c.sp = at /\ c.saved = v /\ g.insts[c.pc + 1] = g.insts[p + 1]
    BY InstAt
  <1> HIDE DEF c
  <1>2. Follows(g, c) = BraceFollows(g, c, g.insts[p + 1])
    BY <1>1 DEF Follows
  <1>3. ~IsMatch(g, c)
    BY <1>1 DEF IsMatch
  <1> QED
    BY <1>2, <1>3 DEF c

LEMMA NumberAt ==
  ASSUME NEW g, NEW p, NEW at, NEW v, g.insts[p + 1].op = "number"
  PROVE  Follows(g, Square(p, at, v)) = NumberFollows(g, Square(p, at, v), g.insts[p + 1]) /\ ~IsMatch(g, Square(p, at, v))
  <1> DEFINE c == Square(p, at, v)
  <1>1. c.pc = p /\ c.sp = at /\ c.saved = v /\ g.insts[c.pc + 1] = g.insts[p + 1]
    BY InstAt
  <1> HIDE DEF c
  <1>2. Follows(g, c) = NumberFollows(g, c, g.insts[p + 1])
    BY <1>1 DEF Follows
  <1>3. ~IsMatch(g, c)
    BY <1>1 DEF IsMatch
  <1> QED
    BY <1>2, <1>3 DEF c

LEMMA TailAt ==
  ASSUME NEW g, NEW p, NEW at, NEW v, g.insts[p + 1].op = "tailMatch", ~(at >= Len(g.text))
  PROVE  Follows(g, Square(p, at, v)) = << >> /\ ~IsMatch(g, Square(p, at, v))
  <1> DEFINE c == Square(p, at, v)
  <1>1. c.pc = p /\ c.sp = at /\ c.saved = v /\ g.insts[c.pc + 1] = g.insts[p + 1]
    BY InstAt
  <1> HIDE DEF c
  <1>2. Follows(g, c) = << >>
    BY <1>1 DEF Follows
  <1>3. ~IsMatch(g, c)
    BY <1>1 DEF IsMatch
  <1> QED
    BY <1>2, <1>3 DEF c

LEMMA MatchAt ==
  ASSUME NEW g, NEW p, NEW at, NEW v, g.insts[p + 1].op = "match" \/ (g.insts[p + 1].op = "tailMatch" /\ at >= Len(g.text))
  PROVE  IsMatch(g, Square(p, at, v))
  BY InstAt DEF IsMatch

LEMMA FitsElsewhere ==
  ASSUME NEW g, NEW p, NEW at, NEW m, NEW st, Fits(g, p, at, m, st),
         NEW q \in Nat, q + 1 \in DOMAIN g.insts, NEW to \in Nat, to <= Len(g.text)
  PROVE  Fits(g, q, to, m, st)
  BY DEF Fits

LEMMA FitsBegins ==
  ASSUME NEW g, GameOK(g), NEW at \in Nat, at <= Len(g.text)
  PROVE  Fits(g, 0, at, << >>, << >>)
  <1> DEFINE none == << >>
             p == 0
  <1>1. none \in Seq(AnySlot) /\ none \in Seq(Entries) /\ Len(none) = 0
    OBVIOUS
  <1>2. p \in Nat /\ p + 1 \in DOMAIN g.insts
    BY DEF GameOK, IsProgram
  <1>3. \A s \in TextSlots(g) : ~(s < 0)
    BY SlotsAreNumbers
  <1> HIDE DEF none, p
  <1>4. View(g, none) = [s \in TextSlots(g) |-> Unset]
    BY <1>1, <1>3 DEF View
  <1>5. View(g, none) \in [TextSlots(g) -> TextSlot]
    BY <1>4, SlotFacts
  <1>6. 1 .. Len(none) = {}
    BY <1>1
  <1>7. Fits(g, p, at, none, none)
    BY <1>1, <1>2, <1>5, <1>6 DEF Fits
  <1> QED
    BY <1>7 DEF none, p

-----------------------------------------------------------------------------
(* The entries of save. *)

OldSlot(m, to) == IF to < Len(m) THEN m[to + 1] ELSE Slot(0, FALSE)
Undo(m, to) == [is |-> "save", slot |-> to, old |-> OldSlot(m, to)]

LEMMA UndoFacts ==
  ASSUME NEW m \in Seq(AnySlot), NEW to \in Nat
  PROVE  /\ OldSlot(m, to) \in AnySlot
         /\ Undo(m, to) \in Entries /\ Undo(m, to).is = "save" /\ Undo(m, to).slot = to
         /\ Undo(m, to).old = OldSlot(m, to)
  <1>1. OldSlot(m, to) \in AnySlot
    <2>1. CASE to < Len(m)
      <3>1. to + 1 \in 1 .. Len(m)
        BY <2>1
      <3> QED
        BY <2>1, <3>1 DEF OldSlot
    <2>2. CASE ~(to < Len(m))
      BY <2>2, SlotFacts DEF OldSlot, Unset
    <2> QED
      BY <2>1, <2>2
  <1> DEFINE old == OldSlot(m, to)
  <1> HIDE DEF old
  <1>2. Undo(m, to) = [is |-> "save", slot |-> to, old |-> old]
    BY DEF Undo, old
  <1>3. [is |-> "save", slot |-> to, old |-> old] \in UndoEntries
    BY <1>1 DEF UndoEntries, old
  <1>4. Undo(m, to).is = "save" /\ Undo(m, to).slot = to /\ Undo(m, to).old = old
    BY <1>2
  <1> QED
    BY <1>1, <1>2, <1>3, <1>4 DEF Entries, old

LEMMA ViewTyped ==
  ASSUME NEW g, NEW m, \A s \in TextSlots(g) : View(g, m)[s] \in TextSlot
  PROVE  View(g, m) \in [TextSlots(g) -> TextSlot]
  BY ViewType

Put(v, to, x) == [v EXCEPT ![to] = x]

LEMMA SavePushed ==
  ASSUME NEW g, GameOK(g), NEW p, NEW at \in Nat, NEW m, NEW st, Fits(g, p, at, m, st), NEW to \in Nat
  PROVE  /\ setCapture(m, to, at) \in Seq(AnySlot)
         /\ View(g, setCapture(m, to, at)) = Put(View(g, m), to, Slot(at, FALSE))
         /\ Fits(g, p, at, setCapture(m, to, at), Append(st, Undo(m, to)))
         /\ \A e : LeadsTo(g, setCapture(m, to, at), Append(st, Undo(m, to)), e) <=> LeadsTo(g, m, st, e)
         /\ MayMatch(g, setCapture(m, to, at), Append(st, Undo(m, to))) <=> MayMatch(g, m, st)
  <1> DEFINE v == Slot(at, FALSE)
             n == setCapture(m, to, at)
             x == Undo(m, to)
             t == Append(st, x)
  <1>1. v \in TextSlot /\ v \in AnySlot
    BY SlotFacts
  <1>2. /\ m \in Seq(AnySlot) /\ st \in Seq(Entries) /\ p \in Nat /\ p + 1 \in DOMAIN g.insts /\ at \in Nat /\ at <= Len(g.text)
        /\ View(g, m) \in [TextSlots(g) -> TextSlot] /\ \A j \in 1 .. Len(st) : EntryFits(g, m, st[j])
    BY DEF Fits
  <1>3. n = WithSlot(m, to, v)
    BY DEF setCapture
  <1> HIDE DEF v
  <1>4. n \in Seq(AnySlot) /\ Len(n) >= Len(m) /\ Len(n) > to
    BY <1>1, <1>2, <1>3, WithSlotFacts
  <1>5. View(g, n) = [View(g, m) EXCEPT ![to] = v]
    BY <1>1, <1>2, <1>3, SlotsAreNumbers, ViewOfSave
  <1> HIDE DEF n
  <1>6. View(g, n) \in [TextSlots(g) -> TextSlot]
    BY <1>1, <1>2, <1>5
  <1>7. x \in Entries /\ x.is = "save" /\ x.slot = to /\ x.old = OldSlot(m, to)
    BY <1>2, UndoFacts
  <1>8. \A s \in TextSlots(g) : View(g, m)[s] = IF s = x.slot THEN x.old ELSE View(g, n)[s]
    <2> SUFFICES ASSUME NEW s \in TextSlots(g) PROVE View(g, m)[s] = IF s = x.slot THEN x.old ELSE View(g, n)[s]
      OBVIOUS
    <2> HIDE DEF x
    <2>1. CASE s = to
      <3>1. View(g, m)[s] = IF s < Len(m) THEN m[s + 1] ELSE Unset
        BY DEF View
      <3> QED
        BY <1>7, <2>1, <3>1 DEF OldSlot, Unset
    <2>2. CASE s # to
      BY <1>2, <1>5, <1>7, <2>2
    <2> QED
      BY <2>1, <2>2
  <1> HIDE DEF x
  <1>9. /\ t \in Seq(Entries) /\ Len(t) = Len(st) + 1 /\ t[Len(st) + 1] = x /\ Len(st) \in Nat
        /\ \A i \in 1 .. Len(st) : t[i] = st[i]
    BY <1>2, <1>7, Appended
  <1>10. \A i \in 1 .. Len(st) : Choice(g, n, t, i) = Choice(g, m, st, i)
    BY <1>2, <1>7, <1>8, UndoAppended
  <1> HIDE DEF t
  <1>11. \A i \in 1 .. Len(st) : IsChoice(t, i) <=> IsChoice(st, i)
    BY <1>9 DEF IsChoice
  <1>12. \A i \in 1 .. Len(t) : i = Len(st) + 1 \/ i \in 1 .. Len(st)
    BY <1>9
  <1>13. \A i \in 1 .. Len(t) : i > Len(st) => ~IsChoice(t, i)
    BY <1>7, <1>9, <1>12 DEF IsChoice
  <1>14. Len(st) <= Len(t)
    BY <1>9
  <1>15. /\ \A e : LeadsTo(g, n, t, e) <=> LeadsTo(g, m, st, e)
         /\ MayMatch(g, n, t) <=> MayMatch(g, m, st)
    BY <1>2, <1>9, <1>10, <1>11, <1>13, <1>14, SameAtHand
  <1>16. EntryFits(g, n, x)
    <2>1. to \in TextSlots(g) => OldSlot(m, to) \in TextSlot
      <3>1. to \in TextSlots(g) => View(g, m)[to] = OldSlot(m, to)
        BY <1>7, <1>8
      <3> QED
        BY <1>2, <3>1
    <2> QED
      BY <1>4, <1>7, <2>1 DEF EntryFits
  <1>17. \A j \in 1 .. Len(st) : EntryFits(g, n, st[j])
    <2> SUFFICES ASSUME NEW j \in 1 .. Len(st) PROVE EntryFits(g, n, st[j])
      OBVIOUS
    <2>1. EntryFits(g, m, st[j]) /\ st[j] \in Entries
      BY <1>2
    <2>2. Len(m) \in Nat /\ Len(n) \in Nat /\ Len(m) <= Len(n)
      BY <1>2, <1>4
    <2>3. st[j].is = "save" => st[j].slot \in Nat
      BY <2>1 DEF Entries, ChoiceEntries, UndoEntries
    <2> QED
      BY <2>1, <2>2, <2>3 DEF EntryFits
  <1>18. \A j \in 1 .. Len(t) : EntryFits(g, n, t[j])
    BY <1>9, <1>12, <1>16, <1>17
  <1>19. Fits(g, p, at, n, t)
    BY <1>2, <1>4, <1>6, <1>9, <1>18 DEF Fits
  <1>20. View(g, n) = Put(View(g, m), to, v)
    BY <1>5 DEF Put
  <1> QED
    BY <1>4, <1>15, <1>19, <1>20 DEF n, t, x, v

LEMMA FrontAndLast ==
  ASSUME NEW S, NEW q \in Seq(S), q # << >>
  PROVE  /\ Front(q) \in Seq(S) /\ Last(q) \in S /\ q = Append(Front(q), Last(q))
         /\ Len(q) = Len(Front(q)) + 1 /\ q[Len(q)] = Last(q) /\ Len(q) \in Nat \ {0}
         /\ \A i \in 1 .. Len(Front(q)) : q[i] = Front(q)[i]
  <1>1. Len(q) \in Nat \ {0} /\ q \in [1 .. Len(q) -> S]
    OBVIOUS
  <1> DEFINE n == Len(q) - 1
             f == Front(q)
  <1>2. n \in Nat /\ Len(q) = n + 1
    BY <1>1
  <1>3. f = SubSeq(q, 1, n)
    BY DEF Front
  <1>4. Last(q) = q[Len(q)] /\ Last(q) \in S
    BY <1>1 DEF Last
  <1> HIDE DEF n, f
  <1>5. f \in Seq(S) /\ Len(f) = n /\ \A i \in 1 .. n : f[i] = q[i]
    BY <1>2, <1>3
  <1>6. q = Append(f, Last(q))
    BY <1>1, <1>2, <1>4, <1>5
  <1> QED
    BY <1>1, <1>2, <1>4, <1>5, <1>6 DEF f

(* Undoing the entry on top. *)
LEMMA UndonePopped ==
  ASSUME NEW g, GameOK(g), NEW p, NEW at, NEW m, NEW st, NEW x \in Entries, x.is = "save",
         st \in Seq(Entries), Fits(g, p, at, m, Append(st, x))
  PROVE  LET n == [m EXCEPT ![x.slot + 1] = x.old]
         IN  /\ x.slot + 1 \in DOMAIN m
             /\ Fits(g, p, at, n, st)
             /\ \A e : LeadsTo(g, n, st, e) <=> LeadsTo(g, m, Append(st, x), e)
             /\ MayMatch(g, n, st) <=> MayMatch(g, m, Append(st, x))
  <1> DEFINE n == [m EXCEPT ![x.slot + 1] = x.old]
             t == Append(st, x)
  <1>1. /\ t \in Seq(Entries) /\ Len(t) = Len(st) + 1 /\ t[Len(st) + 1] = x /\ Len(st) \in Nat
        /\ \A i \in 1 .. Len(st) : t[i] = st[i]
    BY Appended
  <1>2. x.slot \in Nat /\ x.old \in AnySlot
    BY DEF Entries, ChoiceEntries, UndoEntries
  <1>3. Fits(g, p, at, m, t)
    OBVIOUS
  <1> HIDE DEF t
  <1>4. /\ m \in Seq(AnySlot) /\ p \in Nat /\ p + 1 \in DOMAIN g.insts /\ at \in Nat /\ at <= Len(g.text)
        /\ View(g, m) \in [TextSlots(g) -> TextSlot] /\ \A j \in 1 .. Len(t) : EntryFits(g, m, t[j])
    BY <1>3 DEF Fits
  <1>5. EntryFits(g, m, x)
    <2>1. Len(st) + 1 \in 1 .. Len(t)
      BY <1>1
    <2> QED
      BY <1>1, <1>4, <2>1
  <1>6. x.slot < Len(m) /\ (x.slot \in TextSlots(g) => x.old \in TextSlot)
    BY <1>5 DEF EntryFits
  <1>7. x.slot + 1 \in DOMAIN m
    BY <1>2, <1>4, <1>6
  <1>8. /\ n \in Seq(AnySlot) /\ Len(n) = Len(m) /\ Len(m) \in Nat
        /\ \A i \in 1 .. Len(m) : n[i] = IF i = x.slot + 1 THEN x.old ELSE m[i]
    BY <1>2, <1>4, <1>7
  <1> HIDE DEF n
  <1>9. ASSUME NEW s \in TextSlots(g) PROVE View(g, n)[s] = IF s = x.slot THEN x.old ELSE View(g, m)[s]
    <2>1. s \in Nat
      BY SlotsAreNumbers
    <2>2. View(g, n)[s] = IF s < Len(n) THEN n[s + 1] ELSE Unset
      BY DEF View
    <2>3. View(g, m)[s] = IF s < Len(m) THEN m[s + 1] ELSE Unset
      BY DEF View
    <2>4. CASE s < Len(m)
      <3>1. s + 1 \in 1 .. Len(m) /\ (s + 1 = x.slot + 1 <=> s = x.slot)
        BY <1>2, <1>8, <2>1, <2>4
      <3>2. n[s + 1] = IF s = x.slot THEN x.old ELSE m[s + 1]
        BY <1>8, <3>1
      <3> QED
        BY <1>8, <2>2, <2>3, <2>4, <3>2
    <2>5. CASE ~(s < Len(m))
      <3>1. s # x.slot
        BY <1>6, <2>5
      <3> QED
        BY <1>8, <2>2, <2>3, <2>5, <3>1
    <2> QED
      BY <2>4, <2>5
  <1>10. View(g, n) \in [TextSlots(g) -> TextSlot]
    <2>1. \A s \in TextSlots(g) : View(g, n)[s] \in TextSlot
      BY <1>4, <1>6, <1>9
    <2> QED
      BY <2>1, ViewTyped
  <1>11. \A i \in 1 .. Len(st) : Choice(g, m, Append(st, x), i) = Choice(g, n, st, i)
    BY <1>9, UndoAppended
  <1>12. \A i \in 1 .. Len(st) : Choice(g, m, t, i) = Choice(g, n, st, i)
    BY <1>11 DEF t
  <1>13. \A i \in 1 .. Len(st) : IsChoice(t, i) <=> IsChoice(st, i)
    BY <1>1 DEF IsChoice
  <1>14. \A i \in 1 .. Len(t) : i = Len(st) + 1 \/ i \in 1 .. Len(st)
    BY <1>1
  <1>15. \A i \in 1 .. Len(t) : i > Len(st) => ~IsChoice(t, i)
    BY <1>1, <1>14 DEF IsChoice
  <1>16. Len(st) <= Len(t)
    BY <1>1
  <1>17. /\ \A e : LeadsTo(g, m, t, e) <=> LeadsTo(g, n, st, e)
         /\ MayMatch(g, m, t) <=> MayMatch(g, n, st)
    BY <1>1, <1>12, <1>13, <1>15, <1>16, SameAtHand
  <1>18. \A j \in 1 .. Len(st) : EntryFits(g, n, st[j])
    <2> SUFFICES ASSUME NEW j \in 1 .. Len(st) PROVE EntryFits(g, n, st[j])
      OBVIOUS
    <2>1. j \in 1 .. Len(t) /\ t[j] = st[j]
      BY <1>1
    <2>2. EntryFits(g, m, st[j])
      BY <1>4, <2>1
    <2> QED
      BY <1>8, <2>2 DEF EntryFits
  <1>19. Fits(g, p, at, n, st)
    BY <1>4, <1>8, <1>10, <1>18 DEF Fits
  <1> QED
    BY <1>7, <1>17, <1>19 DEF n, t

(* The slots of a position capture are not seen. *)
LEMMA PositionStored ==
  ASSUME NEW g, GameOK(g), NEW p, NEW at, NEW m, NEW st, Fits(g, p, at, m, st), NEW to \in Nat, NEW pos \in Nat,
         to \notin TextSlots(g), to + 1 \notin TextSlots(g)
  PROVE  /\ View(g, addPosCapture(m, to, pos)) = View(g, m)
         /\ Fits(g, p, at, addPosCapture(m, to, pos), st)
  <1> DEFINE v == Slot(pos, TRUE)
             k == to + 1
             l == WithSlot(m, to, v)
             n == WithSlot(l, k, v)
  <1>1. v \in AnySlot
    BY SlotFacts
  <1>2. addPosCapture(m, to, pos) = n
    BY DEF addPosCapture
  <1> HIDE DEF v
  <1>3. /\ m \in Seq(AnySlot) /\ st \in Seq(Entries) /\ p \in Nat /\ p + 1 \in DOMAIN g.insts /\ at \in Nat /\ at <= Len(g.text)
        /\ View(g, m) \in [TextSlots(g) -> TextSlot] /\ \A j \in 1 .. Len(st) : EntryFits(g, m, st[j])
    BY DEF Fits
  <1>4. TextSlots(g) \subseteq Nat
    BY SlotsAreNumbers
  <1>5. l \in Seq(AnySlot) /\ Len(l) >= Len(m)
    BY <1>1, <1>3, WithSlotFacts
  <1>6. View(g, l) = View(g, m)
    BY <1>1, <1>3, <1>4, ViewOfPosition
  <1> HIDE DEF l
  <1>7. k \in Nat /\ k \notin TextSlots(g)
    OBVIOUS
  <1> HIDE DEF k
  <1>8. n \in Seq(AnySlot) /\ Len(n) >= Len(l)
    BY <1>1, <1>5, <1>7, WithSlotFacts
  <1>9. View(g, n) = View(g, l)
    BY <1>1, <1>4, <1>5, <1>7, ViewOfPosition
  <1> HIDE DEF n
  <1>10. \A j \in 1 .. Len(st) : EntryFits(g, n, st[j])
    <2> SUFFICES ASSUME NEW j \in 1 .. Len(st) PROVE EntryFits(g, n, st[j])
      OBVIOUS
    <2>1. EntryFits(g, m, st[j]) /\ st[j] \in Entries
      BY <1>3
    <2>2. Len(m) \in Nat /\ Len(n) \in Nat /\ Len(m) <= Len(n)
      BY <1>3, <1>5, <1>8
    <2>3. st[j].is = "save" => st[j].slot \in Nat
      BY <2>1 DEF Entries, ChoiceEntries, UndoEntries
    <2> QED
      BY <2>1, <2>2, <2>3 DEF EntryFits
  <1>11. Fits(g, p, at, n, st)
    BY <1>3, <1>6, <1>8, <1>9, <1>10 DEF Fits
  <1> QED
    BY <1>2, <1>6, <1>9, <1>11

LEMMA SameView ==
  ASSUME NEW g, NEW m, NEW n, NEW st, View(g, n) = View(g, m)
  PROVE  /\ \A e : LeadsTo(g, n, st, e) <=> LeadsTo(g, m, st, e)
         /\ MayMatch(g, n, st) <=> MayMatch(g, m, st)
  <1>1. \A i : SavedAt(g, n, st, i) = SavedAt(g, m, st, i)
    BY DEF SavedAt
  <1>2. \A i : Choice(g, n, st, i) = Choice(g, m, st, i)
    BY <1>1 DEF Choice
  <1> QED
    BY <1>2 DEF LeadsTo, MayMatch

-----------------------------------------------------------------------------
(* Each instruction keeps an attempt on its course. *)

RunsWell(g, at, p, s, m, st) ==
  /\ Fits(g, p, s, m, st)
  /\ RefersToText(g) => OnCourse(g, at, TRUE, Square(p, s, View(g, m)), m, st)
FailsWell(g, at, p, s, m, st) ==
  /\ Fits(g, p, s, m, st)
  /\ RefersToText(g) => OnCourse(g, at, FALSE, Square(p, s, View(g, m)), m, st)

LEMMA GoesOn ==
  ASSUME NEW g, NEW at, NEW p, NEW s, NEW m, NEW st, RunsWell(g, at, p, s, m, st),
         NEW q \in Nat, q + 1 \in DOMAIN g.insts, NEW to \in Nat, to <= Len(g.text),
         RefersToText(g) => /\ ~IsMatch(g, Square(p, s, View(g, m)))
                            /\ Follows(g, Square(p, s, View(g, m))) = <<Square(q, to, View(g, m))>>
  PROVE  RunsWell(g, at, q, to, m, st)
  <1>1. Fits(g, p, s, m, st)
    BY DEF RunsWell
  <1>2. Fits(g, q, to, m, st)
    BY <1>1, FitsElsewhere
  <1> DEFINE c == Square(p, s, View(g, m))
             d == Square(q, to, View(g, m))
  <1>3. ASSUME RefersToText(g)
        PROVE  OnCourse(g, at, TRUE, d, m, st)
    <2>1. c \in Squares(g)
      BY <1>1, SquareFits
    <2>2. OnCourse(g, at, TRUE, c, m, st) /\ ~IsMatch(g, c) /\ Follows(g, c) = <<d>>
      BY <1>3 DEF RunsWell
    <2> HIDE DEF c, d
    <2> QED
      BY <2>1, <2>2, CourseOn
  <1> QED
    BY <1>2, <1>3 DEF RunsWell

LEMMA GetsStuck ==
  ASSUME NEW g, NEW at, NEW p, NEW s, NEW m, NEW st, RunsWell(g, at, p, s, m, st),
         RefersToText(g) => /\ ~IsMatch(g, Square(p, s, View(g, m)))
                            /\ Follows(g, Square(p, s, View(g, m))) = << >>
  PROVE  FailsWell(g, at, p, s, m, st)
  <1> DEFINE c == Square(p, s, View(g, m))
  <1>1. ASSUME RefersToText(g)
        PROVE  OnCourse(g, at, FALSE, c, m, st)
    <2>1. OnCourse(g, at, TRUE, c, m, st) /\ ~IsMatch(g, c) /\ Follows(g, c) = << >>
      BY <1>1 DEF RunsWell
    <2> HIDE DEF c
    <2> QED
      BY <2>1, CourseStuck
  <1> QED
    BY <1>1 DEF RunsWell, FailsWell

LEMMA CharWell ==
  ASSUME NEW g, GameOK(g), NEW at, NEW p, NEW s, NEW m, NEW st, RunsWell(g, at, p, s, m, st), g.insts[p + 1].op = "char"
  PROVE  LET hit == s < Len(g.text) /\ Matches(g.insts[p + 1].class, g.text[s + 1])
         IN  /\ hit => RunsWell(g, at, p + 1, s + 1, m, st)
             /\ ~hit => FailsWell(g, at, p, s, m, st)
  <1> DEFINE v == View(g, m)
             c == Square(p, s, v)
             i == g.insts[p + 1]
             hit == s < Len(g.text) /\ Matches(i.class, g.text[s + 1])
             q == p + 1
             to == s + 1
  <1>1. p \in Nat /\ p + 1 \in DOMAIN g.insts /\ s \in Nat /\ s <= Len(g.text) /\ Len(g.text) \in Nat
    BY DEF RunsWell, Fits, GameOK
  <1>2. q + 1 \in DOMAIN g.insts /\ q \in Nat /\ to \in Nat
    BY <1>1, ProgramFacts
  <1>3. hit => to <= Len(g.text)
    BY <1>1
  <1>4. Follows(g, c) = CharFollows(g, c, i) /\ ~IsMatch(g, c)
    BY CharAt
  <1>5. c.pc = p /\ c.sp = s /\ c.saved = v
    BY SquareFacts
  <1> HIDE DEF c, v
  <1>6. Follows(g, c) = IF hit THEN <<Square(q, to, v)>> ELSE << >>
    BY <1>4, <1>5 DEF CharFollows, OnIf
  <1>7. RunsWell(g, at, p, s, m, st)
    OBVIOUS
  <1> HIDE DEF hit, q, to
  <1>8. ASSUME hit PROVE RunsWell(g, at, q, to, m, st)
    <2>1. to <= Len(g.text) /\ ~IsMatch(g, c) /\ Follows(g, c) = <<Square(q, to, v)>>
      BY <1>3, <1>4, <1>6, <1>8
    <2> QED
      BY <1>2, <1>7, <2>1, GoesOn DEF c, v
  <1>9. ASSUME ~hit PROVE FailsWell(g, at, p, s, m, st)
    <2>1. ~IsMatch(g, c) /\ Follows(g, c) = << >>
      BY <1>4, <1>6, <1>9
    <2> QED
      BY <1>7, <2>1, GetsStuck DEF c, v
  <1> QED
    BY <1>8, <1>9 DEF hit, q, to

LEMMA JmpWell ==
  ASSUME NEW g, GameOK(g), NEW at, NEW p, NEW s, NEW m, NEW st, RunsWell(g, at, p, s, m, st), g.insts[p + 1].op = "jmp"
  PROVE  RunsWell(g, at, g.insts[p + 1].to, s, m, st)
  <1> DEFINE c == Square(p, s, View(g, m))
             q == g.insts[p + 1].to
  <1>1. p \in Nat /\ p + 1 \in DOMAIN g.insts /\ s \in Nat /\ s <= Len(g.text)
    BY DEF RunsWell, Fits
  <1>2. q \in Nat /\ q + 1 \in DOMAIN g.insts
    BY <1>1, ProgramFacts
  <1>3. Follows(g, c) = <<Square(q, s, View(g, m))>> /\ ~IsMatch(g, c)
    BY JmpAt
  <1> HIDE DEF c, q
  <1>4. RunsWell(g, at, q, s, m, st)
    BY <1>1, <1>2, <1>3, GoesOn DEF c
  <1> QED
    BY <1>4 DEF q

LEMMA TailWell ==
  ASSUME NEW g, NEW at, NEW p, NEW s, NEW m, NEW st, RunsWell(g, at, p, s, m, st), g.insts[p + 1].op = "tailMatch",
         s < Len(g.text), s \in Nat, Len(g.text) \in Nat
  PROVE  FailsWell(g, at, p, s, m, st)
  <1> DEFINE c == Square(p, s, View(g, m))
  <1>1. ~(s >= Len(g.text))
    OBVIOUS
  <1>2. Follows(g, c) = << >> /\ ~IsMatch(g, c)
    BY <1>1, TailAt
  <1> HIDE DEF c
  <1> QED
    BY <1>2, GetsStuck DEF c

LEMMA SplitWell ==
  ASSUME NEW g, GameOK(g), NEW at, NEW p, NEW s, NEW m, NEW st, RunsWell(g, at, p, s, m, st), g.insts[p + 1].op = "split"
  PROVE  RunsWell(g, at, g.insts[p + 1].first, s, m, Append(st, [is |-> "split", pc |-> g.insts[p + 1].second, sp |-> s]))
  <1> DEFINE v == View(g, m)
             c == Square(p, s, v)
             q == g.insts[p + 1].first
             r == g.insts[p + 1].second
             x == [is |-> "split", pc |-> r, sp |-> s]
             t == Append(st, x)
  <1>1. /\ p \in Nat /\ p + 1 \in DOMAIN g.insts /\ s \in Nat /\ s <= Len(g.text)
        /\ m \in Seq(AnySlot) /\ v \in [TextSlots(g) -> TextSlot]
        /\ st \in Seq(Entries) /\ \A j \in 1 .. Len(st) : EntryFits(g, m, st[j])
    BY DEF RunsWell, Fits
  <1>2. q \in Nat /\ q + 1 \in DOMAIN g.insts /\ r \in Nat /\ r + 1 \in DOMAIN g.insts
    BY <1>1, ProgramFacts
  <1>3. Follows(g, c) = <<Square(q, s, v), Square(r, s, v)>> /\ ~IsMatch(g, c)
    BY SplitAt
  <1>4. c \in Squares(g)
    BY SquareFits DEF RunsWell
  <1>5. RefersToText(g) => OnCourse(g, at, TRUE, c, m, st)
    BY DEF RunsWell
  <1> HIDE DEF c, q, r
  <1>6. x.is = "split" /\ x.pc = r /\ x.sp = s
    OBVIOUS
  <1>7. x \in Entries
    BY <1>1, <1>2 DEF Entries, ChoiceEntries
  <1> HIDE DEF x
  <1>8. /\ t \in Seq(Entries) /\ Len(t) = Len(st) + 1 /\ t[Len(st) + 1] = x /\ Len(st) \in Nat
        /\ \A j \in 1 .. Len(st) : t[j] = st[j]
    BY <1>1, <1>7, Appended
  <1>9. EntryFits(g, m, x)
    BY <1>1, <1>2, <1>6 DEF EntryFits
  <1>10. ASSUME RefersToText(g) PROVE OnCourse(g, at, TRUE, Square(q, s, v), m, t)
    <2> DEFINE d == Square(q, s, v)
    <2>1. Follows(g, c) = <<d, Square(x.pc, x.sp, View(g, m))>>
      BY <1>3, <1>6
    <2>2. /\ c \in Squares(g) /\ st \in Seq(Entries) /\ x \in Entries /\ x.is = "split"
          /\ OnCourse(g, at, TRUE, c, m, st) /\ ~IsMatch(g, c)
      BY <1>1, <1>3, <1>4, <1>5, <1>6, <1>7, <1>10
    <2> HIDE DEF d, v
    <2>3. OnCourse(g, at, TRUE, d, m, t)
      BY <2>1, <2>2, CourseFork
    <2> QED
      BY <2>3 DEF d
  <1> HIDE DEF t
  <1>11. \A j \in 1 .. Len(t) : EntryFits(g, m, t[j])
    BY <1>1, <1>8, <1>9
  <1>12. RunsWell(g, at, q, s, m, t)
    BY <1>1, <1>2, <1>8, <1>10, <1>11 DEF RunsWell, Fits
  <1> QED
    BY <1>12 DEF q, r, x, t

LEMMA SaveWell ==
  ASSUME NEW g, GameOK(g), NEW at, NEW p, NEW s, NEW m, NEW st, RunsWell(g, at, p, s, m, st), g.insts[p + 1].op = "save"
  PROVE  RunsWell(g, at, p + 1, s, setCapture(m, g.insts[p + 1].to, s), Append(st, Undo(m, g.insts[p + 1].to)))
  <1> DEFINE v == View(g, m)
             c == Square(p, s, v)
             q == p + 1
             to == g.insts[p + 1].to
             n == setCapture(m, to, s)
             t == Append(st, Undo(m, to))
  <1>1. p \in Nat /\ p + 1 \in DOMAIN g.insts /\ s \in Nat /\ s <= Len(g.text) /\ Fits(g, p, s, m, st)
    BY DEF RunsWell, Fits
  <1>2. q \in Nat /\ q + 1 \in DOMAIN g.insts /\ to \in Nat
    BY <1>1, ProgramFacts
  <1>3. Follows(g, c) = <<Square(q, s, Put(v, to, Slot(s, FALSE)))>> /\ ~IsMatch(g, c)
    BY SaveAt DEF Put
  <1>4. c \in Squares(g)
    BY <1>1, SquareFits
  <1>5. RefersToText(g) => OnCourse(g, at, TRUE, c, m, st)
    BY DEF RunsWell
  <1> HIDE DEF c, q, to
  <1>6. /\ View(g, n) = Put(v, to, Slot(s, FALSE))
        /\ Fits(g, p, s, n, t)
        /\ \A e : LeadsTo(g, n, t, e) <=> LeadsTo(g, m, st, e)
        /\ MayMatch(g, n, t) <=> MayMatch(g, m, st)
    <2>1. s \in Nat /\ to \in Nat /\ Fits(g, p, s, m, st)
      BY <1>1, <1>2
    <2> QED
      BY <2>1, SavePushed
  <1> DEFINE d == Square(q, s, View(g, n))
  <1>7. Follows(g, c) = <<d>>
    BY <1>3, <1>6
  <1> HIDE DEF d, n, t, v
  <1>8. Fits(g, q, s, n, t)
    BY <1>1, <1>2, <1>6, FitsElsewhere
  <1>9. ASSUME RefersToText(g) PROVE OnCourse(g, at, TRUE, d, n, t)
    BY <1>3, <1>4, <1>5, <1>6, <1>7, <1>9, CourseOn
  <1>10. RunsWell(g, at, q, s, n, t)
    BY <1>8, <1>9 DEF RunsWell, d
  <1> QED
    BY <1>10 DEF n, t, q, to

LEMMA PSaveWell ==
  ASSUME NEW g, GameOK(g), NEW at, NEW p, NEW s, NEW m, NEW st, RunsWell(g, at, p, s, m, st), g.insts[p + 1].op = "psave"
  PROVE  RunsWell(g, at, p + 1, s, addPosCapture(m, g.insts[p + 1].to, s + 1), st)
  <1> DEFINE v == View(g, m)
             c == Square(p, s, v)
             q == p + 1
             to == g.insts[p + 1].to
             pos == s + 1
             n == addPosCapture(m, to, pos)
  <1>1. p \in Nat /\ p + 1 \in DOMAIN g.insts /\ s \in Nat /\ s <= Len(g.text) /\ Fits(g, p, s, m, st) /\ pos \in Nat
    BY DEF RunsWell, Fits
  <1>2. q \in Nat /\ q + 1 \in DOMAIN g.insts /\ to \in Nat
    BY <1>1, ProgramFacts
  <1>3. Follows(g, c) = <<Square(q, s, v)>> /\ ~IsMatch(g, c)
    BY PSaveAt
  <1>4. c \in Squares(g)
    BY <1>1, SquareFits
  <1>5. RefersToText(g) => OnCourse(g, at, TRUE, c, m, st)
    BY DEF RunsWell
  <1>6. to \notin TextSlots(g) /\ to + 1 \notin TextSlots(g)
    BY <1>1, PositionSlots
  <1> HIDE DEF c, q, to, pos
  <1>7. View(g, n) = v /\ Fits(g, p, s, n, st)
    BY <1>1, <1>2, <1>6, PositionStored
  <1>8. /\ \A e : LeadsTo(g, n, st, e) <=> LeadsTo(g, m, st, e)
        /\ MayMatch(g, n, st) <=> MayMatch(g, m, st)
    BY <1>7, SameView
  <1> DEFINE d == Square(q, s, View(g, n))
  <1>9. Follows(g, c) = <<d>>
    BY <1>3, <1>7
  <1> HIDE DEF d, n, v
  <1>10. Fits(g, q, s, n, st)
    BY <1>1, <1>2, <1>7, FitsElsewhere
  <1>11. ASSUME RefersToText(g) PROVE OnCourse(g, at, TRUE, d, n, st)
    BY <1>3, <1>4, <1>5, <1>8, <1>9, <1>11, CourseOn
  <1>12. RunsWell(g, at, q, s, n, st)
    BY <1>10, <1>11 DEF RunsWell, d
  <1> QED
    BY <1>12 DEF n, q, to, pos

LEMMA BraceWell ==
  ASSUME NEW g, GameOK(g), NEW at, NEW p, NEW s, NEW m, NEW st, RunsWell(g, at, p, s, m, st), g.insts[p + 1].op = "brace"
  PROVE  LET i == g.insts[p + 1]
             closings == ClosingsIn(g.text, s, i.begin, i.end)
             hit == s < Len(g.text) /\ g.text[s + 1] = i.begin /\ closings # {}
         IN  /\ hit => RunsWell(g, at, p + 1, Min(closings), m, st)
             /\ ~hit => FailsWell(g, at, p, s, m, st)
  <1> DEFINE v == View(g, m)
             c == Square(p, s, v)
             i == g.insts[p + 1]
             closings == ClosingsIn(g.text, s, i.begin, i.end)
             hit == s < Len(g.text) /\ g.text[s + 1] = i.begin /\ closings # {}
             q == p + 1
             to == Min(closings)
  <1>1. p \in Nat /\ p + 1 \in DOMAIN g.insts /\ s \in Nat /\ s <= Len(g.text) /\ Len(g.text) \in Nat
    BY DEF RunsWell, Fits, GameOK
  <1>2. q + 1 \in DOMAIN g.insts /\ q \in Nat
    BY <1>1, ProgramFacts
  <1>3. Follows(g, c) = BraceFollows(g, c, i) /\ ~IsMatch(g, c)
    BY BraceAt
  <1>4. c.pc = p /\ c.sp = s /\ c.saved = v
    BY SquareFacts
  <1> HIDE DEF c, v, i
  <1>5. Follows(g, c) = IF hit THEN <<Square(q, to, v)>> ELSE << >>
    BY <1>3, <1>4 DEF BraceFollows, OnIf
  <1>6. \A k \in closings : k \in Nat /\ k <= Len(g.text)
    BY <1>1 DEF ClosingsIn
  <1>7. RunsWell(g, at, p, s, m, st)
    OBVIOUS
  <1> HIDE DEF closings
  <1>8. ASSUME hit PROVE to \in Nat /\ to <= Len(g.text)
    <2>1. PICK k \in closings : TRUE
      BY <1>8
    <2>2. to \in closings
      BY <1>6, <2>1, MinIsLeast
    <2> QED
      BY <1>6, <2>2
  <1> HIDE DEF hit, q, to
  <1>9. ASSUME hit PROVE RunsWell(g, at, q, to, m, st)
    <2>1. to \in Nat /\ to <= Len(g.text) /\ ~IsMatch(g, c) /\ Follows(g, c) = <<Square(q, to, v)>>
      BY <1>3, <1>5, <1>8, <1>9
    <2> QED
      BY <1>2, <1>7, <2>1, GoesOn DEF c, v
  <1>10. ASSUME ~hit PROVE FailsWell(g, at, p, s, m, st)
    <2>1. ~IsMatch(g, c) /\ Follows(g, c) = << >>
      BY <1>3, <1>5, <1>10
    <2> QED
      BY <1>7, <2>1, GetsStuck DEF c, v
  <1> QED
    BY <1>9, <1>10 DEF hit, q, to, closings, i

(* Of captures that hold text the machine reads what the place in the game
   knows. *)
LEMMA CaptureSeen ==
  ASSUME NEW g, NEW m \in Seq(AnySlot), NEW s \in Nat, s < Len(m)
  PROVE  /\ Capture(m, s) \in Nat
         /\ s \in TextSlots(g) => View(g, m)[s].at = Capture(m, s)
  <1>1. s + 1 \in 1 .. Len(m) /\ Len(m) \in Nat
    OBVIOUS
  <1>2. m[s + 1] \in AnySlot
    BY <1>1
  <1>3. Capture(m, s) = m[s + 1].at /\ Capture(m, s) \in Nat
    BY <1>2, SlotFacts DEF Capture
  <1>4. s \in TextSlots(g) => View(g, m)[s] = m[s + 1]
    BY DEF View
  <1> QED
    BY <1>3, <1>4

LEMMA NumberWell ==
  ASSUME NEW g, GameOK(g), NEW at, NEW p, NEW s, NEW m, NEW st, RunsWell(g, at, p, s, m, st), g.insts[p + 1].op = "number"
  PROVE  LET idx == 2 * g.insts[p + 1].to
             from == Capture(m, idx)
             to == Capture(m, idx + 1)
             n == to - from
             hit == s + n <= Len(g.text) /\ Between(g.text, s, s + n) = Between(g.text, from, to)
         IN  ~(idx >= Len(m) - 1) /\ ~(from > to \/ to > Len(g.text)) =>
               /\ hit => RunsWell(g, at, p + 1, s + n, m, st)
               /\ ~hit => FailsWell(g, at, p, s, m, st)
  <1> DEFINE v == View(g, m)
             c == Square(p, s, v)
             i == g.insts[p + 1]
             idx == 2 * i.to
             next == idx + 1
             from == Capture(m, idx)
             to == Capture(m, next)
             n == to - from
             end == s + n
             hit == end <= Len(g.text) /\ Between(g.text, s, end) = Between(g.text, from, to)
             q == p + 1
  <1>3. Follows(g, c) = NumberFollows(g, c, i) /\ ~IsMatch(g, c)
    BY NumberAt
  <1> SUFFICES ASSUME ~(idx >= Len(m) - 1), ~(from > to \/ to > Len(g.text))
               PROVE  /\ hit => RunsWell(g, at, q, end, m, st)
                      /\ ~hit => FailsWell(g, at, p, s, m, st)
    OBVIOUS
  <1>1. p \in Nat /\ p + 1 \in DOMAIN g.insts /\ s \in Nat /\ s <= Len(g.text) /\ Len(g.text) \in Nat /\ m \in Seq(AnySlot)
    BY DEF RunsWell, Fits, GameOK
  <1>2. q + 1 \in DOMAIN g.insts /\ q \in Nat /\ i.to \in Nat
    BY <1>1, ProgramFacts
  <1>4. c.pc = p /\ c.sp = s /\ c.saved = v
    BY SquareFacts
  <1>5. RefersToText(g) => Named(i) \subseteq TextSlots(g)
    BY <1>1 DEF RefersToText
  <1>6. Named(i) = {idx, next}
    BY DEF Named
  <1>7. ~(idx >= Len(m) - 1) /\ ~(from > to \/ to > Len(g.text)) /\ Len(m) \in Nat
    BY <1>1
  <1> HIDE DEF c, v, i
  <1>8. idx \in Nat /\ next \in Nat /\ idx < Len(m) /\ next < Len(m)
    BY <1>2, <1>7
  <1> HIDE DEF idx, next
  <1>9. /\ from \in Nat /\ to \in Nat
        /\ RefersToText(g) => v[idx].at = from /\ v[next].at = to
    BY <1>1, <1>5, <1>6, <1>8, CaptureSeen DEF v
  <1> HIDE DEF from, to
  <1>10. end \in Nat /\ from <= to /\ to <= Len(g.text)
    BY <1>1, <1>7, <1>9
  <1>11. RefersToText(g) => Follows(g, c) = IF hit THEN <<Square(q, end, v)>> ELSE << >>
    <2>1. NumberFollows(g, c, i) =
            LET a == v[idx].at
                b == v[next].at
                e == s + (b - a)
            IN  IF a <= b /\ b <= Len(g.text) /\ e <= Len(g.text) /\ Between(g.text, s, e) = Between(g.text, a, b)
                THEN <<Square(q, e, v)>> ELSE << >>
      BY <1>4 DEF NumberFollows, OnIf, idx, next
    <2> QED
      BY <1>3, <1>9, <1>10, <2>1
  <1>12. RunsWell(g, at, p, s, m, st)
    OBVIOUS
  <1>13. hit => end <= Len(g.text)
    OBVIOUS
  <1> HIDE DEF hit, end, q
  <1>14. ASSUME hit PROVE RunsWell(g, at, q, end, m, st)
    <2>1. /\ end \in Nat /\ end <= Len(g.text)
          /\ RefersToText(g) => ~IsMatch(g, c) /\ Follows(g, c) = <<Square(q, end, v)>>
      BY <1>3, <1>10, <1>11, <1>13, <1>14
    <2> QED
      BY <1>2, <1>12, <2>1, GoesOn DEF c, v
  <1>15. ASSUME ~hit PROVE FailsWell(g, at, p, s, m, st)
    <2>1. RefersToText(g) => ~IsMatch(g, c) /\ Follows(g, c) = << >>
      BY <1>3, <1>11, <1>15
    <2> QED
      BY <1>12, <2>1, GetsStuck DEF c, v
  <1> QED
    BY <1>14, <1>15

LEMMA BackToChoice ==
  ASSUME NEW g, NEW at, NEW p, NEW s, NEW m, NEW t, FailsWell(g, at, p, s, m, t), t # << >>, Last(t).is = "split"
  PROVE  RunsWell(g, at, Last(t).pc, Last(t).sp, m, Front(t))
  <1> DEFINE st == Front(t)
             x == Last(t)
             q == x.pc
             to == x.sp
  <1>1. /\ p \in Nat /\ p + 1 \in DOMAIN g.insts /\ s \in Nat /\ s <= Len(g.text)
        /\ m \in Seq(AnySlot) /\ View(g, m) \in [TextSlots(g) -> TextSlot]
        /\ t \in Seq(Entries) /\ \A j \in 1 .. Len(t) : EntryFits(g, m, t[j])
    BY DEF FailsWell, Fits
  <1>2. /\ st \in Seq(Entries) /\ x \in Entries /\ t = Append(st, x)
        /\ Len(t) = Len(st) + 1 /\ t[Len(t)] = x /\ Len(t) \in Nat \ {0}
        /\ \A j \in 1 .. Len(st) : t[j] = st[j]
    BY <1>1, FrontAndLast
  <1>3. RefersToText(g) => OnCourse(g, at, FALSE, Square(p, s, View(g, m)), m, t)
    BY DEF FailsWell
  <1>4. x.is = "split"
    OBVIOUS
  <1> HIDE DEF x, st
  <1>5. q \in Nat /\ to \in Nat
    BY <1>2, <1>4 DEF Entries, ChoiceEntries, UndoEntries
  <1>6. EntryFits(g, m, x)
    BY <1>1, <1>2
  <1>7. q + 1 \in DOMAIN g.insts /\ to <= Len(g.text)
    BY <1>4, <1>6 DEF EntryFits
  <1>8. \A j \in 1 .. Len(st) : EntryFits(g, m, st[j])
    BY <1>1, <1>2
  <1>9. ASSUME RefersToText(g) PROVE OnCourse(g, at, TRUE, Square(q, to, View(g, m)), m, st)
    <2> DEFINE c == Square(p, s, View(g, m))
    <2>1. OnCourse(g, at, FALSE, c, m, Append(st, x))
      BY <1>2, <1>3, <1>9
    <2> HIDE DEF c
    <2> QED
      BY <1>2, <1>4, <2>1, CourseBack
  <1> HIDE DEF q, to
  <1>10. RunsWell(g, at, q, to, m, st)
    BY <1>1, <1>2, <1>5, <1>7, <1>8, <1>9 DEF RunsWell, Fits
  <1> QED
    BY <1>10 DEF q, to, x, st

LEMMA BackOverSave ==
  ASSUME NEW g, GameOK(g), NEW at, NEW p, NEW s, NEW m, NEW t, FailsWell(g, at, p, s, m, t), t # << >>, Last(t).is = "save"
  PROVE  FailsWell(g, at, p, s, [m EXCEPT ![Last(t).slot + 1] = Last(t).old], Front(t))
  <1> DEFINE st == Front(t)
             x == Last(t)
             n == [m EXCEPT ![x.slot + 1] = x.old]
  <1>1. t \in Seq(Entries) /\ Fits(g, p, s, m, t)
    BY DEF FailsWell, Fits
  <1>2. st \in Seq(Entries) /\ x \in Entries /\ t = Append(st, x)
    BY <1>1, FrontAndLast
  <1>3. RefersToText(g) => OnCourse(g, at, FALSE, Square(p, s, View(g, m)), m, t)
    BY DEF FailsWell
  <1>4. x.is = "save"
    OBVIOUS
  <1> HIDE DEF x, st
  <1>5. Fits(g, p, s, m, Append(st, x))
    BY <1>1, <1>2
  <1>6. /\ Fits(g, p, s, n, st)
        /\ \A e : LeadsTo(g, n, st, e) <=> LeadsTo(g, m, Append(st, x), e)
        /\ MayMatch(g, n, st) <=> MayMatch(g, m, Append(st, x))
    BY <1>2, <1>4, <1>5, UndonePopped
  <1> HIDE DEF n
  <1>7. /\ \A e : LeadsTo(g, n, st, e) <=> LeadsTo(g, m, t, e)
        /\ MayMatch(g, n, st) <=> MayMatch(g, m, t)
    BY <1>2, <1>6
  <1>8. ASSUME RefersToText(g) PROVE OnCourse(g, at, FALSE, Square(p, s, View(g, n)), n, st)
    <2> DEFINE c == Square(p, s, View(g, m))
               d == Square(p, s, View(g, n))
    <2>1. OnCourse(g, at, FALSE, c, m, t)
      BY <1>3, <1>8
    <2> HIDE DEF c, d
    <2>2. OnCourse(g, at, FALSE, d, n, st)
      BY <1>7, <2>1, CourseUndone
    <2> QED
      BY <2>2 DEF d
  <1>9. FailsWell(g, at, p, s, n, st)
    BY <1>6, <1>8 DEF FailsWell
  <1> QED
    BY <1>9 DEF n, x, st

LEMMA BeginsWell ==
  ASSUME NEW g, GameOK(g), NEW at \in Nat, at <= Len(g.text)
  PROVE  RunsWell(g, at, 0, at, << >>, << >>)
  <1>1. Fits(g, 0, at, << >>, << >>)
    BY FitsBegins
  <1>2. OnCourse(g, at, TRUE, Origin(g, at), << >>, << >>)
    BY CourseBegins
  <1> QED
    BY <1>1, <1>2 DEF RunsWell, Origin

LEMMA MatchDecides ==
  ASSUME NEW g, NEW at, NEW p, NEW s, NEW m, NEW st, RunsWell(g, at, p, s, m, st), RefersToText(g),
         g.insts[p + 1].op = "match" \/ (g.insts[p + 1].op = "tailMatch" /\ s >= Len(g.text))
  PROVE  Ends(g, Origin(g, at), Square(p, s, View(g, m)))
  <1> DEFINE c == Square(p, s, View(g, m))
  <1>1. c \in Squares(g) /\ OnCourse(g, at, TRUE, c, m, st)
    BY SquareFits DEF RunsWell
  <1>2. IsMatch(g, c)
    BY MatchAt
  <1> HIDE DEF c
  <1>3. Ends(g, Origin(g, at), c)
    BY <1>1, <1>2, CourseMatched
  <1> QED
    BY <1>3 DEF c

LEMMA FailureDecides ==
  ASSUME NEW g, NEW at, NEW p, NEW s, NEW m, FailsWell(g, at, p, s, m, << >>), RefersToText(g)
  PROVE  ~Accepts(g, Origin(g, at))
  BY CourseFailed DEF FailsWell

-----------------------------------------------------------------------------
(* The inductive invariant: what the machine holds fits its program, and the
   attempt is on its course. *)
PatternInv ==
  /\ call \in Calls /\ compiled = Compiled(call.pattern)
  /\ InAttempt => "error" \notin DOMAIN compiled /\ start \in Nat /\ start <= Len(src)
  /\ phase = "run" => RunsWell(Game, start, pc, sp, captures, stack)
  /\ phase = "fail" => FailsWell(Game, start, pc, sp, captures, stack)

LEMMA GameIsOK ==
  ASSUME PatternInv, "error" \notin DOMAIN compiled
  PROVE  GameOK(Game) /\ call.offset \in Nat
  BY CallsAssumption DEF PatternInv, GameOK, Game, src

LEMMA GameFacts == Game.insts = compiled.insts /\ Game.text = src
  BY DEF Game

LEMMA RunsOn ==
  ASSUME PatternInv, InAttempt, call' = call, compiled' = compiled, start' = start, phase' = "run",
         RunsWell(Game, start, pc', sp', captures', stack')
  PROVE  PatternInv'
  <1>1. Game' = Game /\ src' = src
    BY DEF Game, src
  <1> QED
    BY <1>1 DEF PatternInv, InAttempt

LEMMA FailsOn ==
  ASSUME PatternInv, InAttempt, call' = call, compiled' = compiled, start' = start, phase' = "fail",
         FailsWell(Game, start, pc', sp', captures', stack')
  PROVE  PatternInv'
  <1>1. Game' = Game /\ src' = src
    BY DEF Game, src
  <1> QED
    BY <1>1 DEF PatternInv, InAttempt

LEMMA Rests ==
  ASSUME PatternInv, call' = call, compiled' = compiled, ~InAttempt'
  PROVE  PatternInv'
  BY DEF PatternInv, InAttempt

LEMMA NextAttempt ==
  ASSUME PatternInv, "error" \notin DOMAIN compiled, call' = call, compiled' = compiled, NEW at \in Nat, Try(at)
  PROVE  PatternInv'
  <1>1. CASE at <= Len(call.subject)
    <2> DEFINE none == << >>
               zero == 0
    <2>1. phase' = "run" /\ start' = at /\ pc' = zero /\ sp' = at /\ captures' = none /\ stack' = none
      BY <1>1 DEF Try
    <2>2. at <= Len(Game.text) /\ GameOK(Game)
      BY <1>1, GameIsOK, GameFacts DEF src
    <2>3. RunsWell(Game, at, zero, at, none, none)
      BY <2>2, BeginsWell
    <2> HIDE DEF none, zero
    <2>4. Game' = Game /\ src' = src
      BY DEF Game, src
    <2>5. RunsWell(Game', start', pc', sp', captures', stack')
      BY <2>1, <2>3, <2>4
    <2>6. start' \in Nat /\ start' <= Len(src')
      BY <1>1, <2>1, <2>4 DEF src
    <2> QED
      BY <2>1, <2>5, <2>6 DEF PatternInv, InAttempt
  <1>2. CASE ~(at <= Len(call.subject))
    <2>1. phase' = "found"
      BY <1>2 DEF Try
    <2> QED
      BY <2>1, Rests DEF InAttempt
  <1> QED
    BY <1>1, <1>2

LEMMA AttemptEnded ==
  ASSUME PatternInv, InAttempt, NEW ok, AttemptEnds(ok, sp)
  PROVE  PatternInv'
  <1>1. start \in Nat /\ "error" \notin DOMAIN compiled
    BY DEF PatternInv
  <1>2. sp \in Nat
    BY DEF PatternInv, InAttempt, RunsWell, FailsWell, Fits
  <1>3. call' = call /\ compiled' = compiled
    BY DEF AttemptEnds
  <1> DEFINE next == IF ok /\ start + 1 < sp THEN sp ELSE start + 1
  <1>4. next \in Nat
    BY <1>1, <1>2
  <1>5. phase' = "found" \/ Try(next)
    BY DEF AttemptEnds
  <1> HIDE DEF next
  <1>6. CASE phase' = "found"
    BY <1>3, <1>6, Rests DEF InAttempt
  <1>7. CASE Try(next)
    BY <1>1, <1>3, <1>4, <1>7, NextAttempt
  <1> QED
    BY <1>5, <1>6, <1>7

LEMMA RunFacts ==
  ASSUME PatternInv, phase = "run"
  PROVE  /\ InAttempt /\ GameOK(Game)
         /\ RunsWell(Game, start, pc, sp, captures, stack)
         /\ Game.insts[pc + 1] = Inst /\ Game.text = src
         /\ sp \in Nat /\ Len(src) \in Nat
  <1>1. InAttempt
    BY DEF InAttempt
  <1>2. "error" \notin DOMAIN compiled
    BY <1>1 DEF PatternInv
  <1>3. GameOK(Game)
    BY <1>2, GameIsOK
  <1>4. RunsWell(Game, start, pc, sp, captures, stack)
    BY DEF PatternInv
  <1>5. Game.insts[pc + 1] = Inst /\ Game.text = src
    BY GameFacts DEF Inst
  <1>6. sp \in Nat
    BY <1>4 DEF RunsWell, Fits
  <1>7. Len(src) \in Nat
    BY <1>3, <1>5 DEF GameOK
  <1> QED
    BY <1>1, <1>3, <1>4, <1>5, <1>6, <1>7

LEMMA StepChar ==
  ASSUME PatternInv, Char1
  PROVE  PatternInv'
  <1> DEFINE hit == sp < Len(src) /\ Matches(Inst.class, src[sp + 1])
  <1>1. phase = "run" /\ Inst.op = "char" /\ call' = call /\ compiled' = compiled /\ start' = start
    BY DEF Char1, Running, Others
  <1>2. /\ InAttempt /\ GameOK(Game) /\ RunsWell(Game, start, pc, sp, captures, stack)
        /\ Game.insts[pc + 1] = Inst /\ Game.text = src
    BY <1>1, RunFacts
  <1>3. /\ hit => RunsWell(Game, start, pc + 1, sp + 1, captures, stack)
        /\ ~hit => FailsWell(Game, start, pc, sp, captures, stack)
    BY <1>1, <1>2, CharWell
  <1>4. CASE hit
    <2>1. phase' = "run" /\ pc' = pc + 1 /\ sp' = sp + 1 /\ captures' = captures /\ stack' = stack
      BY <1>4 DEF Char1, Goto
    <2> QED
      BY <1>1, <1>2, <1>3, <1>4, <2>1, RunsOn
  <1>5. CASE ~hit
    <2>1. phase' = "fail" /\ pc' = pc /\ sp' = sp /\ captures' = captures /\ stack' = stack
      BY <1>5 DEF Char1, Fail, machine
    <2> QED
      BY <1>1, <1>2, <1>3, <1>5, <2>1, FailsOn
  <1> QED
    BY <1>4, <1>5

LEMMA StepJmp ==
  ASSUME PatternInv, Jmp
  PROVE  PatternInv'
  <1>1. phase = "run" /\ Inst.op = "jmp" /\ call' = call /\ compiled' = compiled /\ start' = start
    BY DEF Jmp, Running, Others
  <1>2. /\ InAttempt /\ GameOK(Game) /\ RunsWell(Game, start, pc, sp, captures, stack)
        /\ Game.insts[pc + 1] = Inst /\ Game.text = src
    BY <1>1, RunFacts
  <1>3. RunsWell(Game, start, Inst.to, sp, captures, stack)
    BY <1>1, <1>2, JmpWell
  <1>4. phase' = "run" /\ pc' = Inst.to /\ sp' = sp
    BY DEF Jmp, Goto
  <1>5. captures' = captures /\ stack' = stack
    BY DEF Jmp
  <1> QED
    BY <1>1, <1>2, <1>3, <1>4, <1>5, RunsOn

LEMMA StepBranch ==
  ASSUME PatternInv, Branch
  PROVE  PatternInv'
  <1>1. phase = "run" /\ Inst.op = "split" /\ call' = call /\ compiled' = compiled /\ start' = start
    BY DEF Branch, Running, Others
  <1>2. /\ InAttempt /\ GameOK(Game) /\ RunsWell(Game, start, pc, sp, captures, stack)
        /\ Game.insts[pc + 1] = Inst /\ Game.text = src
    BY <1>1, RunFacts
  <1>3. RunsWell(Game, start, Inst.first, sp, captures, Append(stack, [is |-> "split", pc |-> Inst.second, sp |-> sp]))
    BY <1>1, <1>2, SplitWell
  <1>4. phase' = "run" /\ pc' = Inst.first /\ sp' = sp
    BY DEF Branch, Goto
  <1>5. captures' = captures /\ stack' = Append(stack, [is |-> "split", pc |-> Inst.second, sp |-> sp])
    BY DEF Branch
  <1> QED
    BY <1>1, <1>2, <1>3, <1>4, <1>5, RunsOn

LEMMA StepSave ==
  ASSUME PatternInv, Save
  PROVE  PatternInv'
  <1>1. phase = "run" /\ Inst.op = "save" /\ call' = call /\ compiled' = compiled /\ start' = start
    BY DEF Save, Running, Others
  <1>2. /\ InAttempt /\ GameOK(Game) /\ RunsWell(Game, start, pc, sp, captures, stack)
        /\ Game.insts[pc + 1] = Inst /\ Game.text = src
    BY <1>1, RunFacts
  <1>3. RunsWell(Game, start, pc + 1, sp, setCapture(captures, Inst.to, sp), Append(stack, Undo(captures, Inst.to)))
    BY <1>1, <1>2, SaveWell
  <1>4. phase' = "run" /\ pc' = pc + 1 /\ sp' = sp
    BY DEF Save, Goto
  <1>5. captures' = setCapture(captures, Inst.to, sp) /\ stack' = Append(stack, Undo(captures, Inst.to))
    BY DEF Save, Undo, OldSlot
  <1> QED
    BY <1>1, <1>2, <1>3, <1>4, <1>5, RunsOn

LEMMA StepPSave ==
  ASSUME PatternInv, PSave
  PROVE  PatternInv'
  <1>1. phase = "run" /\ Inst.op = "psave" /\ call' = call /\ compiled' = compiled /\ start' = start
    BY DEF PSave, Running, Others
  <1>2. /\ InAttempt /\ GameOK(Game) /\ RunsWell(Game, start, pc, sp, captures, stack)
        /\ Game.insts[pc + 1] = Inst /\ Game.text = src
    BY <1>1, RunFacts
  <1>3. RunsWell(Game, start, pc + 1, sp, addPosCapture(captures, Inst.to, sp + 1), stack)
    BY <1>1, <1>2, PSaveWell
  <1>4. phase' = "run" /\ pc' = pc + 1 /\ sp' = sp
    BY DEF PSave, Goto
  <1>5. captures' = addPosCapture(captures, Inst.to, sp + 1) /\ stack' = stack
    BY DEF PSave
  <1> QED
    BY <1>1, <1>2, <1>3, <1>4, <1>5, RunsOn

LEMMA StepBrace ==
  ASSUME PatternInv, Brace
  PROVE  PatternInv'
  <1> DEFINE closings == ClosingsIn(src, sp, Inst.begin, Inst.end)
             hit == sp < Len(src) /\ src[sp + 1] = Inst.begin /\ closings # {}
  <1>1. phase = "run" /\ Inst.op = "brace" /\ call' = call /\ compiled' = compiled /\ start' = start
    BY DEF Brace, Running, Others
  <1>2. /\ InAttempt /\ GameOK(Game) /\ RunsWell(Game, start, pc, sp, captures, stack)
        /\ Game.insts[pc + 1] = Inst /\ Game.text = src
    BY <1>1, RunFacts
  <1>3. closings = Closings(sp, Inst.begin, Inst.end)
    BY DEF ClosingsIn, Closings, CountIn, Count
  <1>4. /\ hit => RunsWell(Game, start, pc + 1, Min(closings), captures, stack)
        /\ ~hit => FailsWell(Game, start, pc, sp, captures, stack)
    BY <1>1, <1>2, BraceWell
  <1> HIDE DEF closings
  <1>5. CASE hit
    <2>1. phase' = "run" /\ pc' = pc + 1 /\ sp' = Min(closings) /\ captures' = captures /\ stack' = stack
      BY <1>3, <1>5 DEF Brace, Goto
    <2> QED
      BY <1>1, <1>2, <1>4, <1>5, <2>1, RunsOn
  <1>6. CASE ~hit
    <2>1. phase' = "fail" /\ pc' = pc /\ sp' = sp /\ captures' = captures /\ stack' = stack
      BY <1>3, <1>6 DEF Brace, Fail, machine
    <2> QED
      BY <1>1, <1>2, <1>4, <1>6, <2>1, FailsOn
  <1> QED
    BY <1>5, <1>6

LEMMA StepNumber ==
  ASSUME PatternInv, Number
  PROVE  PatternInv'
  <1> DEFINE idx == 2 * Inst.to
             from == Capture(captures, idx)
             to == Capture(captures, idx + 1)
             n == to - from
             hit == sp + n <= Len(src) /\ Between(src, sp, sp + n) = Between(src, from, to)
             raises == idx >= Len(captures) - 1 \/ (from > to \/ to > Len(src))
  <1>1. phase = "run" /\ Inst.op = "number" /\ call' = call /\ compiled' = compiled /\ start' = start
    BY DEF Number, Running
  <1>2. /\ InAttempt /\ GameOK(Game) /\ RunsWell(Game, start, pc, sp, captures, stack)
        /\ Game.insts[pc + 1] = Inst /\ Game.text = src
    BY <1>1, RunFacts
  <1>3. ~raises => /\ hit => RunsWell(Game, start, pc + 1, sp + n, captures, stack)
                   /\ ~hit => FailsWell(Game, start, pc, sp, captures, stack)
    BY <1>1, <1>2, NumberWell
  <1>4. CASE raises
    <2>1. phase' = "done"
      BY <1>4 DEF Number, Raise, Finish
    <2> QED
      BY <1>1, <2>1, Rests DEF InAttempt
  <1>5. CASE ~raises /\ hit
    <2>1. phase' = "run" /\ pc' = pc + 1 /\ sp' = sp + n /\ captures' = captures /\ stack' = stack
      BY <1>5 DEF Number, Goto
    <2> HIDE DEF n, hit, raises
    <2> QED
      BY <1>1, <1>2, <1>3, <1>5, <2>1, RunsOn
  <1>6. CASE ~raises /\ ~hit
    <2>1. phase' = "fail" /\ pc' = pc /\ sp' = sp /\ captures' = captures /\ stack' = stack
      BY <1>6 DEF Number, Fail, machine
    <2> HIDE DEF n, hit, raises
    <2> QED
      BY <1>1, <1>2, <1>3, <1>6, <2>1, FailsOn
  <1> QED
    BY <1>4, <1>5, <1>6

LEMMA StepTailMatch ==
  ASSUME PatternInv, TailMatch
  PROVE  PatternInv'
  <1>1. phase = "run" /\ Inst.op = "tailMatch"
    BY DEF TailMatch, Running
  <1>2. /\ InAttempt /\ GameOK(Game) /\ RunsWell(Game, start, pc, sp, captures, stack)
        /\ Game.insts[pc + 1] = Inst /\ Game.text = src /\ sp \in Nat /\ Len(src) \in Nat
    BY <1>1, RunFacts
  <1>3. CASE AttemptEnds(TRUE, sp)
    BY <1>2, <1>3, AttemptEnded
  <1>4. CASE sp < Len(src) /\ Fail /\ Others
    <2>1. FailsWell(Game, start, pc, sp, captures, stack)
      BY <1>1, <1>2, <1>4, TailWell
    <2>2. /\ phase' = "fail" /\ pc' = pc /\ sp' = sp /\ captures' = captures /\ stack' = stack
          /\ call' = call /\ compiled' = compiled /\ start' = start
      BY <1>4 DEF Fail, machine, Others
    <2> QED
      BY <1>2, <2>1, <2>2, FailsOn
  <1> QED
    BY <1>3, <1>4 DEF TailMatch

LEMMA StepMatch ==
  ASSUME PatternInv, Match
  PROVE  PatternInv'
  BY AttemptEnded DEF Match, Running, InAttempt

LEMMA StepFails ==
  ASSUME PatternInv, Fails
  PROVE  PatternInv'
  BY AttemptEnded DEF Fails, InAttempt

LEMMA StepBack ==
  ASSUME PatternInv, Back
  PROVE  PatternInv'
  <1>1. /\ phase = "fail" /\ stack # << >> /\ stack' = Front(stack)
        /\ call' = call /\ compiled' = compiled /\ start' = start
    BY DEF Back, Others
  <1>2. InAttempt
    BY <1>1 DEF InAttempt
  <1>3. FailsWell(Game, start, pc, sp, captures, stack)
    BY <1>1 DEF PatternInv
  <1>4. GameOK(Game)
    BY <1>2, GameIsOK DEF PatternInv
  <1>5. CASE Last(stack).is = "split" /\ Goto(Last(stack).pc, Last(stack).sp) /\ captures' = captures
    <2>1. phase' = "run" /\ pc' = Last(stack).pc /\ sp' = Last(stack).sp
      BY <1>5 DEF Goto
    <2>2. RunsWell(Game, start, Last(stack).pc, Last(stack).sp, captures, Front(stack))
      BY <1>1, <1>3, <1>5, BackToChoice
    <2> QED
      BY <1>1, <1>2, <1>5, <2>1, <2>2, RunsOn
  <1>6. CASE /\ Last(stack).is = "save"
             /\ captures' = [captures EXCEPT ![Last(stack).slot + 1] = Last(stack).old]
             /\ UNCHANGED <<phase, pc, sp>>
    <2>1. FailsWell(Game, start, pc, sp, [captures EXCEPT ![Last(stack).slot + 1] = Last(stack).old], Front(stack))
      BY <1>1, <1>3, <1>4, <1>6, BackOverSave
    <2> DEFINE m == [captures EXCEPT ![Last(stack).slot + 1] = Last(stack).old]
    <2>2. captures' = m /\ phase' = "fail" /\ pc' = pc /\ sp' = sp
      BY <1>1, <1>6
    <2> HIDE DEF m
    <2>3. FailsWell(Game, start, pc', sp', captures', stack')
      BY <1>1, <2>1, <2>2 DEF m
    <2> QED
      BY <1>1, <1>2, <2>2, <2>3, FailsOn
  <1> QED
    BY <1>5, <1>6 DEF Back

LEMMA StepFind ==
  ASSUME PatternInv, Find
  PROVE  PatternInv'
  <1>1. call' = call /\ compiled' = compiled
    BY DEF Find
  <1>2. CASE "error" \in DOMAIN compiled
    <2>1. phase' = "done"
      BY <1>2 DEF Find, Raise, Finish
    <2> QED
      BY <1>1, <2>1, Rests DEF InAttempt
  <1>3. CASE "error" \notin DOMAIN compiled
    <2>1. Try(call.offset)
      BY <1>3 DEF Find
    <2>2. call.offset \in Nat
      BY <1>3, GameIsOK
    <2> QED
      BY <1>1, <1>3, <2>1, <2>2, NextAttempt
  <1> QED
    BY <1>2, <1>3

LEMMA OtherSteps ==
  ASSUME PatternInv, strFindEmpty \/ strFindPlain \/ strFind \/ strMatch \/ strGsub \/ strGmatch \/ strGmatchIter
  PROVE  PatternInv'
  <1>1. call' = call /\ compiled' = compiled
    BY DEF strFindEmpty, strFindPlain, strFind, strMatch, strGsub, strGmatch, strGmatchIter, Kept
  <1>2. phase' \in {"done", "loop"}
    BY DEF strFindEmpty, strFindPlain, strFind, strMatch, strGsub, strGmatch, strGmatchIter, Got, Return, Raise, Finish
  <1> QED
    BY <1>1, <1>2, Rests DEF InAttempt

LEMMA PatternInvInit == MatchInit => PatternInv
  BY DEF MatchInit, PatternInv, InAttempt

LEMMA PatternInvNext == PatternInv /\ [MatchNext]_matchVars => PatternInv'
  <1> SUFFICES ASSUME PatternInv, [MatchNext]_matchVars
               PROVE  PatternInv'
    OBVIOUS
  <1>1. CASE MatchNext
    BY <1>1, OtherSteps, StepFind, StepChar, StepMatch, StepTailMatch, StepJmp, StepBranch, StepSave, StepPSave,
       StepBrace, StepNumber, StepBack, StepFails DEF MatchNext
  <1>2. CASE UNCHANGED matchVars
    BY <1>2 DEF PatternInv, matchVars, machine, InAttempt, Game, src
  <1> QED
    BY <1>1, <1>2

(* Whatever program is run, the machine is at one of its instructions, and
   never behind the end of the subject; recursiveVM relies on it. *)
THEOREM MachineStaysInside == MatchSpec => []MachineInside
  <1>1. PatternInv => MachineInside
    <2> SUFFICES ASSUME PatternInv, InAttempt
                 PROVE  MachineInside
      BY DEF MachineInside
    <2>1. Fits(Game, pc, sp, captures, stack)
      BY DEF PatternInv, InAttempt, RunsWell, FailsWell
    <2>2. Game.insts = compiled.insts /\ Game.text = src
      BY GameFacts
    <2>3. GameOK(Game)
      BY GameIsOK DEF PatternInv
    <2>4. Len(src) \in Nat
      BY <2>2, <2>3 DEF GameOK
    <2>5. /\ pc + 1 \in DOMAIN compiled.insts /\ sp \in Nat /\ sp <= Len(src)
          /\ captures \in Seq(AnySlot) /\ stack \in Seq(Entries)
          /\ \A j \in 1 .. Len(stack) : EntryFits(Game, captures, stack[j])
      BY <2>1, <2>2 DEF Fits
    <2>6. ASSUME NEW i \in DOMAIN stack
          PROVE  LET entry == stack[i]
                 IN  \/ entry.is = "split" /\ entry.pc + 1 \in DOMAIN compiled.insts /\ entry.sp \in 0 .. Len(src)
                     \/ entry.is = "save" /\ entry.slot + 1 \in DOMAIN captures
      <3> DEFINE x == stack[i]
      <3>1. i \in 1 .. Len(stack) /\ x \in Entries
        BY <2>5
      <3>2. EntryFits(Game, captures, x)
        BY <2>5, <3>1
      <3>3. Len(captures) \in Nat /\ DOMAIN captures = 1 .. Len(captures)
        BY <2>5
      <3> HIDE DEF x
      <3>4. CASE x.is = "split" /\ x.sp \in Nat
        BY <2>2, <2>4, <3>2, <3>4 DEF EntryFits, x
      <3>5. CASE x.is = "save" /\ x.slot \in Nat
        <4>1. x.slot < Len(captures)
          BY <3>2, <3>5 DEF EntryFits
        <4>2. x.slot + 1 \in DOMAIN captures
          BY <3>3, <3>5, <4>1
        <4> QED
          BY <3>5, <4>2 DEF x
      <3> QED
        BY <3>1, <3>4, <3>5 DEF Entries, ChoiceEntries, UndoEntries
    <2>7. sp \in 0 .. Len(src)
      BY <2>4, <2>5
    <2> QED
      BY <2>5, <2>6, <2>7 DEF MachineInside
  <1> QED
    BY PatternInvInit, PatternInvNext, <1>1, PTL DEF MatchSpec

(* What the end of an attempt says. *)
LEMMA StepDecides ==
  ASSUME PatternInv, InAttempt, RefersToText(Game)
  PROVE  /\ Succeeds => OnlyEnd(Game, Origin(Game, start), Here)
         /\ Fails => ~Accepts(Game, Origin(Game, start))
  <1>1. ASSUME phase = "run", Inst.op = "match" \/ (Inst.op = "tailMatch" /\ sp >= Len(src))
        PROVE  Ends(Game, Origin(Game, start), Here)
    <2>1. /\ RunsWell(Game, start, pc, sp, captures, stack)
          /\ Game.insts[pc + 1] = Inst /\ Game.text = src
      BY <1>1, RunFacts
    <2>2. Ends(Game, Origin(Game, start), Square(pc, sp, View(Game, captures)))
      BY <1>1, <2>1, MatchDecides
    <2> QED
      BY <2>2 DEF Here
  <1>2. ASSUME Match
        PROVE  Ends(Game, Origin(Game, start), Here)
    BY <1>1, <1>2 DEF Match, Running
  <1>3. ASSUME TailMatch, phase' # "fail"
        PROVE  Ends(Game, Origin(Game, start), Here)
    BY <1>1, <1>3 DEF TailMatch, Running, Fail
  <1>4. ASSUME Fails
        PROVE  ~Accepts(Game, Origin(Game, start))
    <2> DEFINE none == << >>
    <2>1. phase = "fail" /\ stack = none
      BY <1>4 DEF Fails
    <2> HIDE DEF none
    <2>2. FailsWell(Game, start, pc, sp, captures, none)
      BY <2>1 DEF PatternInv
    <2> QED
      BY <2>2, FailureDecides DEF none
  <1>5. ASSUME Succeeds
        PROVE  OnlyEnd(Game, Origin(Game, start), Here)
    <2>1. Ends(Game, Origin(Game, start), Here)
      BY <1>2, <1>3, <1>5 DEF Succeeds
    <2> QED
      BY <2>1, PreferredEndIsOne DEF OnlyEnd
  <1> QED
    BY <1>4, <1>5

(* recursiveVM is right to say that there is no match when nothing is left to
   try, and the match it returns is the only one that the order of the branches
   prefers, whatever program it runs: no branch is forgotten on the stack,
   and none is tried with captures that another has set. *)
THEOREM AttemptsDecide == MatchSpec => AttemptDecides
  <1> DEFINE Decides == InAttempt /\ RefersToText(Game) =>
                          /\ Succeeds => OnlyEnd(Game, Origin(Game, start), Here)
                          /\ Fails => ~Accepts(Game, Origin(Game, start))
  <1>1. PatternInv /\ [MatchNext]_matchVars => [Decides]_matchVars
    BY StepDecides
  <1>2. MatchSpec => [][Decides]_matchVars
    BY PatternInvInit, PatternInvNext, <1>1, PTL DEF MatchSpec
  <1> QED
    BY <1>2 DEF AttemptDecides

-----------------------------------------------------------------------------
(* The attempts of Find, one after the other. *)

LEMMA ScanFirst ==
  ASSUME NEW g, NEW offset \in Nat, Len(g.text) \in Nat
  PROVE  LET none == << >>
         IN  /\ none \in Scans(g) /\ IsScan(g, offset, << >>, none) /\ Len(none) = 0
             /\ Begin(offset, none, Len(none) + 1) = offset
             /\ Misses(g, offset, offset - 1)
             /\ offset > Len(g.text) => Misses(g, offset, Len(g.text))
  <1> DEFINE none == << >>
  <1>1. none \in Scans(g) /\ Len(none) = 0
    BY DEF Scans
  <1>2. IsScan(g, offset, none, none)
    BY <1>1 DEF IsScan
  <1>3. Begin(offset, none, Len(none) + 1) = offset
    BY <1>1 DEF Begin
  <1>4. offset .. offset - 1 = {} /\ (offset > Len(g.text) => offset .. Len(g.text) = {})
    OBVIOUS
  <1> QED
    BY <1>1, <1>2, <1>3, <1>4 DEF Misses

LEMMA BeginIsNat ==
  ASSUME NEW g, NEW offset \in Nat, NEW found \in Scans(g), NEW n \in 1 .. Len(found) + 1
  PROVE  Begin(offset, found, n) \in Nat
  <1> DEFINE S == [at : Nat, end : Squares(g)]
  <1>1. found \in Seq(S)
    BY DEF Scans
  <1>2. \A x \in S : After(x) \in Nat
    BY DEF After, Squares
  <1> HIDE DEF S
  <1>3. CASE n = 1
    BY <1>3 DEF Begin
  <1>4. CASE n # 1
    <2>1. n - 1 \in 1 .. Len(found)
      BY <1>1, <1>4
    <2>2. found[n - 1] \in S
      BY <1>1, <2>1
    <2> QED
      BY <1>2, <1>4, <2>2 DEF Begin
  <1> QED
    BY <1>3, <1>4

LEMMA BeginAfter ==
  ASSUME NEW g, NEW offset \in Nat, NEW found \in Scans(g), NEW f \in [at : Nat, end : Squares(g)]
  PROVE  /\ Append(found, f) \in Scans(g) /\ Len(Append(found, f)) = Len(found) + 1 /\ Len(found) \in Nat
         /\ Append(found, f)[Len(found) + 1] = f
         /\ \A n \in 1 .. Len(found) : Append(found, f)[n] = found[n]
         /\ \A n \in 1 .. Len(found) + 1 : Begin(offset, Append(found, f), n) = Begin(offset, found, n)
         /\ Begin(offset, Append(found, f), Len(found) + 2) = After(f)
         /\ \A n \in 1 .. Len(found) + 1 : Begin(offset, found, n) \in Nat
         /\ After(f) \in Nat
  <1> DEFINE new == Append(found, f)
             S == [at : Nat, end : Squares(g)]
  <1>1. found \in Seq(S) /\ f \in S
    BY DEF Scans
  <1>2. \A x \in S : After(x) \in Nat
    BY DEF After, Squares
  <1> HIDE DEF S
  <1>3. /\ new \in Seq(S) /\ Len(new) = Len(found) + 1 /\ new[Len(found) + 1] = f
        /\ \A i \in 1 .. Len(found) : new[i] = found[i]
        /\ Len(found) \in Nat
    BY <1>1, Appended
  <1> HIDE DEF new
  <1>4. ASSUME NEW n \in 1 .. Len(found) + 1
        PROVE  Begin(offset, new, n) = Begin(offset, found, n) /\ Begin(offset, found, n) \in Nat
    <2>1. CASE n = 1
      BY <2>1 DEF Begin
    <2>2. CASE n # 1
      <3>1. n - 1 \in 1 .. Len(found)
        BY <1>3, <2>2
      <3>2. new[n - 1] = found[n - 1] /\ found[n - 1] \in S
        BY <1>1, <1>3, <3>1
      <3> QED
        BY <1>2, <2>2, <3>2 DEF Begin
    <2> QED
      BY <2>1, <2>2
  <1>5. Begin(offset, new, Len(found) + 2) = After(f)
    <2>1. Len(found) + 2 # 1 /\ (Len(found) + 2) - 1 = Len(found) + 1
      BY <1>3
    <2> QED
      BY <1>3, <2>1 DEF Begin
  <1> QED
    BY <1>1, <1>2, <1>3, <1>4, <1>5 DEF new, S, Scans

LEMMA ScanAppended ==
  ASSUME NEW g, Len(g.text) \in Nat, NEW offset \in Nat, NEW S, NEW ms \in Seq(S), NEW m \in S, NEW found \in Scans(g),
         IsScan(g, offset, ms, found), NEW f \in [at : Nat, end : Squares(g)],
         f.at \in Begin(offset, found, Len(found) + 1) .. Len(g.text),
         Misses(g, Begin(offset, found, Len(found) + 1), f.at - 1),
         Ends(g, Origin(g, f.at), f.end), View(g, m) = f.end.saved
  PROVE  IsScan(g, offset, Append(ms, m), Append(found, f))
  <1> DEFINE new == Append(found, f)
             t == Append(ms, m)
             l == Len(found)
  <1>1. /\ Len(new) = l + 1 /\ l \in Nat /\ new[l + 1] = f
        /\ \A n \in 1 .. l : new[n] = found[n]
        /\ \A n \in 1 .. l + 1 : Begin(offset, new, n) = Begin(offset, found, n)
    BY BeginAfter
  <1>2. /\ Len(t) = Len(ms) + 1 /\ t[Len(ms) + 1] = m /\ \A n \in 1 .. Len(ms) : t[n] = ms[n]
        /\ Len(ms) = l
    BY Appended DEF IsScan
  <1> HIDE DEF new, t
  <1>3. ASSUME NEW n \in 1 .. l + 1
        PROVE  /\ new[n].at \in Begin(offset, new, n) .. Len(g.text)
               /\ Ends(g, Origin(g, new[n].at), new[n].end)
               /\ View(g, t[n]) = new[n].end.saved
               /\ Misses(g, Begin(offset, new, n), new[n].at - 1)
    <2>1. CASE n = l + 1
      BY <1>1, <1>2, <2>1
    <2>2. CASE n \in 1 .. l
      <3>1. new[n] = found[n] /\ t[n] = ms[n] /\ Begin(offset, new, n) = Begin(offset, found, n)
        BY <1>1, <1>2, <2>2
      <3>2. /\ found[n].at \in Begin(offset, found, n) .. Len(g.text)
            /\ Ends(g, Origin(g, found[n].at), found[n].end)
            /\ View(g, ms[n]) = found[n].end.saved
            /\ Misses(g, Begin(offset, found, n), found[n].at - 1)
        BY <2>2 DEF IsScan
      <3> QED
        BY <3>1, <3>2
    <2>3. n = l + 1 \/ n \in 1 .. l
      BY <1>1
    <2> QED
      BY <2>1, <2>2, <2>3
  <1>4. Len(new) = Len(t)
    BY <1>1, <1>2
  <1>5. IsScan(g, offset, t, new)
    BY <1>1, <1>3, <1>4 DEF IsScan
  <1> QED
    BY <1>5 DEF new, t

LEMMA MissesMore ==
  ASSUME NEW g, NEW from \in Nat, NEW at \in Nat, Misses(g, from, at - 1), ~Accepts(g, Origin(g, at))
  PROVE  Misses(g, from, at)
  <1>1. \A b \in from .. at : b = at \/ b \in from .. at - 1
    OBVIOUS
  <1> QED
    BY <1>1 DEF Misses

ScanAt(g, offset, ms, at, head, found) ==
  /\ IsScan(g, offset, ms, found)
  /\ at \in Begin(offset, found, Len(found) + 1) .. Len(g.text)
  /\ Misses(g, Begin(offset, found, Len(found) + 1), at - 1)
  /\ head => at = offset /\ found = << >>
  /\ Begin(offset, found, Len(found) + 1) \in Nat

LEMMA ScanningFacts ==
  ASSUME NEW g, NEW offset \in Nat, NEW ms, NEW at, NEW head, Scanning(g, offset, ms, at, head)
  PROVE  \E found \in Scans(g) : ScanAt(g, offset, ms, at, head, found)
  <1>1. \A found \in Scans(g) : Begin(offset, found, Len(found) + 1) \in Nat
    <2> SUFFICES ASSUME NEW found \in Scans(g) PROVE Begin(offset, found, Len(found) + 1) \in Nat
      OBVIOUS
    <2>1. Len(found) + 1 \in 1 .. Len(found) + 1
      BY DEF Scans
    <2> QED
      BY <2>1, BeginIsNat
  <1> QED
    BY <1>1 DEF Scanning, ScanAt

(* Where a scan is after an attempt that ended with a match. *)
LEMMA ScanGoesOn ==
  ASSUME NEW g, Len(g.text) \in Nat, NEW offset \in Nat, NEW S, NEW ms \in Seq(S), NEW m \in S, NEW at \in Nat, NEW head,
         Scanning(g, offset, ms, at, head), NEW e \in Squares(g), Ends(g, Origin(g, at), e), View(g, m) = e.saved
  PROVE  LET next == IF at + 1 < e.sp THEN e.sp ELSE at + 1
             t == Append(ms, m)
         IN  /\ ~head /\ next <= Len(g.text) => Scanning(g, offset, t, next, head)
             /\ ~head /\ ~(next <= Len(g.text)) => \A limit : Scanned(g, offset, t, limit, head)
             /\ \A limit : Len(t) = limit \/ head => Scanned(g, offset, t, limit, head)
  <1>1. PICK found \in Scans(g) : ScanAt(g, offset, ms, at, head, found)
    BY ScanningFacts
  <1>2. /\ IsScan(g, offset, ms, found)
        /\ at \in Begin(offset, found, Len(found) + 1) .. Len(g.text)
        /\ Misses(g, Begin(offset, found, Len(found) + 1), at - 1)
        /\ head => at = offset /\ found = << >>
        /\ Begin(offset, found, Len(found) + 1) \in Nat
    BY <1>1 DEF ScanAt
  <1> DEFINE t == Append(ms, m)
             f == [at |-> at, end |-> e]
             next == After(f)
  <1>3. f \in [at : Nat, end : Squares(g)] /\ f.at = at /\ f.end = e
    OBVIOUS
  <1>4. next = IF at + 1 < e.sp THEN e.sp ELSE at + 1
    BY DEF After
  <1> HIDE DEF f
  <1> DEFINE new == Append(found, f)
  <1>5. IsScan(g, offset, t, new)
    BY <1>3, <1>2, ScanAppended
  <1>6. /\ new \in Scans(g) /\ Len(new) = Len(found) + 1 /\ Len(found) \in Nat /\ new[Len(found) + 1] = f
        /\ Begin(offset, new, Len(found) + 2) = next /\ next \in Nat
    <2>1. f \in [at : Nat, end : Squares(g)]
      BY <1>3
    <2>2. new \in Scans(g) /\ Len(new) = Len(found) + 1 /\ Len(found) \in Nat
      BY <2>1, BeginAfter
    <2>3. new[Len(found) + 1] = f
      BY <2>1, BeginAfter
    <2>4. Begin(offset, new, Len(found) + 2) = next /\ next \in Nat
      BY <2>1, BeginAfter
    <2> QED
      BY <2>2, <2>3, <2>4
  <1>7. Begin(offset, new, Len(new) + 1) = next
    <2>1. Len(new) + 1 = Len(found) + 2
      BY <1>6
    <2> QED
      BY <1>6, <2>1
  <1>8. Len(new) = Len(t)
    BY <1>5 DEF IsScan
  <1>9. head => Len(new) = 1 /\ new[1].at = offset
    <2>1. head => Len(found) = 0 /\ at = offset
      BY <1>2
    <2> QED
      BY <1>3, <1>6, <2>1
  <1> HIDE DEF new, next, t
  <1>10. ASSUME ~head, next <= Len(g.text)
        PROVE  Scanning(g, offset, t, next, head)
    <2>1. next \in next .. Len(g.text) /\ next .. next - 1 = {}
      BY <1>6, <1>10
    <2> QED
      BY <1>5, <1>6, <1>7, <1>10, <2>1 DEF Scanning, Misses
  <1>11. ASSUME ~head, ~(next <= Len(g.text)), NEW limit
         PROVE  Scanned(g, offset, t, limit, head)
    <2>1. next .. Len(g.text) = {}
      BY <1>6, <1>11
    <2>2. Misses(g, next, Len(g.text))
      BY <2>1 DEF Misses
    <2> QED
      BY <1>5, <1>6, <1>7, <1>11, <2>2 DEF Scanned
  <1>12. ASSUME NEW limit, Len(t) = limit \/ head
         PROVE  Scanned(g, offset, t, limit, head)
    <2>1. Len(new) = limit \/ (head /\ Len(new) = 1 /\ new[1].at = offset)
      BY <1>8, <1>9, <1>12
    <2> QED
      BY <1>5, <1>6, <2>1 DEF Scanned
  <1> QED
    BY <1>4, <1>10, <1>11, <1>12 DEF t

(* And after one that did not. *)
LEMMA ScanMisses ==
  ASSUME NEW g, Len(g.text) \in Nat, NEW offset \in Nat, NEW ms, NEW at \in Nat, NEW head,
         Scanning(g, offset, ms, at, head), ~Accepts(g, Origin(g, at))
  PROVE  LET next == at + 1
         IN  /\ ~head /\ next <= Len(g.text) => Scanning(g, offset, ms, next, head)
             /\ ~head /\ ~(next <= Len(g.text)) => \A limit : Scanned(g, offset, ms, limit, head)
             /\ \A limit : Len(ms) = limit \/ head => Scanned(g, offset, ms, limit, head)
  <1> DEFINE next == at + 1
  <1>1. PICK found \in Scans(g) : ScanAt(g, offset, ms, at, head, found)
    BY ScanningFacts
  <1>2. /\ IsScan(g, offset, ms, found)
        /\ at \in Begin(offset, found, Len(found) + 1) .. Len(g.text)
        /\ Misses(g, Begin(offset, found, Len(found) + 1), at - 1)
        /\ head => at = offset /\ found = << >>
        /\ Begin(offset, found, Len(found) + 1) \in Nat
    BY <1>1 DEF ScanAt
  <1> DEFINE from == Begin(offset, found, Len(found) + 1)
  <1>3. from \in Nat /\ at \in from .. Len(g.text) /\ Misses(g, from, at - 1)
    BY <1>2
  <1> HIDE DEF from
  <1>4. Misses(g, from, at)
    BY <1>3, MissesMore
  <1>5. next \in Nat /\ next - 1 = at /\ from <= next /\ at <= Len(g.text)
    BY <1>3
  <1> HIDE DEF next
  <1>6. ASSUME ~head, next <= Len(g.text)
        PROVE  Scanning(g, offset, ms, next, head)
    <2>1. next \in from .. Len(g.text) /\ Misses(g, from, next - 1)
      BY <1>3, <1>4, <1>5, <1>6
    <2> QED
      BY <1>2, <1>6, <2>1 DEF Scanning, from
  <1>7. ASSUME ~head, ~(next <= Len(g.text)), NEW limit
        PROVE  Scanned(g, offset, ms, limit, head)
    <2>1. at = Len(g.text)
      BY <1>5, <1>7 DEF next
    <2>2. Misses(g, from, Len(g.text))
      BY <1>4, <2>1
    <2> QED
      BY <1>2, <1>7, <2>2 DEF Scanned, from
  <1>8. ASSUME NEW limit, Len(ms) = limit \/ head
        PROVE  Scanned(g, offset, ms, limit, head)
    <2>1. Len(found) = Len(ms)
      BY <1>2 DEF IsScan
    <2>2. head => found = << >> /\ at = offset
      BY <1>2
    <2>3. Len(found) = limit \/ (head /\ found = << >> /\ (offset <= Len(g.text) => ~Accepts(g, Origin(g, offset))))
      BY <1>8, <2>1, <2>2
    <2> QED
      BY <1>2, <2>3 DEF Scanned
  <1> QED
    BY <1>6, <1>7, <1>8 DEF next

(* What Find has found, and that its attempts are made where they are to be. *)
ScanInv ==
  /\ matches \in Seq(Seq(AnySlot))
  /\ phase = "call" => matches = << >>
  /\ ScanOnCourse
  /\ FoundAsMeant

LEMMA ScanStays ==
  ASSUME ScanInv, call' = call, compiled' = compiled, matches' = matches, phase' # "call",
         InAttempt' => InAttempt /\ start' = start, phase' \in {"found", "loop"} => phase \in {"found", "loop"}
  PROVE  ScanInv'
  <1>1. Game' = Game
    BY DEF Game, src
  <1> QED
    BY <1>1 DEF ScanInv, ScanOnCourse, FoundAsMeant

LEMMA HereFacts ==
  ASSUME PatternInv, InAttempt
  PROVE  /\ GameOK(Game) /\ Len(Game.text) \in Nat /\ call.offset \in Nat /\ start \in Nat /\ sp \in Nat
         /\ captures \in Seq(AnySlot)
         /\ Here \in Squares(Game) /\ Here.sp = sp /\ Here.saved = View(Game, captures)
  <1>1. start \in Nat /\ GameOK(Game) /\ call.offset \in Nat
    BY GameIsOK DEF PatternInv
  <1>2. Fits(Game, pc, sp, captures, stack)
    BY DEF PatternInv, InAttempt, RunsWell, FailsWell
  <1>3. Here \in Squares(Game)
    BY <1>2, SquareFits DEF Here
  <1>4. Here.sp = sp /\ Here.saved = View(Game, captures)
    BY SquareFacts DEF Here
  <1>5. sp \in Nat /\ captures \in Seq(AnySlot)
    BY <1>2 DEF Fits
  <1>6. Len(Game.text) \in Nat
    BY <1>1 DEF GameOK
  <1> QED
    BY <1>1, <1>3, <1>4, <1>5, <1>6

LEMMA ScanEnded ==
  ASSUME PatternInv, ScanInv, InAttempt, NEW next \in Nat, NEW t \in Seq(Seq(AnySlot)),
         call' = call, compiled' = compiled, matches' = t,
         IF Len(t) = call.limit \/ compiled.head THEN phase' = "found" ELSE Try(next),
         RefersToText(Game) =>
           /\ ~compiled.head /\ next <= Len(Game.text) => Scanning(Game, call.offset, t, next, compiled.head)
           /\ ~compiled.head /\ ~(next <= Len(Game.text)) => \A limit : Scanned(Game, call.offset, t, limit, compiled.head)
           /\ \A limit : Len(t) = limit \/ compiled.head => Scanned(Game, call.offset, t, limit, compiled.head)
  PROVE  ScanInv'
  <1>1. Game' = Game /\ call'.offset = call.offset /\ call'.limit = call.limit /\ compiled'.head = compiled.head
    BY DEF Game, src
  <1>2. Game.text = call.subject
    BY DEF Game, src
  <1>3. CASE Len(t) = call.limit \/ compiled.head
    <2>1. phase' = "found"
      BY <1>3
    <2>2. RefersToText(Game) => Scanned(Game, call.offset, t, call.limit, compiled.head)
      BY <1>3
    <2>3. FoundAsMeant'
      BY <1>1, <2>2 DEF FoundAsMeant
    <2>4. ScanOnCourse'
      BY <2>1 DEF ScanOnCourse, InAttempt
    <2> QED
      BY <2>1, <2>3, <2>4 DEF ScanInv
  <1>4. CASE ~(Len(t) = call.limit \/ compiled.head) /\ next <= Len(call.subject)
    <2>1. phase' = "run" /\ start' = next
      BY <1>4 DEF Try
    <2>2. RefersToText(Game) => Scanning(Game, call.offset, t, next, compiled.head)
      BY <1>2, <1>4
    <2>3. ScanOnCourse'
      BY <1>1, <2>1, <2>2 DEF ScanOnCourse
    <2>4. FoundAsMeant'
      BY <2>1 DEF FoundAsMeant
    <2> QED
      BY <2>1, <2>3, <2>4 DEF ScanInv
  <1>5. CASE ~(Len(t) = call.limit \/ compiled.head) /\ ~(next <= Len(call.subject))
    <2>1. phase' = "found"
      BY <1>5 DEF Try
    <2>2. RefersToText(Game) => Scanned(Game, call.offset, t, call.limit, compiled.head)
      BY <1>2, <1>5
    <2>3. FoundAsMeant'
      BY <1>1, <2>2 DEF FoundAsMeant
    <2>4. ScanOnCourse'
      BY <2>1 DEF ScanOnCourse, InAttempt
    <2> QED
      BY <2>1, <2>3, <2>4 DEF ScanInv
  <1> QED
    BY <1>3, <1>4, <1>5

LEMMA ScanSucceeds ==
  ASSUME PatternInv, ScanInv, InAttempt, AttemptEnds(TRUE, sp),
         RefersToText(Game) => Ends(Game, Origin(Game, start), Here)
  PROVE  ScanInv'
  <1> DEFINE t == Append(matches, captures)
             next == IF start + 1 < Here.sp THEN Here.sp ELSE start + 1
             S == Seq(AnySlot)
  <1>1. /\ GameOK(Game) /\ Len(Game.text) \in Nat /\ call.offset \in Nat /\ start \in Nat /\ sp \in Nat
        /\ captures \in S
        /\ Here \in Squares(Game) /\ Here.sp = sp /\ Here.saved = View(Game, captures)
    BY HereFacts
  <1>2. matches \in Seq(S)
    BY DEF ScanInv
  <1> HIDE DEF S
  <1>3. t \in Seq(S)
    BY <1>1, <1>2
  <1>4. next \in Nat
    BY <1>1
  <1>5. RefersToText(Game) => Scanning(Game, call.offset, matches, start, compiled.head)
    BY DEF ScanInv, ScanOnCourse
  <1>6. ASSUME RefersToText(Game)
        PROVE  /\ ~compiled.head /\ next <= Len(Game.text) => Scanning(Game, call.offset, t, next, compiled.head)
               /\ ~compiled.head /\ ~(next <= Len(Game.text)) => \A limit : Scanned(Game, call.offset, t, limit, compiled.head)
               /\ \A limit : Len(t) = limit \/ compiled.head => Scanned(Game, call.offset, t, limit, compiled.head)
    <2>1. Scanning(Game, call.offset, matches, start, compiled.head) /\ Ends(Game, Origin(Game, start), Here)
      BY <1>5, <1>6
    <2> QED
      BY <1>1, <1>2, <2>1, ScanGoesOn
  <1>7. /\ call' = call /\ compiled' = compiled /\ matches' = t
        /\ IF Len(t) = call.limit \/ compiled.head THEN phase' = "found" ELSE Try(next)
    BY <1>1 DEF AttemptEnds
  <1> HIDE DEF t, next
  <1> QED
    BY <1>3, <1>4, <1>6, <1>7, ScanEnded DEF S

LEMMA ScanFails ==
  ASSUME PatternInv, ScanInv, InAttempt, AttemptEnds(FALSE, sp),
         RefersToText(Game) => ~Accepts(Game, Origin(Game, start))
  PROVE  ScanInv'
  <1> DEFINE next == start + 1
             t == matches
  <1>1. /\ GameOK(Game) /\ Len(Game.text) \in Nat /\ call.offset \in Nat /\ start \in Nat
    BY HereFacts
  <1>2. t \in Seq(Seq(AnySlot))
    BY DEF ScanInv
  <1>3. next \in Nat
    BY <1>1
  <1>4. RefersToText(Game) => Scanning(Game, call.offset, t, start, compiled.head)
    BY DEF ScanInv, ScanOnCourse
  <1>5. ASSUME RefersToText(Game)
        PROVE  /\ ~compiled.head /\ next <= Len(Game.text) => Scanning(Game, call.offset, t, next, compiled.head)
               /\ ~compiled.head /\ ~(next <= Len(Game.text)) => \A limit : Scanned(Game, call.offset, t, limit, compiled.head)
               /\ \A limit : Len(t) = limit \/ compiled.head => Scanned(Game, call.offset, t, limit, compiled.head)
    <2>1. Scanning(Game, call.offset, t, start, compiled.head) /\ ~Accepts(Game, Origin(Game, start))
      BY <1>4, <1>5
    <2> QED
      BY <1>1, <2>1, ScanMisses
  <1>6. /\ call' = call /\ compiled' = compiled /\ matches' = t
        /\ IF Len(t) = call.limit \/ compiled.head THEN phase' = "found" ELSE Try(next)
    BY DEF AttemptEnds
  <1> HIDE DEF t, next
  <1> QED
    BY <1>2, <1>3, <1>5, <1>6, ScanEnded

LEMMA ScanFinds ==
  ASSUME PatternInv, ScanInv, Find
  PROVE  ScanInv'
  <1> DEFINE none == << >>
  <1>1. phase = "call" /\ call' = call /\ compiled' = compiled /\ matches' = matches
    BY DEF Find
  <1>2. matches' = none
    BY <1>1 DEF ScanInv
  <1>3. Game' = Game /\ call'.offset = call.offset /\ call'.limit = call.limit /\ compiled'.head = compiled.head
    BY <1>1 DEF Game, src
  <1>4. Game.text = call.subject
    BY DEF Game, src
  <1>5. CASE "error" \in DOMAIN compiled
    <2>1. phase' = "done"
      BY <1>5 DEF Find, Raise, Finish
    <2> QED
      BY <1>1, <2>1, ScanStays DEF InAttempt
  <1>6. CASE "error" \notin DOMAIN compiled
    <2> DEFINE offset == call.offset
    <2>1. Try(offset)
      BY <1>6 DEF Find
    <2>2. offset \in Nat /\ Len(Game.text) \in Nat
      BY <1>6, GameIsOK DEF GameOK
    <2>3. /\ none \in Scans(Game) /\ IsScan(Game, offset, none, none) /\ Len(none) = 0
          /\ Begin(offset, none, Len(none) + 1) = offset
          /\ Misses(Game, offset, offset - 1)
          /\ offset > Len(Game.text) => Misses(Game, offset, Len(Game.text))
      BY <2>2, ScanFirst
    <2>4. none \in Seq(Seq(AnySlot))
      OBVIOUS
    <2>5. CASE offset <= Len(call.subject)
      <3>1. phase' = "run" /\ start' = offset
        BY <2>1, <2>5 DEF Try
      <3>2. offset \in offset .. Len(Game.text)
        BY <1>4, <2>2, <2>5
      <3> HIDE DEF none
      <3>3. Scanning(Game, offset, none, offset, compiled.head)
        BY <2>3, <3>2 DEF Scanning, none
      <3>4. ScanOnCourse'
        BY <1>2, <1>3, <3>1, <3>3 DEF ScanOnCourse
      <3>5. FoundAsMeant'
        BY <3>1 DEF FoundAsMeant
      <3> QED
        BY <1>2, <2>4, <3>1, <3>4, <3>5 DEF ScanInv
    <2>6. CASE ~(offset <= Len(call.subject))
      <3>1. phase' = "found"
        BY <2>1, <2>6 DEF Try
      <3>2. offset > Len(Game.text) /\ ~(offset <= Len(Game.text))
        BY <1>4, <2>2, <2>6
      <3> HIDE DEF none
      <3>3. Scanned(Game, offset, none, call.limit, compiled.head)
        BY <2>3, <3>2 DEF Scanned, none
      <3>4. FoundAsMeant'
        BY <1>2, <1>3, <3>1, <3>3 DEF FoundAsMeant
      <3>5. ScanOnCourse'
        BY <3>1 DEF ScanOnCourse, InAttempt
      <3> QED
        BY <1>2, <2>4, <3>1, <3>4, <3>5 DEF ScanInv
    <2> QED
      BY <2>5, <2>6
  <1> QED
    BY <1>5, <1>6

LEMMA ScanMatch ==
  ASSUME PatternInv, ScanInv, Match
  PROVE  ScanInv'
  <1>1. InAttempt /\ AttemptEnds(TRUE, sp) /\ Succeeds
    BY DEF Match, Running, InAttempt, Succeeds
  <1> QED
    BY <1>1, StepDecides, ScanSucceeds DEF OnlyEnd

LEMMA ScanTailMatch ==
  ASSUME PatternInv, ScanInv, TailMatch
  PROVE  ScanInv'
  <1>1. InAttempt
    BY DEF TailMatch, Running, InAttempt
  <1>2. CASE phase' # "fail"
    <2>1. AttemptEnds(TRUE, sp) /\ Succeeds
      BY <1>2 DEF TailMatch, Fail, Succeeds
    <2> QED
      BY <1>1, <2>1, StepDecides, ScanSucceeds DEF OnlyEnd
  <1>3. CASE phase' = "fail"
    <2>1. ~AttemptEnds(TRUE, sp)
      BY <1>3 DEF AttemptEnds, Try
    <2>2. call' = call /\ compiled' = compiled /\ start' = start /\ matches' = matches
      BY <2>1 DEF TailMatch, Others
    <2> QED
      BY <1>1, <1>3, <2>2, ScanStays
  <1> QED
    BY <1>2, <1>3

LEMMA ScanFailed ==
  ASSUME PatternInv, ScanInv, Fails
  PROVE  ScanInv'
  <1>1. InAttempt /\ AttemptEnds(FALSE, sp)
    BY DEF Fails, InAttempt
  <1> QED
    BY <1>1, StepDecides, ScanFails

LEMMA ScanOthers ==
  ASSUME ScanInv, Char1 \/ Jmp \/ Branch \/ Save \/ PSave \/ Brace \/ Number \/ Back
  PROVE  ScanInv'
  <1>1. InAttempt /\ call' = call /\ compiled' = compiled /\ start' = start /\ matches' = matches
    BY DEF Char1, Jmp, Branch, Save, PSave, Brace, Number, Back, Running, Others, InAttempt
  <1>2. phase' \in {"run", "fail", "done"}
    BY DEF Char1, Jmp, Branch, Save, PSave, Brace, Number, Back, Goto, Fail, Raise, Finish
  <1> QED
    BY <1>1, <1>2, ScanStays

LEMMA ScanDone ==
  ASSUME ScanInv, strFindEmpty \/ strFindPlain \/ strFind \/ strMatch \/ strGsub \/ strGmatch \/ strGmatchIter
  PROVE  ScanInv'
  <1>1. call' = call /\ compiled' = compiled /\ matches' = matches
    BY DEF strFindEmpty, strFindPlain, strFind, strMatch, strGsub, strGmatch, strGmatchIter, Kept
  <1>2. phase' = "done" \/ (phase' = "loop" /\ phase \in {"found", "loop"})
    BY DEF strFindEmpty, strFindPlain, strFind, strMatch, strGsub, strGmatch, strGmatchIter, Got, Return, Raise, Finish
  <1> QED
    BY <1>1, <1>2, ScanStays DEF InAttempt

LEMMA ScanInvInit == MatchInit => ScanInv
  BY DEF MatchInit, ScanInv, ScanOnCourse, FoundAsMeant, InAttempt

LEMMA ScanInvNext == PatternInv /\ ScanInv /\ [MatchNext]_matchVars => ScanInv'
  <1> SUFFICES ASSUME PatternInv, ScanInv, [MatchNext]_matchVars
               PROVE  ScanInv'
    OBVIOUS
  <1>1. CASE MatchNext
    BY <1>1, ScanFinds, ScanMatch, ScanTailMatch, ScanFailed, ScanOthers, ScanDone DEF MatchNext
  <1>2. CASE UNCHANGED matchVars
    BY <1>2 DEF ScanInv, matchVars, machine, ScanOnCourse, FoundAsMeant, InAttempt, Game, src
  <1> QED
    BY <1>1, <1>2

(* What Find has found for find, match, gsub and gmatch is what their
   pattern means, for every program, subject and number of matches asked
   for: each match is the preferred one at the first place, from the end of
   the one before it, that has a match, and none is left out. *)
THEOREM FindIsAsMeant == MatchSpec => []FoundAsMeant
  <1>1. PatternInv /\ ScanInv => FoundAsMeant
    BY DEF ScanInv
  <1> QED
    BY PatternInvInit, PatternInvNext, ScanInvInit, ScanInvNext, <1>1, PTL DEF MatchSpec

-----------------------------------------------------------------------------
(* Files. *)

USE IoFileAssumption

(* What programs do, the buffers bear. *)
Bearable == Habits = {}

Readers == Seq(Byte) \cup {NoReader}
FileSet ==
  [open : BOOLEAN, mode : Modes, fp : Nat, reader : Readers,
   writer : {"none", "direct", "buffered"}, pending : Seq(Byte)]

TypeOK ==
  /\ disk \in Seq(Byte)
  /\ file \in [Handle -> FileSet]

(* The one handle that may write, and what it holds back.  A handle holds
   something back or has read ahead, but not both. *)
HandleOK(h) ==
  LET f == file[h]
  IN  /\ ~f.open => f.writer = "none"
      /\ f.writer # "none" => h \in Writer /\ f.mode # "r"
      /\ Buffered(f) <= f.fp /\ f.fp <= MaxLength
      /\ f.pending # << >> =>
           /\ f.writer = "buffered" /\ Buffered(f) = 0
           /\ WriteAt(f) + Len(f.pending) <= MaxLength

OneWriter == \A g, h \in Handle : file[g].writer # "none" /\ file[h].writer # "none" => g = h

Inv ==
  /\ TypeOK /\ Len(disk) <= MaxLength
  /\ \A h \in Handle : HandleOK(h)
  /\ OneWriter

-----------------------------------------------------------------------------
(* Writing over a text. *)

LEMMA FunctionIsSeq ==
  ASSUME NEW S, NEW n \in Nat, NEW f \in [1 .. n -> S]
  PROVE  f \in Seq(S) /\ Len(f) = n
  OBVIOUS

LEMMA OverFacts ==
  ASSUME NEW t \in Seq(Byte), NEW p \in Nat, NEW b \in Seq(Byte)
  PROVE  /\ Os!Over(t, p, b) \in Seq(Byte)
         /\ Len(Os!Over(t, p, b)) = IF b # << >> /\ p + Len(b) > Len(t) THEN p + Len(b) ELSE Len(t)
         /\ \A i \in 1 .. Len(Os!Over(t, p, b)) :
              Os!Over(t, p, b)[i] =
                IF i > p /\ i <= p + Len(b) THEN b[i - p] ELSE IF i <= Len(t) THEN t[i] ELSE Zero
  <1> DEFINE end == IF b # << >> /\ p + Len(b) > Len(t) THEN p + Len(b) ELSE Len(t)
             At(i) == IF i > p /\ i <= p + Len(b) THEN b[i - p] ELSE IF i <= Len(t) THEN t[i] ELSE Zero
  <1>1. Os!Over(t, p, b) = [i \in 1 .. end |-> At(i)]
    BY DEF Os!Over
  <1>2. Len(t) \in Nat /\ Len(b) \in Nat /\ end \in Nat
    OBVIOUS
  <1>3. ASSUME NEW i \in 1 .. end PROVE At(i) \in Byte
    <2>1. CASE i > p /\ i <= p + Len(b)
      <3>1. i - p \in 1 .. Len(b)
        BY <1>2, <2>1
      <3> QED
        BY <2>1, <3>1
    <2>2. CASE ~(i > p /\ i <= p + Len(b))
      <3>1. i <= Len(t) => i \in 1 .. Len(t)
        BY <1>2
      <3> QED
        BY <2>2, <3>1
    <2> QED
      BY <2>1, <2>2
  <1> HIDE DEF end, At
  <1>4. Os!Over(t, p, b) \in [1 .. end -> Byte]
    BY <1>1, <1>3
  <1>5. Os!Over(t, p, b) \in Seq(Byte) /\ Len(Os!Over(t, p, b)) = end
    BY <1>2, <1>4, FunctionIsSeq
  <1>6. \A i \in 1 .. end : Os!Over(t, p, b)[i] = At(i)
    BY <1>1
  <1> QED
    BY <1>5, <1>6 DEF end, At

LEMMA SameElements ==
  ASSUME NEW S, NEW s \in Seq(S), NEW t \in Seq(S), Len(s) = Len(t),
         \A i \in 1 .. Len(s) : s[i] = t[i]
  PROVE  s = t
  BY SeqEqual

LEMMA OverNothing ==
  ASSUME NEW t \in Seq(Byte), NEW p \in Nat
  PROVE  Os!Over(t, p, << >>) = t
  <1> DEFINE e == << >>
             o == Os!Over(t, p, e)
  <1>1. e \in Seq(Byte) /\ Len(e) = 0 /\ e = << >>
    OBVIOUS
  <1> HIDE DEF e
  <1>2. /\ o \in Seq(Byte) /\ Len(o) = Len(t)
        /\ \A i \in 1 .. Len(o) :
             o[i] = IF i > p /\ i <= p + Len(e) THEN e[i - p] ELSE IF i <= Len(t) THEN t[i] ELSE Zero
    BY <1>1, OverFacts
  <1>3. \A i \in 1 .. Len(t) : o[i] = t[i]
    BY <1>1, <1>2
  <1> HIDE DEF o
  <1>4. o = t
    BY <1>2, <1>3, SameElements
  <1> QED
    BY <1>4 DEF o, e

(* Writing one piece after another is writing them at once. *)
LEMMA OverOver ==
  ASSUME NEW t \in Seq(Byte), NEW p \in Nat, NEW a \in Seq(Byte), NEW b \in Seq(Byte)
  PROVE  Os!Over(Os!Over(t, p, a), p + Len(a), b) = Os!Over(t, p, a \o b)
  <1> DEFINE s == Os!Over(t, p, a)
             l == Os!Over(s, p + Len(a), b)
             c == a \o b
             r == Os!Over(t, p, c)
  <1>1. Len(t) \in Nat /\ Len(a) \in Nat /\ Len(b) \in Nat /\ p + Len(a) \in Nat
    OBVIOUS
  <1>2. /\ c \in Seq(Byte) /\ Len(c) = Len(a) + Len(b)
        /\ \A i \in 1 .. Len(a) + Len(b) : c[i] = IF i <= Len(a) THEN a[i] ELSE b[i - Len(a)]
    BY ConcatProperties
  <1> HIDE DEF c
  <1>3. /\ s \in Seq(Byte)
        /\ Len(s) = IF a # << >> /\ p + Len(a) > Len(t) THEN p + Len(a) ELSE Len(t)
        /\ \A i \in 1 .. Len(s) :
             s[i] = IF i > p /\ i <= p + Len(a) THEN a[i - p] ELSE IF i <= Len(t) THEN t[i] ELSE Zero
    BY OverFacts
  <1> HIDE DEF s
  <1>4. /\ l \in Seq(Byte)
        /\ Len(l) = IF b # << >> /\ p + Len(a) + Len(b) > Len(s) THEN p + Len(a) + Len(b) ELSE Len(s)
        /\ \A i \in 1 .. Len(l) :
             l[i] = IF i > p + Len(a) /\ i <= p + Len(a) + Len(b) THEN b[i - (p + Len(a))]
                    ELSE IF i <= Len(s) THEN s[i] ELSE Zero
    BY <1>1, <1>3, OverFacts
  <1>5. /\ r \in Seq(Byte)
        /\ Len(r) = IF c # << >> /\ p + Len(c) > Len(t) THEN p + Len(c) ELSE Len(t)
        /\ \A i \in 1 .. Len(r) :
             r[i] = IF i > p /\ i <= p + Len(c) THEN c[i - p] ELSE IF i <= Len(t) THEN t[i] ELSE Zero
    BY <1>2, OverFacts
  <1> HIDE DEF l, r
  <1>6. /\ (a = << >>) <=> (Len(a) = 0)
        /\ (b = << >>) <=> (Len(b) = 0)
        /\ (c = << >>) <=> (Len(c) = 0)
    BY <1>2, EmptySeq
  <1>7. Len(l) = Len(r)
    <2>1. Len(s) = IF Len(a) # 0 /\ p + Len(a) > Len(t) THEN p + Len(a) ELSE Len(t)
      BY <1>3, <1>6
    <2>2. Len(l) = IF Len(b) # 0 /\ p + Len(a) + Len(b) > Len(s) THEN p + Len(a) + Len(b) ELSE Len(s)
      BY <1>4, <1>6
    <2>3. Len(r) = IF Len(a) + Len(b) # 0 /\ p + (Len(a) + Len(b)) > Len(t) THEN p + (Len(a) + Len(b)) ELSE Len(t)
      BY <1>2, <1>5, <1>6
    <2> QED
      BY <1>1, <2>1, <2>2, <2>3
  <1>8. ASSUME NEW i \in 1 .. Len(l) PROVE l[i] = r[i]
    <2>1. i \in 1 .. Len(r) /\ Len(s) \in Nat /\ i \in Nat
      BY <1>3, <1>4, <1>7
    <2>2. CASE i > p + Len(a) /\ i <= p + Len(a) + Len(b)
      <3>1. l[i] = b[i - (p + Len(a))]
        BY <1>4, <2>2
      <3>2. r[i] = c[i - p]
        BY <1>1, <1>2, <1>5, <2>1, <2>2
      <3> DEFINE j == i - p
      <3>3. j \in 1 .. Len(a) + Len(b) /\ ~(j <= Len(a)) /\ j - Len(a) = i - (p + Len(a))
        BY <1>1, <2>1, <2>2
      <3> HIDE DEF j
      <3>4. c[j] = b[j - Len(a)]
        BY <1>2, <3>3
      <3> QED
        BY <3>1, <3>2, <3>3, <3>4 DEF j
    <2>3. CASE i > p /\ i <= p + Len(a)
      <3>1. i <= Len(s)
        BY <1>1, <1>3, <1>6, <2>1, <2>3
      <3>2. l[i] = s[i]
        BY <1>1, <1>4, <2>1, <2>3, <3>1
      <3>3. s[i] = a[i - p]
        BY <1>3, <2>1, <2>3, <3>1
      <3>4. r[i] = c[i - p]
        BY <1>1, <1>2, <1>5, <2>1, <2>3
      <3> DEFINE j == i - p
      <3>5. j \in 1 .. Len(a) + Len(b) /\ j <= Len(a)
        BY <1>1, <2>1, <2>3
      <3> HIDE DEF j
      <3>6. c[j] = a[j]
        BY <1>2, <3>5
      <3> QED
        BY <3>2, <3>3, <3>4, <3>6 DEF j
    <2>4. CASE ~(i > p /\ i <= p + Len(a) + Len(b))
      <3>1. r[i] = IF i <= Len(t) THEN t[i] ELSE Zero
        BY <1>1, <1>2, <1>5, <2>1, <2>4
      <3>2. l[i] = IF i <= Len(s) THEN s[i] ELSE Zero
        BY <1>1, <1>4, <2>1, <2>4
      <3>3. i <= Len(s) => s[i] = IF i <= Len(t) THEN t[i] ELSE Zero
        <4> SUFFICES ASSUME i <= Len(s) PROVE s[i] = IF i <= Len(t) THEN t[i] ELSE Zero
          OBVIOUS
        <4>1. i \in 1 .. Len(s) /\ ~(i > p /\ i <= p + Len(a))
          BY <1>1, <1>3, <2>1, <2>4
        <4> QED
          BY <1>3, <4>1
      <3>4. ~(i <= Len(s)) => ~(i <= Len(t))
        BY <1>1, <1>3, <2>1
      <3> QED
        BY <3>1, <3>2, <3>3, <3>4
    <2> QED
      BY <1>1, <2>1, <2>2, <2>3, <2>4
  <1>9. l = r
    BY <1>4, <1>5, <1>7, <1>8, SameElements
  <1> QED
    BY <1>9 DEF l, r, s, c

LEMMA SameOver ==
  ASSUME NEW t, NEW p, NEW b
  PROVE  Text!Over(t, p, b) = Os!Over(t, p, b)
  BY DEF Text!Over, Os!Over
-----------------------------------------------------------------------------
(* The text that the buffers and the disk make, and where handles are. *)

LEMMA NoSequenceIsNoReader == \A s \in Seq(Byte) : s # NoReader
  <1> SUFFICES ASSUME NEW s \in Seq(Byte), s = NoReader PROVE FALSE
    OBVIOUS
  <1>1. Len(s) = 1 /\ s[1] = "none"
    BY DEF NoReader
  <1>2. s[1] \in Byte
    BY <1>1
  <1> QED
    BY <1>1, <1>2

LEMMA BufferFacts ==
  ASSUME NEW f \in FileSet
  PROVE  /\ Buffered(f) \in Nat
         /\ f.reader # NoReader => f.reader \in Seq(Byte) /\ Buffered(f) = Len(f.reader)
         /\ f.reader = NoReader => Buffered(f) = 0
  BY DEF FileSet, Readers, Buffered

LEMMA WriteAtFacts ==
  ASSUME TypeOK, NEW h \in Handle
  PROVE  file[h] \in FileSet /\ WriteAt(file[h]) \in Nat
  BY DEF TypeOK, FileSet, WriteAt

LEMMA WholeFacts ==
  Inv => /\ Whole \in Seq(Byte)
         /\ \A h \in Handle :
              file[h].writer # "none" => Whole = Os!Over(disk, WriteAt(file[h]), file[h].pending)
         /\ (\A h \in Handle : file[h].pending = << >>) => Whole = disk
  <1> SUFFICES ASSUME Inv
               PROVE  /\ Whole \in Seq(Byte)
                      /\ \A h \in Handle : file[h].writer # "none" =>
                           Whole = Os!Over(disk, WriteAt(file[h]), file[h].pending)
                      /\ (\A h \in Handle : file[h].pending = << >>) => Whole = disk
    OBVIOUS
  <1> DEFINE U == {h \in Handle : file[h].open /\ file[h].pending # << >>}
             it == CHOOSE h \in U : TRUE
  <1>1. TypeOK /\ disk \in Seq(Byte)
    BY DEF Inv, TypeOK
  <1>2. Whole = IF U = {} THEN disk ELSE Os!Over(disk, WriteAt(file[it]), file[it].pending)
    BY DEF Whole, Written
  <1>3. \A h \in Handle : /\ ~file[h].open => file[h].writer = "none"
                          /\ file[h].pending # << >> => file[h].writer = "buffered"
    BY DEF Inv, HandleOK
  <1>4. \A h \in Handle : h \in U <=> file[h].pending # << >>
    BY <1>3
  <1>5. U # {} => it \in U
    OBVIOUS
  <1>6. \A h \in Handle : file[h].pending \in Seq(Byte) /\ WriteAt(file[h]) \in Nat
    BY <1>1, WriteAtFacts DEF FileSet
  <1> HIDE DEF it
  <1>7. Whole \in Seq(Byte)
    <2>1. U # {} => it \in Handle
      BY <1>5
    <2> QED
      BY <1>1, <1>2, <1>6, <2>1, OverFacts
  <1>8. (\A h \in Handle : file[h].pending = << >>) => Whole = disk
    BY <1>2, <1>4
  <1>9. ASSUME NEW h \in Handle, file[h].writer # "none"
        PROVE  Whole = Os!Over(disk, WriteAt(file[h]), file[h].pending)
    <2>1. \A g \in Handle : g # h => file[g].pending = << >>
      BY <1>3, <1>9 DEF Inv, OneWriter
    <2>2. CASE file[h].pending # << >>
      <3>1. h \in U
        BY <1>4, <2>2
      <3>2. it \in U /\ it \in Handle
        BY <1>5, <3>1
      <3>3. it = h
        BY <1>4, <2>1, <3>2
      <3> QED
        BY <1>2, <3>1, <3>3
    <2>3. CASE file[h].pending = << >>
      <3>1. Whole = disk
        BY <1>8, <2>1, <2>3
      <3>2. Os!Over(disk, WriteAt(file[h]), << >>) = disk
        BY <1>1, <1>6, OverNothing
      <3> QED
        BY <2>3, <3>1, <3>2
    <2> QED
      BY <2>2, <2>3
  <1> QED
    BY <1>7, <1>8, <1>9

LEMMA WholeFactsPrime ==
  Inv' => /\ Whole' \in Seq(Byte)
          /\ \A h \in Handle :
               file'[h].writer # "none" => Whole' = Os!Over(disk', WriteAt(file[h])', file'[h].pending)
          /\ (\A h \in Handle : file'[h].pending = << >>) => Whole' = disk'
  <1>1. Inv' => (/\ Whole \in Seq(Byte)
                 /\ \A h \in Handle :
                      file[h].writer # "none" => Whole = Os!Over(disk, WriteAt(file[h]), file[h].pending)
                 /\ (\A h \in Handle : file[h].pending = << >>) => Whole = disk)'
    BY WholeFacts, PTL
  <1> QED
    BY <1>1

LEMMA PositionFacts ==
  Inv => \A h \in Handle :
           /\ ~file[h].open => Position(h) = -1
           /\ file[h].open /\ file[h].pending = << >> => Position(h) = file[h].fp - Buffered(file[h])
           /\ file[h].open /\ file[h].pending # << >> =>
                Position(h) = WriteAt(file[h]) + Len(file[h].pending)
           /\ file[h].open => Position(h) \in 0 .. MaxLength
  <1> SUFFICES ASSUME Inv, NEW h \in Handle
               PROVE  /\ ~file[h].open => Position(h) = -1
                      /\ file[h].open /\ file[h].pending = << >> =>
                           Position(h) = file[h].fp - Buffered(file[h])
                      /\ file[h].open /\ file[h].pending # << >> =>
                           Position(h) = WriteAt(file[h]) + Len(file[h].pending)
                      /\ file[h].open => Position(h) \in 0 .. MaxLength
    OBVIOUS
  <1> DEFINE f == file[h]
  <1>1. f \in FileSet /\ WriteAt(f) \in Nat /\ HandleOK(h)
    BY WriteAtFacts DEF Inv
  <1>2. Buffered(f) \in Nat /\ f.fp \in Nat /\ Len(f.pending) \in Nat
    BY <1>1, BufferFacts DEF FileSet
  <1>3. Position(h) = IF ~f.open THEN -1
                      ELSE IF f.pending # << >> THEN WriteAt(f) + Len(f.pending)
                      ELSE f.fp - Buffered(f)
    BY DEF Position
  <1>4. /\ Buffered(f) <= f.fp /\ f.fp <= MaxLength
        /\ f.pending # << >> => WriteAt(f) + Len(f.pending) <= MaxLength
    BY <1>1 DEF HandleOK
  <1> HIDE DEF f
  <1>5. f.open => Position(h) \in 0 .. MaxLength
    BY <1>1, <1>2, <1>3, <1>4
  <1> QED
    BY <1>3, <1>5 DEF f

LEMMA PositionFactsPrime ==
  Inv' => \A h \in Handle :
            /\ ~file'[h].open => Position(h)' = -1
            /\ file'[h].open /\ file'[h].pending = << >> =>
                 Position(h)' = file'[h].fp - Buffered(file'[h])
            /\ file'[h].open /\ file'[h].pending # << >> =>
                 Position(h)' = WriteAt(file[h])' + Len(file'[h].pending)
            /\ file'[h].open => Position(h)' \in 0 .. MaxLength
  <1>1. Inv' => (\A h \in Handle :
           /\ ~file[h].open => Position(h) = -1
           /\ file[h].open /\ file[h].pending = << >> => Position(h) = file[h].fp - Buffered(file[h])
           /\ file[h].open /\ file[h].pending # << >> =>
                Position(h) = WriteAt(file[h]) + Len(file[h].pending)
           /\ file[h].open => Position(h) \in 0 .. MaxLength)'
    BY PositionFacts, PTL
  <1> QED
    BY <1>1
-----------------------------------------------------------------------------
(* What steps do to the text, and what they have to say of it. *)

TextStep == [Text!Next]_<<Whole, [h \in Handle |-> Position(h)]>>

Truthful ==
  \A h \in Handle :
    answer'.of = h /\ Fresh(file[h]) =>
      IF answer'.kind = "cur"
      THEN Position(h)' = Position(h) + answer'.moved
      ELSE LET bytes == SubSeq(disk, Position(h) + 1, Position(h)')
           IN  /\ answer'.bytes = IF answer'.kind = "line" THEN WithoutLineEnd(bytes) ELSE bytes
               /\ answer'.kind = "line" => Newline \notin Range(answer'.bytes)
               /\ answer'.kind = "nil" => Position(h) >= Len(disk)

(* A step after which a file is a text and its answer is true. *)
Right == Inv' /\ TextStep /\ Truthful

LEMMA QuietTruthful ==
  ASSUME answer' = Silent
  PROVE  Truthful
  <1>1. answer'.of = 0
    BY DEF Silent
  <1> QED
    BY <1>1 DEF Truthful

OthersStay(h) == \A q \in Handle \ {h} : Position(q)' = Position(q)

LEMMA AtAfter ==
  ASSUME NEW h \in Handle, OthersStay(h)
  PROVE  LET at == [q \in Handle |-> Position(q)]
         IN  at'[h] = Position(h)' /\ at' = [at EXCEPT ![h] = at'[h]]
  <1>1. \A q \in Handle : Position(q)' = IF q = h THEN Position(h)' ELSE Position(q)
    BY DEF OthersStay
  <1> QED
    BY <1>1

(* An operation of TextFile on one handle is a step of it. *)
LEMMA TextSteps ==
  ASSUME NEW h \in Handle, OthersStay(h),
         Text!Seek(h) \/ Text!Read(h) \/ Text!Open(h) \/ Text!Close(h) \/ Text!Write(h)
  PROVE  TextStep
  <1>1. Text!Next
    BY AtAfter DEF Text!Next
  <1> QED
    BY <1>1 DEF TextStep

LEMMA TextStutters ==
  ASSUME NEW h \in Handle, OthersStay(h), Position(h)' = Position(h), Whole' = Whole
  PROVE  TextStep
  <1>1. \A q \in Handle : Position(q)' = Position(q)
    BY DEF OthersStay
  <1>2. [q \in Handle |-> Position(q)]' = [q \in Handle |-> Position(q)]
    BY <1>1
  <1> QED
    BY <1>2 DEF TextStep

LEMMA TextSeeks ==
  ASSUME Inv, NEW h \in Handle, OthersStay(h), file[h].open,
         Position(h)' \in 0 .. MaxLength, Whole' = Whole
  PROVE  TextStep
  <1> DEFINE at == [q \in Handle |-> Position(q)]
  <1>1. Position(h) # -1
    BY PositionFacts
  <1>2. at'[h] = Position(h)'
    BY AtAfter
  <1>3. at[h] # -1
    BY <1>1
  <1>4. Text!Seek(h)
    BY <1>2, <1>3 DEF Text!Seek
  <1> QED
    BY <1>4, TextSteps

LEMMA TextCloses ==
  ASSUME Inv, NEW h \in Handle, OthersStay(h), file[h].open,
         Position(h)' = -1, Whole' = Whole
  PROVE  TextStep
  <1> DEFINE at == [q \in Handle |-> Position(q)]
  <1>1. Position(h) # -1
    BY PositionFacts
  <1>2. at'[h] = -1
    BY AtAfter
  <1>3. at[h] # -1
    BY <1>1
  <1>4. Text!Close(h)
    BY <1>2, <1>3 DEF Text!Close
  <1> QED
    BY <1>4, TextSteps

LEMMA TextOpens ==
  ASSUME Inv, NEW h \in Handle, OthersStay(h), ~file[h].open,
         Position(h)' = 0, Whole' \in {Whole, << >>}
  PROVE  TextStep
  <1> DEFINE at == [q \in Handle |-> Position(q)]
  <1>1. Position(h) = -1
    BY PositionFacts
  <1>2. at'[h] = 0
    BY AtAfter
  <1>3. at[h] = -1
    BY <1>1
  <1>4. Text!Open(h)
    BY <1>2, <1>3 DEF Text!Open
  <1> QED
    BY <1>4, TextSteps

LEMMA TextWrites ==
  ASSUME Inv, NEW h \in Handle, OthersStay(h), file[h].open,
         NEW p \in {Position(h), Len(Whole)}, NEW bytes \in Chunk,
         Position(h)' = p + Len(bytes), Whole' = Os!Over(Whole, p, bytes)
  PROVE  TextStep
  <1> DEFINE at == [q \in Handle |-> Position(q)]
  <1>1. Position(h) # -1
    BY PositionFacts
  <1>2. at'[h] = p + Len(bytes)
    BY AtAfter
  <1>3. at[h] = Position(h)
    OBVIOUS
  <1>4. Whole' = Text!Over(Whole, p, bytes)
    BY SameOver
  <1>5. Text!Write(h)
    <2>1. p \in {at[h], Len(Whole)}
      BY <1>3
    <2> HIDE DEF at
    <2>2. at[h] # -1 /\ at'[h] = p + Len(bytes)
      BY <1>1, <1>2, <1>3
    <2> QED
      BY <1>4, <2>1, <2>2 DEF Text!Write, at
  <1> QED
    BY <1>5, TextSteps

(* A step that changes one file and perhaps the disk. *)
LEMMA OneFile ==
  ASSUME Inv, NEW h \in Handle, NEW g \in FileSet, file' = [file EXCEPT ![h] = g],
         disk' \in Seq(Byte), Len(disk') <= MaxLength, HandleOK(h)',
         g.writer # "none" => \A q \in Handle \ {h} : file[q].writer = "none",
         disk' = disk \/ \A q \in Handle \ {h} : file[q].pending = << >>
  PROVE  Inv' /\ file'[h] = g /\ OthersStay(h)
  <1>1. TypeOK /\ file \in [Handle -> FileSet]
    BY DEF Inv, TypeOK
  <1>2. /\ file' \in [Handle -> FileSet] /\ file'[h] = g
        /\ \A q \in Handle \ {h} : file'[q] = file[q]
    BY <1>1
  <1>3. ASSUME NEW q \in Handle \ {h} PROVE HandleOK(q)' /\ Position(q)' = Position(q)
    <2>1. file'[q] = file[q] /\ (disk' = disk \/ file[q].pending = << >>) /\ HandleOK(q)
      BY <1>2 DEF Inv
    <2> QED
      BY <2>1 DEF HandleOK, Position, WriteAt, Buffered
  <1>4. ASSUME NEW q \in Handle PROVE HandleOK(q)'
    BY <1>3
  <1>5. OneWriter'
    BY <1>2 DEF Inv, OneWriter
  <1>6. TypeOK'
    BY <1>2 DEF TypeOK
  <1> QED
    BY <1>2, <1>3, <1>4, <1>5, <1>6 DEF Inv, OthersStay

(* The text is the same when only a file that holds nothing back changes. *)
LEMMA WholeStays ==
  ASSUME Inv, Inv', NEW h \in Handle, NEW g, file' = [file EXCEPT ![h] = g], disk' = disk,
         file[h].pending = << >>, g.pending = << >>
  PROVE  Whole' = Whole
  <1>1. file \in [Handle -> FileSet]
    BY DEF Inv, TypeOK
  <1>2. file'[h] = g /\ \A q \in Handle \ {h} : file'[q] = file[q]
    BY <1>1
  <1>3. CASE \A q \in Handle : file[q].pending = << >>
    BY <1>2, <1>3, WholeFacts, WholeFactsPrime
  <1>4. ASSUME NEW q \in Handle, file[q].pending # << >> PROVE Whole' = Whole
    <2>1. q # h /\ file'[q] = file[q] /\ file[q].writer # "none"
      BY <1>2, <1>4 DEF Inv, HandleOK
    <2>2. WriteAt(file[q])' = WriteAt(file[q])
      BY <2>1 DEF WriteAt
    <2>3. Whole = Os!Over(disk, WriteAt(file[q]), file[q].pending)
      BY <2>1, WholeFacts
    <2>4. Whole' = Os!Over(disk', WriteAt(file[q])', file'[q].pending)
      BY <2>1, WholeFactsPrime
    <2> QED
      BY <2>1, <2>2, <2>3, <2>4
  <1> QED
    BY <1>3, <1>4
-----------------------------------------------------------------------------
(* Operations, one lemma each. *)

LEMMA NothingPending ==
  ASSUME Inv, NEW h \in Handle, file[h].writer = "none"
  PROVE  file[h].pending = << >>
  BY DEF Inv, HandleOK

LEMMA OpenRight ==
  ASSUME Inv, NEW h \in Handle, NEW mode \in Modes, Open(h, mode)
  PROVE  Right
  <1> DEFINE g == newFile(mode)
             e == << >>
  <1>1. /\ ~file[h].open /\ file' = [file EXCEPT ![h] = g] /\ answer' = Silent
        /\ h \in Writer \/ mode = "r"
        /\ mode \in Writable => \A other \in Writer : file[other].writer = "none"
        /\ disk' = IF mode \in Truncating THEN e ELSE disk
    BY DEF Open, SetFile, Quiet
  <1>2. e \in Seq(Byte) /\ Len(e) = 0 /\ e = << >>
    OBVIOUS
  <1>3. /\ g.open = TRUE /\ g.mode = Opened(mode) /\ g.fp = 0 /\ g.pending = e
        /\ g.reader = IF mode \in Readable THEN e ELSE NoReader
        /\ g.writer = IF mode \in Writable THEN "direct" ELSE "none"
    BY DEF newFile
  <1>4. g \in FileSet
    <2>1. Opened(mode) \in Modes
      BY DEF Opened, Modes
    <2> QED
      BY <2>1 DEF newFile, FileSet, Readers
  <1>5. Buffered(g) = 0
    BY <1>2, <1>3 DEF Buffered
  <1> HIDE DEF g, e
  <1>6. file \in [Handle -> FileSet] /\ disk \in Seq(Byte) /\ Len(disk) <= MaxLength
    BY DEF Inv, TypeOK
  <1>7. file'[h] = g
    BY <1>1, <1>6
  <1>8. \A q \in Handle : mode \in Writable => file[q].writer = "none"
    BY <1>1 DEF Inv, HandleOK
  <1>9. mode \in Truncating => mode \in Writable
    BY DEF Truncating, Writable, Modes
  <1>10. \A q \in Handle : mode \in Truncating => file[q].pending = << >>
    BY <1>8, <1>9, NothingPending
  <1>11. HandleOK(h)'
    <2>1. mode \in Writable => mode # "r" /\ Opened(mode) # "r"
      BY DEF Writable, Opened
    <2>2. 0 <= 0 /\ 0 <= MaxLength /\ g.pending = << >>
      BY <1>2, <1>3
    <2> QED
      BY <1>1, <1>3, <1>5, <1>7, <2>1, <2>2 DEF HandleOK
  <1>12. disk' \in Seq(Byte) /\ Len(disk') <= MaxLength
    BY <1>1, <1>2, <1>6
  <1>13. g.writer # "none" => \A q \in Handle \ {h} : file[q].writer = "none"
    BY <1>3, <1>8
  <1>14. disk' = disk \/ \A q \in Handle \ {h} : file[q].pending = << >>
    BY <1>1, <1>10
  <1>15. Inv' /\ OthersStay(h)
    BY <1>1, <1>4, <1>11, <1>12, <1>13, <1>14, OneFile
  <1>16. Position(h)' = 0
    <2>1. Position(h)' = g.fp - Buffered(g)
      BY <1>2, <1>3, <1>7, <1>15, PositionFactsPrime
    <2> QED
      BY <1>3, <1>5, <2>1
  <1>17. file[h].pending = << >> /\ g.pending = << >>
    BY <1>1, <1>2, <1>3, NothingPending DEF Inv, HandleOK
  <1>18. Whole' \in {Whole, << >>}
    <2>1. CASE mode \notin Truncating
      BY <1>1, <1>15, <1>17, <2>1, WholeStays
    <2>2. CASE mode \in Truncating
      <3>1. \A q \in Handle : file'[q].pending = << >>
        BY <1>1, <1>6, <1>10, <1>17, <2>2
      <3>2. Whole' = disk'
        BY <1>15, <3>1, WholeFactsPrime
      <3> QED
        BY <1>1, <1>2, <2>2, <3>2
    <2> QED
      BY <2>1, <2>2
  <1>19. TextStep
    BY <1>1, <1>15, <1>16, <1>18, TextOpens
  <1> QED
    BY <1>1, <1>15, <1>19, QuietTruthful DEF Right

(* A file after out was written, with rest held back. *)
Spilled(f, out, rest) == [Advanced(f, out) EXCEPT !.pending = rest]

LEMMA SpilledFacts ==
  ASSUME TypeOK, NEW f \in FileSet, WriteAt(f) \in Nat, NEW out \in Seq(Byte), NEW rest \in Seq(Byte),
         NEW g, g = Spilled(f, out, rest)
  PROVE  /\ g \in FileSet
         /\ g.open = f.open /\ g.mode = f.mode /\ g.reader = f.reader /\ g.writer = f.writer
         /\ g.pending = rest
         /\ g.fp = IF out = << >> THEN f.fp ELSE WriteAt(f) + Len(out)
         /\ Buffered(g) = Buffered(f)
  <1> DEFINE w == WriteAt(f) + Len(out)
             a == [f EXCEPT !.fp = w]
  <1>1. w \in Nat
    OBVIOUS
  <1>2. Advanced(f, out) = IF out = << >> THEN f ELSE a
    BY DEF Advanced
  <1> HIDE DEF w
  <1>3. /\ a \in FileSet /\ a.open = f.open /\ a.mode = f.mode /\ a.reader = f.reader
        /\ a.writer = f.writer /\ a.fp = w
    BY <1>1 DEF FileSet
  <1> HIDE DEF a
  <1> DEFINE b == Advanced(f, out)
  <1>4. /\ b \in FileSet /\ b.open = f.open /\ b.mode = f.mode /\ b.reader = f.reader
        /\ b.writer = f.writer /\ b.fp = IF out = << >> THEN f.fp ELSE w
    BY <1>2, <1>3
  <1>5. g = [b EXCEPT !.pending = rest]
    BY DEF Spilled
  <1> HIDE DEF b
  <1>6. /\ g \in FileSet /\ g.open = b.open /\ g.mode = b.mode /\ g.reader = b.reader
        /\ g.writer = b.writer /\ g.fp = b.fp /\ g.pending = rest
    BY <1>4, <1>5 DEF FileSet
  <1>7. Buffered(g) = Buffered(f)
    BY <1>4, <1>6 DEF Buffered
  <1> QED
    BY <1>4, <1>6, <1>7 DEF w

(* What flushing makes of the disk. *)
LEMMA FlushedDisk ==
  ASSUME Inv, NEW h \in Handle
  PROVE  LET d == Written(file[h], file[h].pending)
         IN  /\ d \in Seq(Byte) /\ Len(d) <= MaxLength
             /\ file[h].writer # "none" => d = Whole
             /\ file[h].pending = << >> => d = disk
             /\ file[h].pending # << >> => file[h].writer # "none"
             /\ file[h].writer # "none" => \A q \in Handle \ {h} : file[q].writer = "none" /\ file[q].pending = << >>
  <1> DEFINE f == file[h]
             d == Written(f, f.pending)
  <1>1. f \in FileSet /\ WriteAt(f) \in Nat /\ f.pending \in Seq(Byte) /\ disk \in Seq(Byte) /\ Len(disk) <= MaxLength
    BY WriteAtFacts DEF Inv, TypeOK, FileSet
  <1>2. d = Os!Over(disk, WriteAt(f), f.pending)
    BY DEF Written
  <1>3. f.pending # << >> => f.writer # "none" /\ WriteAt(f) + Len(f.pending) <= MaxLength
    BY DEF Inv, HandleOK
  <1>4. f.writer # "none" => d = Whole
    BY <1>2, WholeFacts
  <1>5. f.writer # "none" => \A q \in Handle \ {h} : file[q].writer = "none" /\ file[q].pending = << >>
    BY NothingPending DEF Inv, OneWriter
  <1>6. f.pending = << >> => d = disk
    BY <1>1, <1>2, OverNothing
  <1> HIDE DEF d, f
  <1>7. d \in Seq(Byte) /\ Len(d) <= MaxLength
    <2>1. d \in Seq(Byte) /\ Len(d) = IF f.pending # << >> /\ WriteAt(f) + Len(f.pending) > Len(disk)
                                      THEN WriteAt(f) + Len(f.pending) ELSE Len(disk)
      BY <1>1, <1>2, OverFacts
    <2> QED
      BY <1>1, <1>3, <2>1
  <1> QED
    BY <1>3, <1>4, <1>5, <1>6, <1>7 DEF d, f

LEMMA CloseRight ==
  ASSUME Inv, NEW h \in Handle, fileCloseAux(h)
  PROVE  Right
  <1> DEFINE f == file[h]
             d == Written(f, f.pending)
             g == Unopened
  <1>1. f.open /\ disk' = d /\ file' = [file EXCEPT ![h] = g] /\ answer' = Silent
    BY DEF fileCloseAux, SetFile, Quiet
  <1>2. /\ d \in Seq(Byte) /\ Len(d) <= MaxLength
        /\ f.writer # "none" => d = Whole
        /\ f.pending = << >> => d = disk
        /\ f.pending # << >> => f.writer # "none"
        /\ f.writer # "none" => \A q \in Handle \ {h} : file[q].writer = "none" /\ file[q].pending = << >>
    BY FlushedDisk
  <1>3. /\ g \in FileSet /\ g.open = FALSE /\ g.writer = "none" /\ g.pending = << >>
        /\ g.fp = 0 /\ Buffered(g) = 0
    BY DEF Unopened, FileSet, Readers, Buffered, Modes
  <1> HIDE DEF g, d
  <1>4. file'[h] = g
    BY <1>1 DEF Inv, TypeOK
  <1>5. HandleOK(h)'
    BY <1>3, <1>4 DEF HandleOK
  <1>6. disk' = disk \/ \A q \in Handle \ {h} : file[q].pending = << >>
    BY <1>1, <1>2
  <1>7. Inv' /\ OthersStay(h)
    BY <1>1, <1>2, <1>3, <1>5, <1>6, OneFile
  <1>8. Position(h)' = -1
    BY <1>3, <1>4, <1>7, PositionFactsPrime
  <1>9. Whole' = Whole
    <2>1. CASE f.writer = "none"
      BY <1>1, <1>2, <1>3, <1>7, <2>1, WholeStays
    <2>2. CASE f.writer # "none"
      <3>1. \A q \in Handle : file'[q].pending = << >>
        BY <1>1, <1>2, <1>3, <1>4, <2>2 DEF Inv, TypeOK
      <3> QED
        BY <1>1, <1>2, <1>7, <2>2, <3>1, WholeFactsPrime
    <2> QED
      BY <2>1, <2>2
  <1>10. TextStep
    BY <1>1, <1>7, <1>8, <1>9, TextCloses
  <1> QED
    BY <1>1, <1>7, <1>10, QuietTruthful DEF Right

LEMMA FlushRight ==
  ASSUME Inv, NEW h \in Handle, fileFlushAux(h)
  PROVE  Right
  <1> DEFINE f == file[h]
             d == Written(f, f.pending)
             e == << >>
             g == [Advanced(f, f.pending) EXCEPT !.pending = e]
  <1>1. f.writer = "buffered" /\ disk' = d /\ file' = [file EXCEPT ![h] = g] /\ answer' = Silent
    BY DEF fileFlushAux, SetFile, Quiet
  <1>2. /\ d \in Seq(Byte) /\ Len(d) <= MaxLength /\ d = Whole
        /\ f.pending = << >> => d = disk
        /\ \A q \in Handle \ {h} : file[q].writer = "none" /\ file[q].pending = << >>
    BY <1>1, FlushedDisk
  <1>3. /\ TypeOK /\ f \in FileSet /\ WriteAt(f) \in Nat /\ f.pending \in Seq(Byte) /\ HandleOK(h)
    BY WriteAtFacts DEF Inv, TypeOK, FileSet
  <1>4. e \in Seq(Byte) /\ e = << >> /\ Len(f.pending) \in Nat
    BY <1>3
  <1> HIDE DEF e
  <1>5. /\ g \in FileSet
        /\ g.open = f.open /\ g.mode = f.mode /\ g.reader = f.reader /\ g.writer = f.writer
        /\ g.pending = e
        /\ g.fp = IF f.pending = << >> THEN f.fp ELSE WriteAt(f) + Len(f.pending)
        /\ Buffered(g) = Buffered(f)
    <2> DEFINE p == f.pending
    <2>1. g = Spilled(f, p, e)
      BY DEF Spilled
    <2>2. TypeOK /\ f \in FileSet /\ WriteAt(f) \in Nat /\ p \in Seq(Byte) /\ e \in Seq(Byte)
      BY <1>3, <1>4
    <2> HIDE DEF f, g, p
    <2>3. /\ g \in FileSet
          /\ g.open = f.open /\ g.mode = f.mode /\ g.reader = f.reader /\ g.writer = f.writer
          /\ g.pending = e
          /\ g.fp = IF p = << >> THEN f.fp ELSE WriteAt(f) + Len(p)
          /\ Buffered(g) = Buffered(f)
      BY <2>1, <2>2, SpilledFacts
    <2> QED
      BY <2>3 DEF p
  <1>6. /\ f.open /\ h \in Writer /\ f.mode # "r" /\ Buffered(f) <= f.fp /\ f.fp <= MaxLength
        /\ f.pending # << >> => Buffered(f) = 0 /\ WriteAt(f) + Len(f.pending) <= MaxLength
    BY <1>1, <1>3 DEF HandleOK
  <1>7. Buffered(f) \in Nat /\ f.fp \in Nat
    BY <1>3, BufferFacts DEF FileSet
  <1> HIDE DEF g, d
  <1>8. file'[h] = g
    BY <1>1 DEF Inv, TypeOK
  <1>9. Buffered(g) <= g.fp /\ g.fp <= MaxLength
    BY <1>3, <1>4, <1>5, <1>6, <1>7
  <1>10. HandleOK(h)'
    BY <1>4, <1>5, <1>6, <1>8, <1>9 DEF HandleOK
  <1>11. Inv' /\ OthersStay(h)
    BY <1>1, <1>2, <1>5, <1>10, OneFile
  <1>12. Position(h)' = Position(h)
    <2>1. Position(h)' = g.fp - Buffered(g)
      BY <1>4, <1>5, <1>6, <1>8, <1>11, PositionFactsPrime
    <2>2. Position(h) = IF f.pending = << >> THEN f.fp - Buffered(f) ELSE WriteAt(f) + Len(f.pending)
      BY <1>6, PositionFacts
    <2> QED
      BY <1>3, <1>4, <1>5, <1>6, <1>7, <2>1, <2>2
  <1>13. Whole' = Whole
    <2>1. \A q \in Handle : file'[q].pending = << >>
      BY <1>1, <1>2, <1>4, <1>5, <1>8 DEF Inv, TypeOK
    <2> QED
      BY <1>1, <1>2, <1>11, <2>1, WholeFactsPrime
  <1>14. TextStep
    BY <1>11, <1>12, <1>13, TextStutters
  <1> QED
    BY <1>1, <1>11, <1>14, QuietTruthful DEF Right

LEMMA SetVBufRight ==
  ASSUME Bearable, Inv, NEW h \in Handle, fileSetVBuf(h)
  PROVE  Right
  <1> DEFINE f == file[h]
             e == << >>
  <1>1. PICK kind \in {"direct", "buffered"} : file' = [file EXCEPT ![h] = [f EXCEPT !.writer = kind, !.pending = e]]
    BY DEF fileSetVBuf, SetFile
  <1>2. /\ f.writer # "none" /\ f.open /\ disk' = disk /\ answer' = Silent
        /\ f.pending = << >>
    BY DEF fileSetVBuf, Quiet, MayMove, Bearable
  <1>3. f \in FileSet /\ WriteAt(f) \in Nat /\ HandleOK(h) /\ disk \in Seq(Byte) /\ Len(disk) <= MaxLength
    BY WriteAtFacts DEF Inv, TypeOK
  <1>4. e \in Seq(Byte) /\ e = << >>
    OBVIOUS
  <1> DEFINE g == [f EXCEPT !.writer = kind, !.pending = e]
  <1> HIDE DEF e
  <1>5. /\ g \in FileSet
        /\ g.open = f.open /\ g.mode = f.mode /\ g.reader = f.reader /\ g.writer = kind
        /\ g.pending = e /\ g.fp = f.fp
    BY <1>3, <1>4 DEF FileSet
  <1>6. Buffered(g) = Buffered(f)
    BY <1>5 DEF Buffered
  <1>7. file' = [file EXCEPT ![h] = g]
    BY <1>1
  <1> HIDE DEF g
  <1>8. file'[h] = g
    BY <1>7 DEF Inv, TypeOK
  <1>9. HandleOK(h)'
    BY <1>2, <1>3, <1>4, <1>5, <1>6, <1>8 DEF HandleOK
  <1>10. \A q \in Handle \ {h} : file[q].writer = "none"
    BY <1>2, FlushedDisk
  <1>11. Inv' /\ OthersStay(h)
    BY <1>2, <1>3, <1>5, <1>7, <1>9, <1>10, OneFile
  <1>12. Whole' = Whole
    BY <1>2, <1>4, <1>5, <1>7, <1>11, WholeStays
  <1>13. Position(h)' = Position(h)
    <2>1. Position(h)' = g.fp - Buffered(g)
      BY <1>2, <1>4, <1>5, <1>8, <1>11, PositionFactsPrime
    <2>2. Position(h) = f.fp - Buffered(f)
      BY <1>2, PositionFacts
    <2> QED
      BY <1>5, <1>6, <2>1, <2>2
  <1>14. TextStep
    BY <1>11, <1>12, <1>13, TextStutters
  <1> QED
    BY <1>2, <1>11, <1>14, QuietTruthful DEF Right

LEMMA AbandonFacts ==
  ASSUME NEW f \in FileSet, Buffered(f) <= f.fp, NEW k, k = AbandonReadBuffer(f)
  PROVE  /\ k \in FileSet
         /\ k.open = f.open /\ k.mode = f.mode /\ k.writer = f.writer /\ k.pending = f.pending
         /\ k.fp = f.fp - Buffered(f) /\ Buffered(k) = 0
  <1> DEFINE p == f.fp - Buffered(f)
             e == << >>
             b == [f EXCEPT !.fp = p, !.reader = e]
  <1>1. f.fp \in Nat /\ Buffered(f) \in Nat /\ f.reader \in Readers
    BY BufferFacts DEF FileSet
  <1>2. p \in Nat /\ (Buffered(f) = 0 => p = f.fp)
    BY <1>1
  <1>3. e \in Seq(Byte) /\ Len(e) = 0
    OBVIOUS
  <1>4. f.reader # NoReader => Buffered(f) = Len(f.reader)
    BY BufferFacts
  <1>5. CASE f.reader = NoReader
    <2>1. k = f /\ Buffered(f) = 0
      BY <1>5, BufferFacts DEF AbandonReadBuffer
    <2> QED
      BY <1>2, <2>1
  <1>6. CASE f.reader # NoReader
    <2>1. k = b
      BY <1>4, <1>6 DEF AbandonReadBuffer
    <2> HIDE DEF p, e
    <2>2. b \in FileSet
      <3>1. e \in Readers
        BY <1>3 DEF Readers
      <3> QED
        BY <1>2, <3>1 DEF FileSet
    <2>3. /\ b.open = f.open /\ b.mode = f.mode /\ b.writer = f.writer /\ b.pending = f.pending
          /\ b.fp = p /\ b.reader = e
      BY DEF FileSet
    <2> HIDE DEF b
    <2>4. Buffered(b) = 0
      BY <1>3, <2>3, BufferFacts, <2>2
    <2> QED
      BY <2>1, <2>2, <2>3, <2>4 DEF p
  <1> QED
    BY <1>5, <1>6

LEMMA Split ==
  ASSUME NEW s \in Seq(Byte), NEW n \in 0 .. Len(s)
  PROVE  /\ SubSeq(s, 1, n) \in Seq(Byte) /\ Len(SubSeq(s, 1, n)) = n
         /\ SubSeq(s, n + 1, Len(s)) \in Seq(Byte) /\ Len(SubSeq(s, n + 1, Len(s))) = Len(s) - n
         /\ SubSeq(s, 1, n) \o SubSeq(s, n + 1, Len(s)) = s
  <1> DEFINE a == SubSeq(s, 1, n)
             b == SubSeq(s, n + 1, Len(s))
             c == a \o b
  <1>1. Len(s) \in Nat /\ n \in Nat
    OBVIOUS
  <1>2. a \in Seq(Byte) /\ Len(a) = n /\ \A i \in 1 .. n : a[i] = s[i]
    BY <1>1
  <1>3. b \in Seq(Byte) /\ Len(b) = Len(s) - n /\ \A i \in 1 .. Len(s) - n : b[i] = s[n + i]
    BY <1>1
  <1> HIDE DEF a, b
  <1>4. /\ c \in Seq(Byte) /\ Len(c) = Len(a) + Len(b)
        /\ \A i \in 1 .. Len(a) + Len(b) : c[i] = IF i <= Len(a) THEN a[i] ELSE b[i - Len(a)]
    BY <1>2, <1>3, ConcatProperties
  <1> HIDE DEF c
  <1>5. ASSUME NEW i \in 1 .. Len(s) PROVE c[i] = s[i]
    <2>1. CASE i <= n
      BY <1>1, <1>2, <1>3, <1>4, <2>1
    <2>2. CASE ~(i <= n)
      <3> DEFINE j == i - n
      <3>1. j \in 1 .. Len(s) - n /\ n + j = i
        BY <1>1, <2>2
      <3>2. c[i] = b[j]
        BY <1>1, <1>2, <1>3, <1>4, <2>2
      <3> HIDE DEF j
      <3> QED
        BY <1>3, <3>1, <3>2
    <2> QED
      BY <2>1, <2>2
  <1>6. c = s
    BY <1>1, <1>2, <1>3, <1>4, <1>5, SameElements
  <1> QED
    BY <1>2, <1>3, <1>6 DEF a, b, c

(* A bufio.Writer writes no more than there is. *)
LEMMA SpillCountFacts ==
  ASSUME NEW n \in Nat, NEW m \in Nat
  PROVE  SpillCount(n, m) \in 0 .. n + m
  <1> DEFINE z == SpillCount(n, m)
  <1>1. WriteSize \in Nat /\ WriteSize > 0
    OBVIOUS
  <1>2. z = IF n + m <= WriteSize THEN 0
            ELSE IF n = 0 THEN m
            ELSE IF m - (WriteSize - n) > WriteSize THEN n + m
            ELSE WriteSize
    BY DEF SpillCount
  <1> HIDE DEF z
  <1>3. z \in Nat /\ z <= n + m
    BY <1>1, <1>2
  <1> QED
    BY <1>3 DEF z

LEMMA ChunkFacts ==
  ASSUME NEW bytes \in Chunk
  PROVE  bytes \in Seq(Byte) /\ Len(bytes) >= 1
  <1>1. CASE \E b \in Byte : bytes = <<b>>
    BY <1>1
  <1>2. CASE \E b, c \in Byte : bytes = <<b, c>>
    BY <1>2
  <1>3. (\E b \in Byte : bytes = <<b>>) \/ (\E b, c \in Byte : bytes = <<b, c>>)
    BY DEF Chunk
  <1> QED
    BY <1>1, <1>2, <1>3

(* What is written at once and what is held back make the text there was,
   with the bytes written over it. *)
LEMMA WriteRight ==
  ASSUME Bearable, Inv, NEW h \in Handle, NEW bytes \in Chunk, fileWriteAux(h, bytes)
  PROVE  Right
  <1> DEFINE f == file[h]
             all == f.pending \o bytes
             n == IF f.writer = "direct" THEN Len(bytes) ELSE SpillCount(Len(f.pending), Len(bytes))
             out == SubSeq(all, 1, n)
             rest == SubSeq(all, n + 1, Len(all))
             g == Spilled(f, out, rest)
             k == AbandonReadBuffer(g)
             w == WriteAt(f)
             d == Written(f, out)
  <1>1. /\ f.writer # "none" /\ Buffered(f) = 0 /\ w + Len(all) <= MaxLength
        /\ disk' = d /\ answer' = Silent
    BY DEF fileWriteAux, Quiet, MayWrite, Bearable
  <1>2. file' = [file EXCEPT ![h] = k]
    BY DEF fileWriteAux, SetFile, Spilled
  <1>3. /\ TypeOK /\ f \in FileSet /\ w \in Nat /\ f.pending \in Seq(Byte) /\ HandleOK(h)
        /\ disk \in Seq(Byte) /\ Len(disk) <= MaxLength
        /\ f.writer \in {"none", "direct", "buffered"} /\ f.fp \in Nat /\ f.fp <= MaxLength
    BY WriteAtFacts DEF Inv, TypeOK, FileSet, HandleOK
  <1>4. bytes \in Seq(Byte) /\ Len(bytes) >= 1 /\ Len(bytes) \in Nat /\ Len(f.pending) \in Nat
    BY <1>3, ChunkFacts
  <1>5. all \in Seq(Byte) /\ Len(all) = Len(f.pending) + Len(bytes)
    BY <1>3, <1>4, ConcatProperties
  <1>6. /\ f.open /\ h \in Writer /\ f.mode # "r"
        /\ f.pending # << >> => f.writer = "buffered"
    BY <1>1, <1>3 DEF HandleOK
  <1>7. f.writer = "direct" => Len(f.pending) = 0
    BY <1>6
  <1>8. n \in 0 .. Len(all) /\ (f.writer = "direct" => n = Len(all))
    <2>1. CASE f.writer = "direct"
      BY <1>4, <1>5, <1>7, <2>1
    <2>2. CASE f.writer # "direct"
      BY <1>4, <1>5, <2>2, SpillCountFacts
    <2> QED
      BY <2>1, <2>2
  <1> HIDE DEF n
  <1>9. /\ out \in Seq(Byte) /\ Len(out) = n
        /\ rest \in Seq(Byte) /\ Len(rest) = Len(all) - n
        /\ out \o rest = all
    <2> HIDE DEF all
    <2> QED
      BY <1>5, <1>8, Split
  <1>10. all = f.pending \o bytes
    OBVIOUS
  <1>11. d = Os!Over(disk, w, out)
    BY DEF Written
  <1>12. g = Spilled(f, out, rest) /\ k = AbandonReadBuffer(g) /\ WriteAt(f) = w
    OBVIOUS
  <1>13. w = IF f.mode \in Appending THEN Len(disk) ELSE f.fp
    BY DEF WriteAt
  <1>14. \A q \in Handle \ {h} : file[q].writer = "none" /\ file[q].pending = << >>
    BY <1>1, FlushedDisk
  <1>15. /\ Whole = Os!Over(disk, w, f.pending)
         /\ Position(h) = IF f.pending # << >> THEN w + Len(f.pending) ELSE f.fp - Buffered(f)
    BY <1>1, <1>6, WholeFacts, PositionFacts
  <1> DEFINE p == f.pending
  <1>16. p = f.pending /\ p \in Seq(Byte) /\ f = file[h] /\ Len(p) \in Nat /\ Len(all) = Len(p) + Len(bytes)
    BY <1>3, <1>4, <1>5
  <1> HIDE DEF all, out, rest, g, k, w, d, p, f
  <1>17. /\ g \in FileSet
         /\ g.open = f.open /\ g.mode = f.mode /\ g.writer = f.writer
         /\ g.pending = rest
         /\ g.fp = IF out = << >> THEN f.fp ELSE w + Len(out)
         /\ Buffered(g) = 0
    <2>1. /\ TypeOK /\ f \in FileSet /\ WriteAt(f) \in Nat /\ out \in Seq(Byte) /\ rest \in Seq(Byte)
          /\ g = Spilled(f, out, rest)
      BY <1>3, <1>9, <1>12
    <2>2. /\ g \in FileSet
          /\ g.open = f.open /\ g.mode = f.mode /\ g.reader = f.reader /\ g.writer = f.writer
          /\ g.pending = rest
          /\ g.fp = IF out = << >> THEN f.fp ELSE WriteAt(f) + Len(out)
          /\ Buffered(g) = Buffered(f)
      BY <2>1, SpilledFacts
    <2> QED
      BY <1>1, <1>12, <2>2
  <1>18. Len(out) \in Nat /\ Len(rest) \in Nat /\ Len(all) \in Nat /\ g.fp \in Nat /\ Len(disk) \in Nat
    BY <1>3, <1>5, <1>9, <1>17 DEF FileSet
  <1>19. /\ k \in FileSet /\ k.open = f.open /\ k.mode = f.mode /\ k.writer = f.writer /\ k.pending = rest
         /\ k.fp = (IF out = << >> THEN f.fp ELSE w + Len(out)) /\ Buffered(k) = 0
    <2>1. Buffered(g) <= g.fp
      BY <1>17, <1>18
    <2>2. /\ k \in FileSet
          /\ k.open = g.open /\ k.mode = g.mode /\ k.writer = g.writer /\ k.pending = g.pending
          /\ k.fp = g.fp - Buffered(g) /\ Buffered(k) = 0
      BY <1>12, <1>17, <2>1, AbandonFacts
    <2> QED
      BY <1>17, <1>18, <2>2
  <1>20. file'[h] = k
    BY <1>2 DEF Inv, TypeOK
  <1>21. (out = << >>) <=> (Len(out) = 0)
    BY <1>9, EmptySeq
  <1>22. (rest = << >>) <=> (Len(rest) = 0)
    BY <1>9, EmptySeq
  <1>23. (p = << >>) <=> (Len(p) = 0)
    BY <1>16, EmptySeq
  <1>24. /\ d \in Seq(Byte)
         /\ Len(d) = IF out # << >> /\ w + Len(out) > Len(disk) THEN w + Len(out) ELSE Len(disk)
    BY <1>3, <1>9, <1>11, OverFacts
  <1>25. Len(d) <= MaxLength /\ k.fp <= MaxLength /\ k.fp \in Nat
    BY <1>1, <1>3, <1>5, <1>8, <1>9, <1>18, <1>19, <1>24
  <1> DEFINE v == WriteAt(file[h])'
  <1>26. v = w + Len(out)
    <2>1. v = IF k.mode \in Appending THEN Len(d) ELSE k.fp
      BY <1>1, <1>20 DEF WriteAt
    <2>2. CASE f.mode \in Appending
      BY <1>3, <1>13, <1>18, <1>19, <1>21, <1>24, <2>1, <2>2
    <2>3. CASE f.mode \notin Appending
      BY <1>3, <1>13, <1>18, <1>19, <1>21, <2>1, <2>3
    <2> QED
      BY <2>2, <2>3
  <1>27. HandleOK(h)'
    <2>1. rest # << >> => v + Len(rest) <= MaxLength /\ k.writer = "buffered"
      BY <1>1, <1>3, <1>8, <1>9, <1>18, <1>19, <1>22, <1>26
    <2>2. Buffered(k) <= k.fp
      BY <1>19, <1>25
    <2> QED
      BY <1>6, <1>19, <1>20, <1>25, <2>1, <2>2 DEF HandleOK
  <1>28. Inv' /\ OthersStay(h)
    BY <1>1, <1>2, <1>14, <1>19, <1>24, <1>25, <1>27, OneFile
  <1>29. Position(h)' = w + Len(all)
    <2>1. CASE rest # << >>
      <3>1. Position(h)' = v + Len(rest)
        BY <1>6, <1>19, <1>20, <1>28, <2>1, PositionFactsPrime
      <3> QED
        BY <1>3, <1>8, <1>9, <1>18, <1>26, <3>1
    <2>2. CASE rest = << >>
      <3>1. Position(h)' = k.fp - Buffered(k)
        BY <1>6, <1>19, <1>20, <1>28, <2>2, PositionFactsPrime
      <3>2. Len(rest) = 0 /\ Len(out) = Len(all) /\ Len(all) >= 1
        BY <1>4, <1>8, <1>9, <1>16, <1>18, <1>22, <2>2
      <3>3. k.fp = w + Len(out)
        BY <1>18, <1>19, <1>21, <3>2
      <3> QED
        BY <1>3, <1>18, <1>19, <3>1, <3>2, <3>3
    <2> QED
      BY <2>1, <2>2
  <1>30. Whole' = Os!Over(Whole, w + Len(p), bytes)
    <2>1. Whole' = Os!Over(d, v, rest)
      BY <1>1, <1>19, <1>20, <1>28, WholeFactsPrime
    <2>2. Os!Over(d, w + Len(out), rest) = Os!Over(disk, w, all)
      <3>1. disk \in Seq(Byte) /\ w \in Nat /\ out \in Seq(Byte) /\ rest \in Seq(Byte)
        BY <1>3, <1>9
      <3>2. Os!Over(Os!Over(disk, w, out), w + Len(out), rest) = Os!Over(disk, w, out \o rest)
        BY <3>1, OverOver
      <3> QED
        BY <1>9, <1>11, <3>2
    <2>3. Os!Over(Os!Over(disk, w, p), w + Len(p), bytes) = Os!Over(disk, w, p \o bytes)
      <3>1. disk \in Seq(Byte) /\ w \in Nat /\ p \in Seq(Byte) /\ bytes \in Seq(Byte)
        BY <1>3, <1>4, <1>16
      <3> QED
        BY <3>1, OverOver
    <2> QED
      BY <1>10, <1>15, <1>16, <1>26, <2>1, <2>2, <2>3
  <1> DEFINE q == w + Len(p)
  <1>31. q \in {Position(h), Len(Whole)}
    <2>1. CASE p # << >>
      BY <1>15, <1>16, <2>1
    <2>2. CASE p = << >> /\ f.mode \in Appending
      <3>1. Whole = disk
        BY <1>3, <1>15, <1>16, <2>2, OverNothing
      <3> QED
        BY <1>3, <1>13, <1>18, <1>23, <2>2, <3>1
    <2>3. CASE p = << >> /\ f.mode \notin Appending
      BY <1>1, <1>3, <1>13, <1>15, <1>16, <1>23, <2>3
    <2> QED
      BY <2>1, <2>2, <2>3
  <1>32. Position(h)' = q + Len(bytes)
    <2>1. w \in Nat /\ Len(p) \in Nat /\ Len(bytes) \in Nat /\ Len(all) = Len(p) + Len(bytes)
      BY <1>3, <1>4, <1>16
    <2>2. w + Len(all) = q + Len(bytes)
      BY <2>1
    <2> QED
      BY <1>29, <2>2
  <1>33. TextStep
    <2> HIDE DEF q
    <2>1. Whole' = Os!Over(Whole, q, bytes)
      BY <1>30 DEF q
    <2> QED
      BY <1>6, <1>16, <1>28, <1>31, <1>32, <2>1, TextWrites
  <1> QED
    BY <1>1, <1>28, <1>33, QuietTruthful DEF Right

-----------------------------------------------------------------------------
(* Reading. *)

LEMMA MinPair ==
  ASSUME NEW a \in Int, NEW b \in Int
  PROVE  Min({a, b}) \in {a, b} /\ Min({a, b}) <= a /\ Min({a, b}) <= b
  <1> DEFINE P(x) == x \in {a, b} /\ \A y \in {a, b} : x <= y
  <1>1. \E x : P(x)
    <2>1. CASE a <= b
      BY <2>1
    <2>2. CASE b <= a
      BY <2>2
    <2> QED
      BY <2>1, <2>2
  <1>2. Min({a, b}) = CHOOSE x : P(x)
    BY DEF Min
  <1>3. P(CHOOSE x : P(x))
    BY <1>1
  <1> QED
    BY <1>2, <1>3

LEMMA MaxPair ==
  ASSUME NEW a \in Int, NEW b \in Int
  PROVE  Max({a, b}) \in {a, b} /\ Max({a, b}) >= a /\ Max({a, b}) >= b
  <1> DEFINE P(x) == x \in {a, b} /\ \A y \in {a, b} : x >= y
  <1>1. \E x : P(x)
    <2>1. CASE a >= b
      BY <2>1
    <2>2. CASE b >= a
      BY <2>2
    <2> QED
      BY <2>1, <2>2
  <1>2. Max({a, b}) = CHOOSE x : P(x)
    BY DEF Max
  <1>3. P(CHOOSE x : P(x))
    BY <1>1
  <1> QED
    BY <1>2, <1>3

LEMMA Piece ==
  ASSUME NEW s \in Seq(Byte), NEW m \in Nat, NEW n \in Nat, n = 0 \/ m + n <= Len(s)
  PROVE  /\ SubSeq(s, m + 1, m + n) \in Seq(Byte) /\ Len(SubSeq(s, m + 1, m + n)) = n
         /\ \A i \in 1 .. n : SubSeq(s, m + 1, m + n)[i] = s[m + i]
  OBVIOUS

(* What is left to read of the disk from p. *)
LEMMA RestOfDisk ==
  ASSUME NEW s \in Seq(Byte), NEW p \in Nat
  PROVE  /\ SubSeq(s, p + 1, Len(s)) \in Seq(Byte)
         /\ Len(SubSeq(s, p + 1, Len(s))) = IF p <= Len(s) THEN Len(s) - p ELSE 0
         /\ \A i \in 1 .. Len(SubSeq(s, p + 1, Len(s))) : SubSeq(s, p + 1, Len(s))[i] = s[p + i]
  OBVIOUS

LEMMA LineLengthFacts ==
  ASSUME NEW s \in Seq(Byte)
  PROVE  /\ LineLength(s) \in 0 .. Len(s)
         /\ \A i \in 1 .. LineLength(s) - 1 : s[i] # Newline
  <1> DEFINE I == {i \in DOMAIN s : s[i] = Newline}
             P(x) == x \in I /\ \A y \in I : x <= y
  <1>1. Len(s) \in Nat /\ DOMAIN s = 1 .. Len(s)
    OBVIOUS
  <1>2. CASE Newline \in Range(s)
    <2>1. PICK i \in DOMAIN s : s[i] = Newline
      BY <1>2 DEF Range
    <2>2. i \in I
      BY <2>1
    <2>3. I # {}
      BY <2>2, Zenon
    <2>4. I \in SUBSET Nat
      BY <1>1
    <2> HIDE DEF I
    <2>5. \E x : P(x)
      BY <2>3, <2>4, MinimumExists
    <2>6. P(CHOOSE x : P(x))
      BY <2>5
    <2>7. LineLength(s) = CHOOSE x : P(x)
      BY <1>2 DEF LineLength, Min, I
    <2>8. LineLength(s) \in I
      BY <2>6, <2>7
    <2>9. \A y \in I : LineLength(s) <= y
      BY <2>6, <2>7
    <2>10. LineLength(s) \in 1 .. Len(s)
      BY <1>1, <2>8 DEF I
    <2>11. ASSUME NEW y \in 1 .. LineLength(s) - 1 PROVE s[y] # Newline
      <3>1. y \in DOMAIN s /\ ~(LineLength(s) <= y)
        BY <1>1, <2>10
      <3>2. y \notin I
        BY <2>9, <3>1
      <3> QED
        BY <3>1, <3>2 DEF I
    <2> QED
      BY <2>10, <2>11
  <1>3. CASE Newline \notin Range(s)
    BY <1>1, <1>3 DEF LineLength, Range
  <1> QED
    BY <1>2, <1>3

LEMMA AheadFacts ==
  ASSUME NEW f \in FileSet, f.reader # NoReader, disk \in Seq(Byte)
  PROVE  LET b == Len(f.reader)
             a == IF f.fp <= Len(disk) THEN Len(disk) - f.fp ELSE 0
         IN  /\ b \in Nat /\ Buffered(f) = b /\ f.reader \in Seq(Byte) /\ f.fp \in Nat
             /\ Ahead(f) \in Seq(Byte) /\ Len(Ahead(f)) = b + a
             /\ \A i \in 1 .. b + a : Ahead(f)[i] = IF i <= b THEN f.reader[i] ELSE disk[f.fp + (i - b)]
  <1> DEFINE b == Len(f.reader)
             a == IF f.fp <= Len(disk) THEN Len(disk) - f.fp ELSE 0
             r == f.reader
             p == f.fp
             t == SubSeq(disk, p + 1, Len(disk))
             c == r \o t
  <1>1. r \in Seq(Byte) /\ b = Len(r) /\ b \in Nat /\ Buffered(f) = b /\ p \in Nat /\ Len(disk) \in Nat /\ a \in Nat
        /\ p = f.fp
    BY BufferFacts DEF FileSet
  <1>2. Ahead(f) = c
    BY DEF Ahead
  <1> HIDE DEF r, p, b
  <1>3. t \in Seq(Byte) /\ Len(t) = a /\ \A i \in 1 .. a : t[i] = disk[p + i]
    <2>1. /\ t \in Seq(Byte) /\ Len(t) = IF p <= Len(disk) THEN Len(disk) - p ELSE 0
          /\ \A i \in 1 .. Len(t) : t[i] = disk[p + i]
      BY <1>1, RestOfDisk
    <2> QED
      BY <1>1, <2>1
  <1> HIDE DEF t, a
  <1>4. /\ c \in Seq(Byte) /\ Len(c) = Len(r) + Len(t)
        /\ \A i \in 1 .. Len(r) + Len(t) : c[i] = IF i <= Len(r) THEN r[i] ELSE t[i - Len(r)]
    BY <1>1, <1>3, ConcatProperties
  <1> HIDE DEF c
  <1>5. ASSUME NEW i \in 1 .. b + a PROVE c[i] = IF i <= b THEN r[i] ELSE disk[p + (i - b)]
    <2>1. CASE i <= b
      BY <1>1, <1>3, <1>4, <2>1
    <2>2. CASE ~(i <= b)
      <3> DEFINE j == i - b
      <3>1. j \in 1 .. a
        BY <1>1, <2>2
      <3>2. c[i] = t[j]
        BY <1>1, <1>3, <1>4, <2>2
      <3> HIDE DEF j
      <3>3. c[i] = disk[p + j]
        BY <1>3, <3>1, <3>2
      <3> QED
        BY <2>2, <3>3 DEF j
    <2> QED
      BY <2>1, <2>2
  <1>6. c \in Seq(Byte) /\ Len(c) = b + a
    BY <1>1, <1>3, <1>4
  <1> QED
    BY <1>1, <1>2, <1>5, <1>6 DEF a, b, r, p

(* After reading k bytes a file is k bytes further, whatever was read ahead. *)
LEMMA ConsumedFacts ==
  ASSUME Inv, NEW h \in Handle, file[h].reader # NoReader,
         NEW k \in 0 .. Len(Ahead(file[h])), NEW g \in Consumed(file[h], k)
  PROVE  /\ g \in FileSet
         /\ g.open = file[h].open /\ g.mode = file[h].mode /\ g.writer = file[h].writer
         /\ g.pending = file[h].pending
         /\ Buffered(g) <= g.fp /\ g.fp <= MaxLength
         /\ g.fp - Buffered(g) = file[h].fp - Buffered(file[h]) + k
  <1> DEFINE f == file[h]
             r == f.reader
             b == Len(r)
             p == f.fp
             a == IF p <= Len(disk) THEN Len(disk) - p ELSE 0
             end == p + (k - b)
  <1>1. /\ f \in FileSet /\ disk \in Seq(Byte) /\ Len(disk) <= MaxLength /\ Len(disk) \in Nat
        /\ Buffered(f) <= p /\ p <= MaxLength
    BY DEF Inv, TypeOK, HandleOK
  <1>2. /\ b \in Nat /\ Buffered(f) = b /\ r \in Seq(Byte) /\ p \in Nat
        /\ k \in 0 .. b + a /\ f.reader # NoReader
    BY <1>1, AheadFacts
  <1>3. a \in Nat /\ k \in Nat
    BY <1>1, <1>2
  <1>4. Consumed(f, k) =
          IF k < b \/ (k = b /\ k > 0) THEN {[f EXCEPT !.reader = SubSeq(r, k + 1, b)]}
          ELSE {[f EXCEPT !.fp = end + n, !.reader = SubSeq(disk, end + 1, end + n)] :
                  n \in 0 .. Min({ReadSize, Max({0, Len(disk) - end})})}
    BY DEF Consumed
  <1>5. CASE k < b \/ (k = b /\ k > 0)
    <2> DEFINE s == SubSeq(r, k + 1, b)
    <2>1. s \in Seq(Byte) /\ Len(s) = b - k
      <3>1. r \in Seq(Byte) /\ b = Len(r) /\ b \in Nat /\ k \in Nat /\ k <= b
        BY <1>2, <1>3, <1>5
      <3> HIDE DEF r, b
      <3>2. s \in Seq(Byte) /\ Len(s) = IF k <= b THEN b - k ELSE 0
        BY <3>1, RestOfDisk
      <3> QED
        BY <3>1, <3>2
    <2>2. g = [f EXCEPT !.reader = s]
      BY <1>4, <1>5
    <2> HIDE DEF s, f
    <2>3. s \in Readers
      BY <2>1 DEF Readers
    <2>4. /\ g \in FileSet
          /\ g.open = f.open /\ g.mode = f.mode /\ g.writer = f.writer /\ g.pending = f.pending
          /\ g.fp = f.fp /\ g.reader = s
      BY <1>1, <2>2, <2>3 DEF FileSet
    <2>5. Buffered(g) = b - k
      BY <2>1, <2>4, NoSequenceIsNoReader DEF Buffered
    <2> HIDE DEF b, p, r
    <2>6. g.fp = p /\ b - k <= p /\ p - (b - k) = p - b + k
      BY <1>1, <1>2, <1>3, <2>4 DEF p
    <2> QED
      BY <1>1, <1>2, <2>4, <2>5, <2>6 DEF f, p
  <1>6. CASE ~(k < b \/ (k = b /\ k > 0))
    <2>1. end \in Nat /\ (end = p \/ end <= Len(disk)) /\ end = p - b + k
      <3>1. a = IF p <= Len(disk) THEN Len(disk) - p ELSE 0
        OBVIOUS
      <3> HIDE DEF a, b, p
      <3>2. k - b \in Nat /\ k - b <= a
        BY <1>2, <1>3, <1>6
      <3> DEFINE x == k - b
      <3>3. x \in Nat /\ x <= a /\ end = p + x
        BY <3>2
      <3>4. p - b + k = p + x
        BY <1>2, <1>3
      <3> HIDE DEF x, end
      <3>5. end \in Nat /\ (x = 0 \/ (p <= Len(disk) /\ x <= Len(disk) - p))
        BY <1>1, <1>2, <3>1, <3>3
      <3> QED
        BY <1>1, <1>2, <3>3, <3>4, <3>5
    <2> HIDE DEF end
    <2> DEFINE m == Max({0, Len(disk) - end})
               l == Min({ReadSize, m})
    <2>2. m \in {0, Len(disk) - end} /\ m >= 0
      <3> DEFINE x == Len(disk) - end
      <3>1. x \in Int /\ 0 \in Int
        BY <1>1, <2>1
      <3> HIDE DEF x
      <3>2. Max({0, x}) \in {0, x} /\ Max({0, x}) >= 0
        BY <3>1, MaxPair, Zenon
      <3> QED
        BY <3>2 DEF x
    <2>3. m \in Nat
      BY <1>1, <2>1, <2>2
    <2> HIDE DEF m
    <2>4. l \in {ReadSize, m} /\ l <= m
      <3>1. m \in Int /\ ReadSize \in Int
        BY <2>3
      <3> QED
        BY <3>1, MinPair
    <2>5. PICK n \in 0 .. l : g = [f EXCEPT !.fp = end + n, !.reader = SubSeq(disk, end + 1, end + n)]
      BY <1>4, <1>6 DEF m
    <2>6. l \in Nat
      BY <2>3, <2>4
    <2> HIDE DEF l
    <2>7. n \in Nat /\ (n = 0 \/ end + n <= Len(disk))
      BY <1>1, <2>1, <2>2, <2>3, <2>4, <2>6
    <2> DEFINE s == SubSeq(disk, end + 1, end + n)
               v == end + n
    <2>8. s \in Seq(Byte) /\ Len(s) = n
      <3>1. disk \in Seq(Byte) /\ end \in Nat /\ n \in Nat /\ (n = 0 \/ end + n <= Len(disk))
        BY <1>1, <2>1, <2>7
      <3> QED
        BY <3>1, Piece
    <2>9. v \in Nat /\ v <= MaxLength /\ n <= v /\ v - n = end
      <3> HIDE DEF p, b, a
      <3>1. /\ end \in Nat /\ n \in Nat /\ (n = 0 \/ v <= Len(disk)) /\ v = end + n
            /\ p \in Nat /\ p <= MaxLength /\ Len(disk) <= MaxLength /\ Len(disk) \in Nat
            /\ (end = p \/ end <= Len(disk)) /\ MaxLength \in Nat
        BY <1>1, <1>2, <2>1, <2>7
      <3> HIDE DEF v
      <3> QED
        BY <3>1
    <2>10. g = [f EXCEPT !.fp = v, !.reader = s]
      BY <2>5
    <2> HIDE DEF s, v, f
    <2>11. s \in Readers
      BY <2>8 DEF Readers
    <2>12. /\ g \in FileSet
           /\ g.open = f.open /\ g.mode = f.mode /\ g.writer = f.writer /\ g.pending = f.pending
           /\ g.fp = v /\ g.reader = s
      BY <1>1, <2>9, <2>10, <2>11 DEF FileSet
    <2>13. Buffered(g) = n
      BY <2>8, <2>12, NoSequenceIsNoReader DEF Buffered
    <2> HIDE DEF b, p
    <2>14. v - n = p - b + k
      BY <2>1, <2>9
    <2> QED
      BY <1>2, <2>9, <2>12, <2>13, <2>14 DEF f, p
  <1> QED
    BY <1>5, <1>6

(* A reader that is up to date has what the file has from where its handle
   is. *)
LEMMA FreshAhead ==
  ASSUME Inv, NEW h \in Handle, file[h].reader # NoReader, Fresh(file[h]),
         NEW k \in 0 .. Len(Ahead(file[h])), NEW m, m = file[h].fp - Buffered(file[h])
  PROVE  SubSeq(Ahead(file[h]), 1, k) = SubSeq(disk, m + 1, m + k)
  <1> DEFINE f == file[h]
             r == f.reader
             b == Len(r)
             p == f.fp
             a == IF p <= Len(disk) THEN Len(disk) - p ELSE 0
             c == Ahead(f)
  <1>1. /\ f \in FileSet /\ disk \in Seq(Byte) /\ Len(disk) \in Nat /\ Buffered(f) <= p
    BY DEF Inv, TypeOK, HandleOK
  <1>2. /\ b \in Nat /\ Buffered(f) = b /\ r \in Seq(Byte) /\ p \in Nat
        /\ c \in Seq(Byte) /\ Len(c) = b + a
        /\ \A i \in 1 .. b + a : c[i] = IF i <= b THEN r[i] ELSE disk[p + (i - b)]
    BY <1>1, AheadFacts
  <1>3. b = 0 \/ (p <= Len(disk) /\ r = SubSeq(disk, m + 1, p))
    BY <1>2 DEF Fresh
  <1>4. m = p - b /\ b <= p /\ k \in 0 .. Len(c)
    BY <1>1, <1>2
  <1>5. a = IF p <= Len(disk) THEN Len(disk) - p ELSE 0
    OBVIOUS
  <1> HIDE DEF f, r, b, p, c, a
  <1>6. a \in Nat /\ m \in Nat /\ k \in Nat /\ k <= b + a /\ p = m + b
    BY <1>1, <1>2, <1>4, <1>5
  <1>7. k = 0 \/ m + k <= Len(disk)
    <2>1. /\ b = 0 \/ p <= Len(disk)
          /\ Len(disk) \in Nat /\ b \in Nat /\ p \in Nat
      BY <1>1, <1>2, <1>3
    <2>2. CASE p <= Len(disk)
      <3> DEFINE l == Len(disk)
      <3>1. a = l - p /\ l \in Nat /\ p \in Nat /\ b \in Nat
        BY <1>5, <2>1, <2>2
      <3> HIDE DEF l
      <3>2. p + a = l
        BY <3>1
      <3>3. m \in Int /\ k \in Int /\ l \in Int /\ a \in Int /\ b \in Int /\ p \in Int
        BY <1>6, <3>1
      <3>4. m + b + a = l
        BY <1>6, <3>2, <3>3
      <3>5. m + k <= m + b + a
        BY <1>6, <3>3
      <3>6. m + k <= l
        BY <3>4, <3>5
      <3> QED
        BY <3>6 DEF l
    <2>3. CASE ~(p <= Len(disk))
      BY <1>5, <1>6, <2>1, <2>3
    <2> QED
      BY <2>2, <2>3
  <1>8. ASSUME NEW i \in 1 .. b PROVE r[i] = disk[m + i]
    <2>1. r = SubSeq(disk, m + 1, m + b) /\ m + b <= Len(disk)
      BY <1>2, <1>3, <1>6, <1>8
    <2>2. disk \in Seq(Byte) /\ m \in Nat /\ b \in Nat
      BY <1>1, <1>2, <1>6
    <2>3. \A j \in 1 .. b : SubSeq(disk, m + 1, m + b)[j] = disk[m + j]
      BY <2>1, <2>2, Piece
    <2> QED
      BY <2>1, <2>3
  <1> DEFINE s == SubSeq(c, 1, k)
             t == SubSeq(disk, m + 1, m + k)
  <1>9. t \in Seq(Byte) /\ Len(t) = k /\ \A i \in 1 .. k : t[i] = disk[m + i]
    BY <1>1, <1>6, <1>7, Piece
  <1>10. s \in Seq(Byte) /\ Len(s) = k /\ \A i \in 1 .. k : s[i] = c[i]
    BY <1>2, <1>4, <1>6
  <1> HIDE DEF s, t
  <1>11. ASSUME NEW i \in 1 .. k PROVE s[i] = t[i]
    <2>1. i \in 1 .. b + a
      BY <1>2, <1>6
    <2>2. CASE i <= b
      <3>1. i \in 1 .. b
        BY <1>2, <1>6, <2>2
      <3>2. c[i] = r[i]
        BY <1>2, <2>1, <2>2
      <3>3. r[i] = disk[m + i]
        BY <1>8, <3>1
      <3> QED
        BY <1>9, <1>10, <3>2, <3>3
    <2>3. CASE ~(i <= b)
      <3>1. p + (i - b) = m + i
        BY <1>2, <1>6
      <3>2. c[i] = disk[p + (i - b)]
        BY <1>2, <2>1, <2>3
      <3>3. s[i] = c[i] /\ t[i] = disk[m + i]
        BY <1>9, <1>10
      <3> QED
        BY <3>1, <3>2, <3>3
    <2> QED
      BY <2>2, <2>3
  <1>12. s = t
    BY <1>9, <1>10, <1>11, SameElements
  <1> QED
    BY <1>12 DEF s, t, c, f

LEMMA NothingWithoutLineEnd == WithoutLineEnd(<< >>) = << >>
  BY DEF WithoutLineEnd

(* Without its end a line has no newline, if none came before the end. *)
LEMMA OneLine ==
  ASSUME NEW s \in Seq(Byte), \A i \in 1 .. Len(s) - 1 : s[i] # Newline
  PROVE  Newline \notin Range(WithoutLineEnd(s))
  <1> DEFINE l == Len(s)
  <1>1. l \in Nat /\ Last(s) = s[l] /\ Front(s) = SubSeq(s, 1, l - 1) /\ (s = << >> <=> l = 0)
    BY DEF Last, Front
  <1>2. ASSUME NEW m \in 0 .. l, \A i \in 1 .. m : s[i] # Newline
        PROVE  Newline \notin Range(SubSeq(s, 1, m))
    <2> DEFINE t == SubSeq(s, 1, m)
    <2>1. DOMAIN t = 1 .. m /\ \A i \in 1 .. m : t[i] = s[i]
      OBVIOUS
    <2> HIDE DEF t
    <2> QED
      BY <1>2, <2>1 DEF Range
  <1>3. CASE s = << >> \/ Last(s) # Newline
    <2>1. WithoutLineEnd(s) = s
      BY <1>3 DEF WithoutLineEnd
    <2>2. \A i \in 1 .. l : s[i] # Newline
      BY <1>1, <1>3
    <2>3. DOMAIN s = 1 .. l
      OBVIOUS
    <2> QED
      BY <2>1, <2>2, <2>3 DEF Range
  <1>4. CASE ~(s = << >> \/ Last(s) # Newline) /\ (l > 1 /\ s[l - 1] = CarriageReturn)
    <2>1. WithoutLineEnd(s) = SubSeq(s, 1, l - 2)
      BY <1>4 DEF WithoutLineEnd
    <2>2. l - 2 \in 0 .. l /\ \A i \in 1 .. l - 2 : s[i] # Newline
      BY <1>1, <1>4
    <2> QED
      BY <1>2, <2>1, <2>2
  <1>5. CASE ~(s = << >> \/ Last(s) # Newline) /\ ~(l > 1 /\ s[l - 1] = CarriageReturn)
    <2>1. WithoutLineEnd(s) = SubSeq(s, 1, l - 1)
      BY <1>1, <1>5 DEF WithoutLineEnd
    <2>2. l - 1 \in 0 .. l /\ \A i \in 1 .. l - 1 : s[i] # Newline
      BY <1>1, <1>5
    <2> QED
      BY <1>2, <2>1, <2>2
  <1> QED
    BY <1>3, <1>4, <1>5

(* A step that moves a handle that holds nothing back. *)
LEMMA Moves ==
  ASSUME Inv, NEW h \in Handle, file[h].open, file[h].pending = << >>, disk' = disk,
         NEW g \in FileSet, file' = [file EXCEPT ![h] = g],
         g.open = file[h].open, g.mode = file[h].mode, g.writer = file[h].writer, g.pending = file[h].pending,
         Buffered(g) <= g.fp, g.fp <= MaxLength
  PROVE  Inv' /\ TextStep /\ Position(h)' = g.fp - Buffered(g)
  <1>1. disk \in Seq(Byte) /\ Len(disk) <= MaxLength /\ HandleOK(h)
    BY DEF Inv, TypeOK
  <1>2. file'[h] = g
    BY DEF Inv, TypeOK
  <1>3. HandleOK(h)'
    BY <1>1, <1>2 DEF HandleOK
  <1>4. file[h].writer # "none" => \A q \in Handle \ {h} : file[q].writer = "none"
    BY FlushedDisk
  <1>5. Inv' /\ OthersStay(h)
    BY <1>1, <1>3, <1>4, OneFile
  <1>6. Whole' = Whole
    BY <1>5, WholeStays
  <1>7. Position(h)' = g.fp - Buffered(g) /\ Position(h)' \in 0 .. MaxLength
    BY <1>2, <1>5, PositionFactsPrime
  <1> QED
    BY <1>5, <1>6, <1>7, TextSeeks

(* A handle that has come k bytes further gives what it has come past. *)
LEMMA AnswerRight ==
  ASSUME Bearable, Inv, NEW h \in Handle, CanRead(h), disk' = disk,
         NEW kind \in {"size", "line", "all"}, NEW k \in 0 .. Len(Ahead(file[h])),
         kind = "line" => k <= LineLength(Ahead(file[h])), Answer(h, kind, k),
         NEW g \in FileSet, file' = [file EXCEPT ![h] = g],
         g.open = file[h].open, g.mode = file[h].mode, g.writer = file[h].writer, g.pending = file[h].pending,
         Buffered(g) <= g.fp, g.fp <= MaxLength,
         g.fp - Buffered(g) = file[h].fp - Buffered(file[h]) + k
  PROVE  Right
  <1> DEFINE f == file[h]
             bytes == SubSeq(Ahead(f), 1, k)
  <1>2. f.reader # NoReader /\ f.open /\ f.pending = << >>
    BY DEF CanRead, MayMove, Bearable
  <1>3. /\ answer'.bytes = (IF kind = "line" THEN WithoutLineEnd(bytes) ELSE bytes)
        /\ answer'.kind = (IF Ahead(f) = << >> /\ kind # "all" THEN "nil" ELSE kind)
        /\ answer'.of = h
    BY DEF Answer
  <1>4. f \in FileSet /\ disk \in Seq(Byte)
    BY DEF Inv, TypeOK
  <1>6. Inv' /\ TextStep /\ Position(h)' = g.fp - Buffered(g)
    BY <1>2, Moves
  <1>7. Position(h) = f.fp - Buffered(f)
    BY <1>2, PositionFacts
  <1>8. Position(h)' = Position(h) + k
    BY <1>6, <1>7
  <1>9. Truthful
    <2> SUFFICES ASSUME Fresh(f)
                 PROVE  /\ answer'.kind # "cur"
                        /\ LET it == SubSeq(disk, Position(h) + 1, Position(h)')
                           IN  /\ answer'.bytes = IF answer'.kind = "line" THEN WithoutLineEnd(it) ELSE it
                               /\ answer'.kind = "line" => Newline \notin Range(answer'.bytes)
                               /\ answer'.kind = "nil" => Position(h) >= Len(disk)
      BY <1>3 DEF Truthful
    <2> DEFINE it == SubSeq(disk, Position(h) + 1, Position(h)')
               m == Position(h)
    <2>1. bytes = it
      <3>1. m = f.fp - Buffered(f)
        BY <1>7
      <3> HIDE DEF m
      <3>2. SubSeq(Ahead(f), 1, k) = SubSeq(disk, m + 1, m + k)
        BY <1>2, <3>1, FreshAhead
      <3> QED
        BY <1>8, <3>2 DEF m
    <2>2. answer'.kind # "cur"
      BY <1>3
    <2>3. Ahead(f) = << >> => bytes = << >> /\ Position(h) >= Len(disk)
      <3> SUFFICES ASSUME Ahead(f) = << >> PROVE bytes = << >> /\ Position(h) >= Len(disk)
        OBVIOUS
      <3> DEFINE c == Ahead(f)
                 b == Len(f.reader)
                 p == f.fp
                 a == IF p <= Len(disk) THEN Len(disk) - p ELSE 0
      <3>1. b \in Nat /\ Buffered(f) = b /\ p \in Nat /\ c \in Seq(Byte) /\ Len(c) = b + a
        BY <1>2, <1>4, AheadFacts
      <3>2. Len(c) = 0 /\ k = 0
        OBVIOUS
      <3>3. bytes = << >>
        BY <3>2
      <3>4. Len(disk) \in Nat /\ Position(h) = p - b
        BY <1>4, <1>7, <3>1
      <3>5. a = IF p <= Len(disk) THEN Len(disk) - p ELSE 0
        OBVIOUS
      <3> HIDE DEF a, b, p, c
      <3>6. Position(h) >= Len(disk)
        BY <3>1, <3>2, <3>4, <3>5
      <3> QED
        BY <3>3, <3>6
    <2>4. answer'.kind = "nil" => Ahead(f) = << >>
      BY <1>3
    <2>5. answer'.bytes = IF answer'.kind = "line" THEN WithoutLineEnd(bytes) ELSE bytes
      <3>1. CASE Ahead(f) = << >> /\ kind # "all"
        <4>1. answer'.kind = "nil" /\ bytes = << >>
          BY <1>3, <2>3, <3>1
        <4>2. answer'.bytes = bytes
          BY <1>3, <4>1, NothingWithoutLineEnd
        <4> QED
          BY <4>1, <4>2
      <3>2. CASE ~(Ahead(f) = << >> /\ kind # "all")
        BY <1>3, <3>2
      <3> QED
        BY <3>1, <3>2
    <2>6. answer'.kind = "line" => Newline \notin Range(answer'.bytes)
      <3> SUFFICES ASSUME answer'.kind = "line" PROVE Newline \notin Range(answer'.bytes)
        OBVIOUS
      <3> DEFINE c == Ahead(f)
                 l == LineLength(c)
      <3>1. kind = "line" /\ k <= l /\ answer'.bytes = WithoutLineEnd(bytes)
        BY <1>3
      <3>2. c \in Seq(Byte)
        BY <1>2, <1>4, AheadFacts
      <3>3. l \in 0 .. Len(c) /\ \A i \in 1 .. l - 1 : c[i] # Newline
        BY <3>2, LineLengthFacts
      <3>4. bytes \in Seq(Byte) /\ Len(bytes) = k /\ \A i \in 1 .. k : bytes[i] = c[i]
        <4> HIDE DEF c
        <4> QED
          BY <3>2 DEF c
      <3> HIDE DEF c, l, bytes
      <3>5. \A i \in 1 .. Len(bytes) - 1 : bytes[i] # Newline
        BY <3>1, <3>3, <3>4
      <3> QED
        BY <3>1, <3>4, <3>5, OneLine
    <2> HIDE DEF it, bytes
    <2> QED
      BY <2>1, <2>2, <2>3, <2>4, <2>5, <2>6 DEF it
  <1> QED
    BY <1>6, <1>9 DEF Right

LEMMA ReadBytesRight ==
  ASSUME Bearable, Inv, NEW h \in Handle, CanRead(h), NEW kind \in {"size", "line", "all"},
         NEW k \in 0 .. Len(Ahead(file[h])), kind = "line" => k <= LineLength(Ahead(file[h])),
         ReadBytes(h, kind, k)
  PROVE  Right
  <1>1. PICK g \in Consumed(file[h], k) : file' = [file EXCEPT ![h] = g]
    BY DEF ReadBytes, SetFile
  <1>2. file[h].reader # NoReader /\ disk' = disk /\ Answer(h, kind, k)
    BY DEF CanRead, ReadBytes
  <1>3. /\ g \in FileSet
        /\ g.open = file[h].open /\ g.mode = file[h].mode /\ g.writer = file[h].writer
        /\ g.pending = file[h].pending
        /\ Buffered(g) <= g.fp /\ g.fp <= MaxLength
        /\ g.fp - Buffered(g) = file[h].fp - Buffered(file[h]) + k
    BY <1>1, <1>2, ConsumedFacts
  <1> QED
    BY <1>1, <1>2, <1>3, AnswerRight

LEMMA ReadRight ==
  ASSUME Bearable, Inv, NEW h \in Handle, fileReadAux(h)
  PROVE  Right
  <1> DEFINE l == Len(Ahead(file[h]))
  <1>1. CanRead(h) /\ (readBufioSize(h) \/ readBufioLine(h) \/ ReadAll(h))
    BY DEF fileReadAux
  <1>2. Ahead(file[h]) \in Seq(Byte) /\ l \in Nat
    BY <1>1, AheadFacts DEF CanRead, Inv, TypeOK
  <1>3. ASSUME readBufioSize(h) PROVE Right
    <2>1. PICK k \in 0 .. Min({ReadSize + 1, l}) : ReadBytes(h, "size", k)
      BY <1>3 DEF readBufioSize
    <2>2. ReadSize + 1 \in Int /\ l \in Int
      BY <1>2, IoFileAssumption
    <2>3. Min({ReadSize + 1, l}) \in {ReadSize + 1, l} /\ Min({ReadSize + 1, l}) <= l
      BY <2>2, MinPair
    <2>4. k \in 0 .. l
      <3> HIDE DEF l
      <3> QED
        BY <2>2, <2>3
    <2> QED
      BY <1>1, <2>1, <2>4, ReadBytesRight
  <1>4. ASSUME readBufioLine(h) PROVE Right
    <2>1. LineLength(Ahead(file[h])) \in 0 .. l
      BY <1>2, LineLengthFacts
    <2>2. ReadBytes(h, "line", LineLength(Ahead(file[h])))
      BY <1>4 DEF readBufioLine
    <2>3. LineLength(Ahead(file[h])) <= LineLength(Ahead(file[h]))
      BY <1>2, <2>1
    <2> QED
      BY <1>1, <2>1, <2>2, <2>3, ReadBytesRight
  <1>5. ASSUME ReadAll(h) PROVE Right
    <2>1. l \in 0 .. l /\ ReadBytes(h, "all", l)
      BY <1>2, <1>5 DEF ReadAll
    <2> QED
      BY <1>1, <2>1, ReadBytesRight
  <1> QED
    BY <1>1, <1>3, <1>4, <1>5

(* A reader of b bytes that is filled up to k of them. *)
LEMMA PutBackPlace ==
  ASSUME NEW b \in Nat, NEW p \in Nat, NEW d \in Nat, NEW q \in Nat, NEW k \in Nat, NEW v,
         b <= p, p <= q, d <= q, k > 1, k <= b + IF p <= d THEN d - p ELSE 0, v = p + (k - b)
  PROVE  v \in Nat /\ 1 <= v /\ v <= q /\ v - 1 = p - b + (k - 1)
  <1>1. CASE p <= d
    <2>1. k <= b + (d - p)
      BY <1>1
    <2> QED
      BY <2>1
  <1>2. CASE ~(p <= d)
    <2>1. k <= b
      BY <1>2
    <2> QED
      BY <2>1
  <1> QED
    BY <1>1, <1>2

(* ReadLine: the carriage return that it puts back has been read ahead. *)
LEMMA LineRight ==
  ASSUME Bearable, Inv, NEW h \in Handle, CanRead(h), ReadLine(h)
  PROVE  Right
  <1> DEFINE f == file[h]
             c == Ahead(f)
             l == Len(c)
             m == LineLength(c)
             k == Min({ReadSize, m})
  <1>1. f \in FileSet /\ f.reader # NoReader /\ disk \in Seq(Byte) /\ Len(disk) \in Nat /\ Len(disk) <= MaxLength
    BY DEF CanRead, Inv, TypeOK
  <1>2. c \in Seq(Byte) /\ l \in Nat
    BY <1>1, AheadFacts
  <1>3. m \in 0 .. l /\ ReadSize \in Nat /\ ReadSize > 1
    BY <1>2, LineLengthFacts
  <1>4. k \in {ReadSize, m} /\ k <= m
    <2> HIDE DEF m
    <2>1. m \in Int /\ ReadSize \in Int
      BY <1>2, <1>3
    <2> QED
      BY <2>1, MinPair
  <1>5. \/ ReadBytes(h, "line", k)
        \/ /\ k = ReadSize /\ disk' = disk /\ Answer(h, "line", k - 1)
           /\ file' = [file EXCEPT ![h] = [f EXCEPT !.fp = @ + (ReadSize - Len(f.reader)), !.reader = <<CarriageReturn>>]]
    BY DEF ReadLine, SetFile
  <1> HIDE DEF k
  <1>6. k \in 0 .. l /\ k <= m
    <2> HIDE DEF m, l
    <2> QED
      BY <1>2, <1>3, <1>4
  <1>7. CASE ReadBytes(h, "line", k)
    BY <1>6, <1>7, ReadBytesRight
  <1>8. CASE /\ k = ReadSize /\ disk' = disk /\ Answer(h, "line", k - 1)
             /\ file' = [file EXCEPT ![h] = [f EXCEPT !.fp = @ + (ReadSize - Len(f.reader)), !.reader = <<CarriageReturn>>]]
    <2> DEFINE b == Len(f.reader)
               p == f.fp
               a == IF p <= Len(disk) THEN Len(disk) - p ELSE 0
               v == p + (ReadSize - b)
               g == [f EXCEPT !.fp = v, !.reader = <<CarriageReturn>>]
    <2>1. b \in Nat /\ Buffered(f) = b /\ p \in Nat /\ l = b + a
      BY <1>1, AheadFacts
    <2>2. b <= p /\ p <= MaxLength
      BY <2>1 DEF Inv, HandleOK
    <2>3. v \in Nat /\ 1 <= v /\ v <= MaxLength /\ v - 1 = p - b + (k - 1)
      <3> DEFINE d == Len(disk)
      <3>1. /\ d \in Nat /\ b \in Nat /\ p \in Nat /\ MaxLength \in Nat /\ k \in Nat /\ k > 1
            /\ b <= p /\ p <= MaxLength /\ d <= MaxLength
        BY <1>1, <1>3, <1>8, <2>1, <2>2
      <3>2. k <= b + IF p <= d THEN d - p ELSE 0
        BY <1>6, <2>1
      <3>3. v = p + (k - b)
        BY <1>8
      <3> HIDE DEF b, p, d, v
      <3> QED
        BY <3>1, <3>2, <3>3, PutBackPlace
    <2>4. file' = [file EXCEPT ![h] = g]
      BY <1>8
    <2> HIDE DEF v, b, a
    <2>5. <<CarriageReturn>> \in Readers /\ Len(<<CarriageReturn>>) = 1
      BY DEF Readers
    <2>6. /\ g \in FileSet
          /\ g.open = f.open /\ g.mode = f.mode /\ g.writer = f.writer /\ g.pending = f.pending
          /\ g.fp = v /\ g.reader = <<CarriageReturn>>
      BY <1>1, <2>3, <2>5 DEF FileSet
    <2> HIDE DEF g
    <2>7. Buffered(g) = 1
      <3>1. <<CarriageReturn>> \in Seq(Byte)
        OBVIOUS
      <3> QED
        BY <2>5, <2>6, <3>1, NoSequenceIsNoReader DEF Buffered
    <2>8. k - 1 \in 0 .. l /\ k - 1 <= m
      <3> HIDE DEF l, m
      <3> QED
        BY <1>2, <1>3, <1>6, <1>8
    <2>9. g.fp - Buffered(g) = f.fp - Buffered(f) + (k - 1) /\ Buffered(g) <= g.fp /\ g.fp <= MaxLength
      BY <2>1, <2>3, <2>6, <2>7
    <2> DEFINE j == k - 1
    <2>10. /\ j \in 0 .. l /\ j <= m /\ Answer(h, "line", j)
           /\ g.fp - Buffered(g) = f.fp - Buffered(f) + j
      BY <1>8, <2>8, <2>9
    <2> HIDE DEF j
    <2> QED
      BY <1>8, <2>4, <2>6, <2>9, <2>10, AnswerRight
  <1> QED
    BY <1>5, <1>7, <1>8

LEMMA LinesRight ==
  ASSUME Bearable, Inv, NEW h \in Handle, fileLinesIter(h) \/ ioLinesIter(h)
  PROVE  Right
  <1>1. CASE fileLinesIter(h)
    BY <1>1, LineRight DEF fileLinesIter
  <1>2. CASE ioLinesIter(h) /\ Ahead(file[h]) = << >>
    <2>1. fileCloseAux(h)
      BY <1>2 DEF ioLinesIter
    <2> QED
      BY <2>1, CloseRight
  <1>3. CASE ioLinesIter(h) /\ Ahead(file[h]) # << >>
    <2>1. CanRead(h) /\ ReadLine(h)
      BY <1>3 DEF ioLinesIter
    <2> QED
      BY <2>1, LineRight
  <1> QED
    BY <1>1, <1>2, <1>3

LEMMA SeekRight ==
  ASSUME Bearable, Inv, NEW h \in Handle, fileSeek(h)
  PROVE  Right
  <1> DEFINE f == AbandonReadBuffer(file[h])
             At(whence, offset) == offset + CASE whence = "set" -> 1 [] whence = "cur" -> f.fp [] whence = "end" -> Len(disk)
  <1>1. /\ f.open /\ MayMove(f) /\ disk' = disk
        /\ \E whence \in {"set", "cur", "end"}, offset \in -1 .. 1 :
             /\ At(whence, offset) <= MaxLength
             /\ file' = [file EXCEPT ![h] = IF At(whence, offset) < 0 THEN f ELSE [f EXCEPT !.fp = At(whence, offset)]]
             /\ answer' = IF At(whence, offset) < 0 \/ whence # "cur" THEN Silent
                          ELSE [Silent EXCEPT !.kind = "cur", !.of = h, !.moved = offset]
    BY DEF fileSeek, SetFile
  <1>2. /\ file[h] \in FileSet /\ HandleOK(h) /\ disk \in Seq(Byte) /\ Len(disk) \in Nat
    BY DEF Inv, TypeOK
  <1>3. Buffered(file[h]) <= file[h].fp /\ file[h].fp <= MaxLength
    BY <1>2 DEF HandleOK
  <1>4. /\ f \in FileSet
        /\ f.open = file[h].open /\ f.mode = file[h].mode /\ f.writer = file[h].writer /\ f.pending = file[h].pending
        /\ f.fp = file[h].fp - Buffered(file[h]) /\ Buffered(f) = 0
    BY <1>2, <1>3, AbandonFacts
  <1>5. f.pending = << >>
    BY <1>1 DEF MayMove, Bearable
  <1>6. PICK whence \in {"set", "cur", "end"}, offset \in -1 .. 1 :
          /\ At(whence, offset) <= MaxLength
          /\ file' = [file EXCEPT ![h] = IF At(whence, offset) < 0 THEN f ELSE [f EXCEPT !.fp = At(whence, offset)]]
          /\ answer' = IF At(whence, offset) < 0 \/ whence # "cur" THEN Silent
                       ELSE [Silent EXCEPT !.kind = "cur", !.of = h, !.moved = offset]
    BY <1>1
  <1> DEFINE p == At(whence, offset)
             g == IF p < 0 THEN f ELSE [f EXCEPT !.fp = p]
  <1>7. /\ p <= MaxLength /\ file' = [file EXCEPT ![h] = g]
        /\ answer' = IF p < 0 \/ whence # "cur" THEN Silent
                     ELSE [Silent EXCEPT !.kind = "cur", !.of = h, !.moved = offset]
    BY <1>6
  <1>8. Position(h) = f.fp /\ f.fp \in Nat /\ f.fp <= MaxLength
    <2>1. Position(h) = f.fp
      BY <1>1, <1>4, <1>5, PositionFacts
    <2>2. Position(h) \in 0 .. MaxLength
      BY <1>1, <1>4, PositionFacts
    <2> QED
      BY <2>1, <2>2
  <1> HIDE DEF f
  <1>9. p \in Int /\ (whence = "cur" => p = offset + f.fp)
    <2>1. CASE whence = "set"
      BY <2>1
    <2>2. CASE whence = "cur"
      BY <1>8, <2>2
    <2>3. CASE whence = "end"
      BY <1>2, <2>3
    <2> QED
      BY <2>1, <2>2, <2>3
  <1> HIDE DEF p, At
  <1>10. /\ g \in FileSet /\ g.open = f.open /\ g.mode = f.mode /\ g.writer = f.writer /\ g.pending = f.pending
         /\ g.reader = f.reader /\ g.fp = IF p < 0 THEN f.fp ELSE p
    <2>1. CASE p < 0
      BY <1>4, <2>1
    <2>2. CASE ~(p < 0)
      <3>1. p \in Nat
        BY <1>9, <2>2
      <3> QED
        BY <1>4, <2>2, <3>1 DEF FileSet
    <2> QED
      BY <2>1, <2>2
  <1>11. Buffered(g) = 0
    BY <1>4, <1>10 DEF Buffered
  <1> HIDE DEF g
  <1>12. Buffered(g) <= g.fp /\ g.fp <= MaxLength /\ g.fp - Buffered(g) = IF p < 0 THEN f.fp ELSE p
    <2>1. Buffered(g) = 0 /\ g.fp = IF p < 0 THEN f.fp ELSE p
      BY <1>10, <1>11
    <2>2. p <= MaxLength /\ p \in Int /\ f.fp \in Nat /\ f.fp <= MaxLength
      BY <1>7, <1>8, <1>9
    <2>3. g.fp \in Nat /\ g.fp <= MaxLength
      BY <2>1, <2>2
    <2> QED
      BY <2>1, <2>3
  <1>13. Inv' /\ TextStep /\ Position(h)' = g.fp - Buffered(g)
    <2>1. /\ file[h].open /\ file[h].pending = << >> /\ disk' = disk
          /\ g \in FileSet /\ file' = [file EXCEPT ![h] = g]
      BY <1>1, <1>4, <1>5, <1>7, <1>10
    <2>2. /\ g.open = file[h].open /\ g.mode = file[h].mode
          /\ g.writer = file[h].writer /\ g.pending = file[h].pending
      BY <1>4, <1>10
    <2>3. Buffered(g) <= g.fp /\ g.fp <= MaxLength
      BY <1>12
    <2> QED
      BY <2>1, <2>2, <2>3, Moves
  <1>14. Truthful
    <2>1. CASE p < 0 \/ whence # "cur"
      BY <1>7, <2>1, QuietTruthful
    <2>2. CASE ~(p < 0 \/ whence # "cur")
      <3>1. answer' = [Silent EXCEPT !.kind = "cur", !.of = h, !.moved = offset]
        BY <1>7, <2>2
      <3>2. answer'.kind = "cur" /\ answer'.of = h /\ answer'.moved = offset
        BY <3>1 DEF Silent
      <3>3. Position(h)' = Position(h) + offset
        BY <1>8, <1>9, <1>12, <1>13, <2>2
      <3> QED
        BY <3>2, <3>3 DEF Truthful
    <2> QED
      BY <2>1, <2>2
  <1> QED
    BY <1>13, <1>14 DEF Right

-----------------------------------------------------------------------------
(* All steps. *)

LEMMA InitRight == Init => Inv /\ Text!Init
  <1> SUFFICES ASSUME Init PROVE Inv /\ Text!Init
    OBVIOUS
  <1> DEFINE u == Unopened
  <1>1. /\ u \in FileSet /\ u.open = FALSE /\ u.writer = "none" /\ u.pending = << >>
        /\ u.fp = 0 /\ Buffered(u) = 0
    BY DEF Unopened, FileSet, Readers, Buffered, Modes
  <1>2. disk \in Seq(Byte) /\ Len(disk) <= MaxLength
    <2>1. CASE disk = << >>
      BY <2>1
    <2>2. CASE disk \in [1 .. MaxLength -> Byte \ {Zero}]
      <3>1. disk \in [1 .. MaxLength -> Byte] /\ MaxLength \in Nat
        BY <2>2
      <3>2. disk \in Seq(Byte) /\ Len(disk) = MaxLength
        BY <3>1, FunctionIsSeq
      <3> QED
        BY <3>1, <3>2
    <2> QED
      BY <2>1, <2>2 DEF Init
  <1> HIDE DEF u
  <1>3. file = [h \in Handle |-> u]
    BY DEF Init, u
  <1>4. TypeOK
    BY <1>1, <1>2, <1>3 DEF TypeOK
  <1>5. \A h \in Handle : HandleOK(h)
    BY <1>1, <1>3 DEF HandleOK
  <1>6. OneWriter
    BY <1>1, <1>3 DEF OneWriter
  <1>7. Inv
    BY <1>2, <1>4, <1>5, <1>6 DEF Inv
  <1>8. Whole \in Seq(Byte)
    BY <1>7, WholeFacts
  <1>9. \A h \in Handle : Position(h) = -1
    BY <1>1, <1>3, <1>7, PositionFacts
  <1>10. [h \in Handle |-> Position(h)] = [h \in Handle |-> -1]
    BY <1>9
  <1> QED
    BY <1>7, <1>8, <1>10 DEF Text!Init

LEMMA FilesUnchanged ==
  ASSUME Inv, UNCHANGED <<disk, file>>
  PROVE  Inv' /\ TextStep
  <1>1. Inv'
    BY DEF Inv, TypeOK, HandleOK, OneWriter, Buffered, WriteAt
  <1>2. Whole' = Whole
    BY DEF Whole, Written, WriteAt
  <1>3. \A q \in Handle : Position(q)' = Position(q)
    BY DEF Position, WriteAt, Buffered
  <1>4. [q \in Handle |-> Position(q)]' = [q \in Handle |-> Position(q)]
    BY <1>3
  <1> QED
    BY <1>1, <1>2, <1>4 DEF TextStep

LEMMA NextRight ==
  ASSUME Bearable, Inv, Next
  PROVE  Right
  <1>1. ASSUME NEW h \in Handle, NEW mode \in Modes, Open(h, mode) PROVE Right
    BY <1>1, OpenRight
  <1>2. ASSUME NEW h \in Handle, NEW bytes \in Chunk, fileWriteAux(h, bytes) PROVE Right
    BY <1>2, WriteRight
  <1>3. ASSUME NEW h \in Handle, fileFlushAux(h) PROVE Right
    BY <1>3, FlushRight
  <1>4. ASSUME NEW h \in Handle, fileCloseAux(h) PROVE Right
    BY <1>4, CloseRight
  <1>5. ASSUME NEW h \in Handle, fileReadAux(h) PROVE Right
    BY <1>5, ReadRight
  <1>6. ASSUME NEW h \in Handle, fileLinesIter(h) \/ ioLinesIter(h) PROVE Right
    BY <1>6, LinesRight
  <1>7. ASSUME NEW h \in Handle, fileSeek(h) PROVE Right
    BY <1>7, SeekRight
  <1>8. ASSUME NEW h \in Handle, fileSetVBuf(h) PROVE Right
    BY <1>8, SetVBufRight
  <1>9. ASSUME newProcess \/ processSetVBuf \/ ProcessClose \/ ChildExits \/ Waited PROVE Right
    <2>1. answer' = Silent /\ UNCHANGED <<disk, file>>
      BY <1>9 DEF newProcess, processSetVBuf, ProcessClose, ChildExits, Waited, Quiet
    <2> QED
      BY <2>1, FilesUnchanged, QuietTruthful DEF Right
  <1> QED
    BY <1>1, <1>2, <1>3, <1>4, <1>5, <1>6, <1>7, <1>8, <1>9 DEF Next

-----------------------------------------------------------------------------
(* What holds of all behaviours. *)

LEMMA FilesInv ==
  ASSUME Bearable
  PROVE  Spec => []Inv
  <1>1. Init => Inv
    BY InitRight
  <1>2. ASSUME Inv, [Next]_vars PROVE Inv'
    <2>1. CASE Next
      BY <1>2, <2>1, NextRight DEF Right
    <2>2. CASE UNCHANGED vars
      BY <1>2, <2>2, FilesUnchanged DEF vars
    <2> QED
      BY <1>2, <2>1, <2>2
  <1> QED
    BY <1>1, <1>2, PTL DEF Spec

(* Files keep their types, offsets stay within the bound, a file that is
   closed or only read holds nothing back, and a handle never has read ahead
   and holds something back at once (newFile, fileWriteAux, fileSetVBuf). *)
THEOREM FilesTypeOK ==
  ASSUME Bearable
  PROVE  Spec => [](TypeOK /\ \A h \in Handle : HandleOK(h))
  <1>1. Inv => TypeOK /\ \A h \in Handle : HandleOK(h)
    BY DEF Inv
  <1> QED
    BY <1>1, FilesInv, PTL

(* A file behind its buffers is a text: every step of the io library is a
   step of the text file, or shows nothing (AbandonReadBuffer, fileWriteAux,
   fileFlushAux, fileCloseAux, fileSetVBuf). *)
THEOREM FilesAreTexts ==
  ASSUME Bearable
  PROVE  Spec => IsTextFile
  <1>1. Init => Text!Init
    BY InitRight
  <1>2. ASSUME Inv, [Next]_vars PROVE TextStep
    <2>1. CASE Next
      BY <1>2, <2>1, NextRight DEF Right
    <2>2. CASE UNCHANGED vars
      BY <1>2, <2>2, FilesUnchanged DEF vars
    <2> QED
      BY <1>2, <2>1, <2>2
  <1>3. Inv /\ [Next]_vars => [Text!Next]_<<Whole, [h \in Handle |-> Position(h)]>>
    BY <1>2 DEF TextStep
  <1> QED
    BY <1>1, <1>3, FilesInv, PTL DEF Spec, IsTextFile, Text!Spec

(* Reads return what the file holds from where the handle is, nil only at
   the end, lines without their end (a newline, or a carriage return and a
   newline) and never two at once, and seeking from the current position
   starts where the program is (readBufioLine, fileLinesIter, readBufioSize,
   fileSeek). *)
THEOREM FilesReadTheText ==
  ASSUME Bearable
  PROVE  Spec => ReadsTheText
  <1>1. ASSUME Inv, Next PROVE Truthful
    BY <1>1, NextRight DEF Right
  <1>2. Inv /\ [Next]_vars => [Truthful]_vars
    BY <1>1
  <1>3. Spec => [][Truthful]_vars
    BY <1>2, FilesInv, PTL DEF Spec
  <1> QED
    BY <1>3 DEF ReadsTheText, Truthful
===============================================================================
