--------------------------- MODULE Profile_proofs ---------------------------
(***************************************************************************)
(* Proofs about Profile, for any users, texts and prompts to start from: a *)
(* profile changes by the right PIN only, an entry with a flag of its own  *)
(* is only replaced by the last answer to its prompt, flags and store      *)
(* agree.  The buffer and the temporary value may hold anything: what makes*)
(* the properties true is where the menu stack can be when a PIN is asked. *)
(***************************************************************************)
EXTENDS Profile, TLAPS

\* The entries whose flag insertProfileItems keeps for them.
Kept == Field \ {"gender", "yob"}

Flags(s) == \A f \in Kept : f \in s.set <=> s.stored[f] # None

\* The frames below the top: the profile menu is one of them, the view is
\* entered from it, and nothing is pushed on the prompt for the PIN.
Stack(p) ==
  /\ p # <<>> => \E i \in DOMAIN p : p[i].node = "edit_profile"
  /\ \A i \in DOMAIN p : p[i].node = "view_profile" =>
       i > 1 /\ p[i - 1].node = "edit_profile"
  /\ \A i \in DOMAIN p : p[i].node = "pin_entry" => i = Len(p)

\* A session that an error ended has no path.
Alive(s) == s.path # <<>> => s.failed = "no"

\* The right PIN is only remembered on the pages behind it.
Authorized(s) ==
  s.allow => s.path = <<>> \/ Top(s).node \in {"profile_update_success", "view_profile"}

\* What the right PIN will store over an entry is the last answer, to its prompt.
Just(s, n) == n \in Kept /\ s.stored[n] # None => s.temp = s.last /\ s.last.for = n
Asked(s) == At(s, "pin_entry") => Just(s, s.path[Len(s.path) - 1].node)

Buffer == {b \in Seq(Answer) : Len(b) <= Len(Order)}
Worlds == [me : Row, buffer : Buffer]

-----------------------------------------------------------------------------
(* Entries *)

LEMMA TheFields ==
  /\ Len(Order) = 6 /\ DOMAIN Order = 1 .. 6
  /\ Len(FlagOrder) = 6 /\ DOMAIN FlagOrder = 1 .. 6
  /\ Field = {"first_name", "family_name", "gender", "yob", "location", "offerings"}
  /\ \A i \in 1 .. 6 : Order[i] \in Field /\ FlagOrder[i] \in Field
  /\ \A f \in Field : \E i \in 1 .. 6 : Order[i] = f
BY DEF Order, FlagOrder, Field, ToSet

LEMMA TheIndex ==
  ASSUME NEW f \in Field
  PROVE  Index(f) \in 1 .. 6 /\ Order[Index(f)] = f
BY TheFields DEF Index

LEMMA Positions ==
  \A i, j \in 1 .. 6 : Order[i] = Order[j] => i = j
BY DEF Order

\* The two orders differ in gender and yob only.
LEMMA SameFlag ==
  ASSUME NEW i \in 1 .. 6
  PROVE  /\ FlagOrder[i] \in Kept <=> Order[i] \in Kept
         /\ FlagOrder[i] \in Kept => FlagOrder[i] = Order[i]
         /\ Order[i] \in Field => i = Index(Order[i])
<1>1. (FlagOrder[i] \in Kept <=> Order[i] \in Kept)
      /\ (FlagOrder[i] \in Kept => FlagOrder[i] = Order[i])
  BY TheFields DEF FlagOrder, Order, Kept
<1>2. Order[i] \in Field => i = Index(Order[i])
  BY TheIndex, Positions
<1> QED
  BY <1>1, <1>2

LEMMA Answers ==
  /\ None \in Answer
  /\ \A u \in User : Choice(u) \in Answer
  /\ \A u \in User, f \in Field, t \in Text : Typed(u, f, t) \in Answer
<1>1. None \in Answer
  BY DEF Answer
<1>2. \A u \in User, f \in Field \cup {"menu"}, t \in Text : Typed(u, f, t) \in Answer
  BY DEF Answer, Typed
<1>3. (CHOOSE t \in Text : TRUE) \in Text
  BY TextAssumption
<1> QED
  BY <1>1, <1>2, <1>3 DEF Choice

-----------------------------------------------------------------------------
(* Rows and worlds *)

LEMMA FieldsOfRow ==
  ASSUME NEW s \in Row
  PROVE  /\ s.stored \in [Field -> Answer] /\ s.temp \in Answer
         /\ s.set \in SUBSET Field
         /\ s.allow \in BOOLEAN /\ s.wrong \in BOOLEAN
         /\ s.path \in Seq(Frame) /\ s.loaded \in SUBSET {"location", "offerings"}
         /\ s.last \in Answer /\ s.failed \in {"no", "data", "node", "year"}
BY DEF Row

LEMMA RowTakes ==
  ASSUME NEW s \in Row
  PROVE  /\ \A x \in [Field -> Answer] : [s EXCEPT !.stored = x] \in Row
         /\ \A x \in Answer : [s EXCEPT !.temp = x] \in Row
         /\ \A x \in SUBSET Field : [s EXCEPT !.set = x] \in Row
         /\ \A x \in BOOLEAN : [s EXCEPT !.allow = x] \in Row
         /\ \A x \in BOOLEAN : [s EXCEPT !.wrong = x] \in Row
         /\ \A x \in Seq(Frame) : [s EXCEPT !.path = x] \in Row
         /\ \A x \in SUBSET {"location", "offerings"} : [s EXCEPT !.loaded = x] \in Row
         /\ \A x \in Answer : [s EXCEPT !.last = x] \in Row
         /\ \A x \in {"no", "data", "node", "year"} : [s EXCEPT !.failed = x] \in Row
BY DEF Row

LEMMA OfWorlds ==
  ASSUME NEW w \in Worlds
  PROVE  /\ w.me \in Row /\ w.buffer \in Buffer
         /\ \A s \in Row : [w EXCEPT !.me = s] \in Worlds
                           /\ [w EXCEPT !.me = s].me = s
                           /\ [w EXCEPT !.me = s].buffer = w.buffer
         /\ \A b \in Buffer : [w EXCEPT !.buffer = b] \in Worlds
                              /\ [w EXCEPT !.buffer = b].me = w.me
                              /\ [w EXCEPT !.buffer = b].buffer = b
BY DEF Worlds

LEMMA Insertion ==
  ASSUME NEW b \in Buffer, NEW i \in 1 .. 6, NEW v \in Answer
  PROVE  InsertOrShift(b, i, v) \in Buffer
<1>1. b \in Seq(Answer) /\ Len(b) \in Nat /\ None \in Answer /\ Len(Order) = 6
  BY Answers, TheFields DEF Buffer
<1>2. CASE i <= Len(b)
  <2>1. SubSeq(b, 1, i - 1) \in Seq(Answer) /\ Len(SubSeq(b, 1, i - 1)) = i - 1
    BY <1>1, <1>2
  <2> QED
    BY <1>1, <1>2, <2>1 DEF Buffer, InsertOrShift
<1>3. CASE ~ i <= Len(b)
  <2> DEFINE pad == [j \in 1 .. (i - 1 - Len(b)) |-> None]
  <2>1. pad \in Seq(Answer) /\ Len(pad) = i - 1 - Len(b)
    BY <1>1, <1>3
  <2>3. InsertOrShift(b, i, v) = Append(b \o pad, v)
    BY <1>3 DEF InsertOrShift
  <2> HIDE DEF pad
  <2>2. b \o pad \in Seq(Answer) /\ Len(b \o pad) = i - 1
    BY <1>1, <2>1
  <2> QED
    BY <1>1, <2>2, <2>3 DEF Buffer
<1> QED
  BY <1>2, <1>3

-----------------------------------------------------------------------------
(* The menu stack *)

\* A world whose script may go on: on a node that is not the prompt for the PIN.
Ready(w) ==
  w \in Worlds /\ Flags(w.me) /\ Stack(w.me.path) /\ Alive(w.me)
OnNode(w) == w.me.path # <<>> /\ Top(w.me).node # "pin_entry"

\* Nothing but the path and what is cached in its frames is different.
SameBut(s, t) ==
  /\ t.stored = s.stored /\ t.temp = s.temp /\ t.set = s.set
  /\ t.allow = s.allow /\ t.wrong = s.wrong /\ t.last = s.last
  /\ t.failed = s.failed

LEMMA TheTop ==
  ASSUME NEW s \in Row, s.path # <<>>
  PROVE  /\ Len(s.path) \in Nat \ {0} /\ DOMAIN s.path = 1 .. Len(s.path)
         /\ Top(s) = s.path[Len(s.path)] /\ Top(s) \in Frame
         /\ Top(s).node \in Node /\ Top(s).input \in Answer
<1>1. s.path \in Seq(Frame)
  BY FieldsOfRow
<1>2. Len(s.path) \in Nat \ {0} /\ DOMAIN s.path = 1 .. Len(s.path)
  BY <1>1
<1>3. Top(s) = s.path[Len(s.path)] /\ Top(s) \in Frame
  BY <1>1, <1>2 DEF Top, Last
<1> QED
  BY <1>2, <1>3 DEF Frame

LEMMA PushIs ==
  ASSUME NEW w \in Worlds, NEW n \in Node, NEW in \in Answer
  PROVE  /\ Push(w, n, in) \in Worlds /\ Push(w, n, in).buffer = w.buffer
         /\ SameBut(w.me, Push(w, n, in).me)
         /\ Push(w, n, in).me.loaded = w.me.loaded
         /\ Push(w, n, in).me.path = Append(w.me.path, [node |-> n, input |-> in])
<1> DEFINE p == Append(w.me.path, [node |-> n, input |-> in])
           s == [w.me EXCEPT !.path = p]
<1>1. w.me \in Row /\ w.me.path \in Seq(Frame)
  BY OfWorlds, FieldsOfRow
<1>2. [node |-> n, input |-> in] \in Frame
  BY DEF Frame
<1>3. p \in Seq(Frame)
  BY <1>1, <1>2
<1>4. Push(w, n, in) = [w EXCEPT !.me = s]
  BY DEF Push, Worlds
<1> HIDE DEF p
<1>5. s \in Row
  BY <1>1, <1>3, RowTakes
<1>6. SameBut(w.me, s) /\ s.loaded = w.me.loaded /\ s.path = p
  BY <1>1 DEF SameBut, Row
<1> HIDE DEF s
<1> QED
  BY <1>4, <1>5, <1>6, OfWorlds DEF p

LEMMA PushedFrames ==
  ASSUME NEW p \in Seq(Frame), NEW e \in Frame
  PROVE  /\ Append(p, e) # <<>> /\ Len(Append(p, e)) = Len(p) + 1
         /\ DOMAIN Append(p, e) = 1 .. Len(p) + 1 /\ DOMAIN p = 1 .. Len(p)
         /\ Len(p) \in Nat
         /\ \A i \in 1 .. Len(p) : Append(p, e)[i] = p[i]
         /\ Append(p, e)[Len(p) + 1] = e
OBVIOUS

LEMMA PushStacks ==
  ASSUME NEW p \in Seq(Frame), NEW e \in Frame, Stack(p),
         p = <<>> => e.node = "edit_profile",
         p # <<>> => p[Len(p)].node # "pin_entry",
         e.node = "view_profile" => p # <<>> /\ p[Len(p)].node = "edit_profile"
  PROVE  Stack(Append(p, e))
<1> DEFINE q == Append(p, e)
           k == Len(p)
<1>1. /\ k \in Nat /\ DOMAIN p = 1 .. k /\ DOMAIN q = 1 .. k + 1 /\ Len(q) = k + 1
      /\ (\A i \in 1 .. k : q[i] = p[i]) /\ q[k + 1] = e
      /\ (p = <<>> <=> k = 0)
  BY PushedFrames
<1> HIDE DEF q, k
<1>2. \E i \in DOMAIN q : q[i].node = "edit_profile"
  <2>1. CASE k = 0
    BY <1>1, <2>1
  <2>2. CASE k # 0
    <3>1. PICK i \in 1 .. k : p[i].node = "edit_profile"
      BY <1>1, <2>2 DEF Stack
    <3> QED
      BY <1>1, <3>1
  <2> QED
    BY <2>1, <2>2
<1>3. ASSUME NEW i \in DOMAIN q, q[i].node = "view_profile"
      PROVE  i > 1 /\ q[i - 1].node = "edit_profile"
  <2>1. CASE i = k + 1
    BY <1>1, <1>3, <2>1 DEF k
  <2>2. CASE i # k + 1
    <3>1. i \in 1 .. k /\ p[i].node = "view_profile"
      BY <1>1, <1>3, <2>2
    <3>2. i > 1 /\ p[i - 1].node = "edit_profile"
      BY <1>1, <3>1 DEF Stack
    <3> QED
      BY <1>1, <3>1, <3>2
  <2> QED
    BY <2>1, <2>2
<1>4. ASSUME NEW i \in DOMAIN q, q[i].node = "pin_entry"
      PROVE  i = Len(q)
  <2> SUFFICES ASSUME i # k + 1 PROVE FALSE
    BY <1>1
  <2>1. i \in 1 .. k /\ p[i].node = "pin_entry"
    BY <1>1, <1>4
  <2>2. i = k
    BY <1>1, <2>1 DEF Stack, k
  <2>3. p # <<>>
    BY <1>1, <2>1
  <2>4. p[Len(p)].node = "pin_entry"
    BY <2>1, <2>2 DEF k
  <2> QED
    BY <2>3, <2>4
<1> QED
  BY <1>2, <1>3, <1>4 DEF Stack, q

\* On a node, any but the view may be pushed; it is then the top.
LEMMA PushKeeps ==
  ASSUME NEW w, Ready(w), NEW n \in Node, NEW in \in Answer,
         w.me.path = <<>> => n = "edit_profile" /\ w.me.failed = "no",
         w.me.path # <<>> => Top(w.me).node # "pin_entry",
         n = "view_profile" => w.me.path # <<>> /\ Top(w.me).node = "edit_profile"
  PROVE  /\ Ready(Push(w, n, in)) /\ Push(w, n, in).me.path # <<>>
         /\ Top(Push(w, n, in).me) = [node |-> n, input |-> in]
         /\ w.me.path # <<>> =>
              Push(w, n, in).me.path[Len(Push(w, n, in).me.path) - 1] = Top(w.me)
<1> DEFINE v == Push(w, n, in)
           e == [node |-> n, input |-> in]
<1>1. w \in Worlds /\ w.me \in Row /\ w.me.path \in Seq(Frame) /\ e \in Frame
  BY OfWorlds, FieldsOfRow DEF Ready, Frame
<1>2. v \in Worlds /\ SameBut(w.me, v.me) /\ v.me.path = Append(w.me.path, e)
  BY <1>1, PushIs
<1>3. w.me.path # <<>> => Top(w.me) = w.me.path[Len(w.me.path)]
  BY <1>1, TheTop
<1>4. e.node = n
  OBVIOUS
<1> HIDE DEF v, e
<1>5. Stack(v.me.path)
  BY <1>1, <1>2, <1>3, <1>4, PushStacks DEF Ready
<1>6. Flags(v.me) /\ Alive(v.me)
  BY <1>2 DEF Ready, Flags, SameBut, Alive
<1>7. v.me.path # <<>> /\ Len(v.me.path) = Len(w.me.path) + 1
  BY <1>1, <1>2, PushedFrames
<1>8. Top(v.me) = e
  BY <1>1, <1>2, <1>7, PushedFrames, TheTop, OfWorlds
<1>9. w.me.path # <<>> => v.me.path[Len(v.me.path) - 1] = Top(w.me)
  BY <1>1, <1>2, <1>3, <1>7, PushedFrames, TheTop
<1> QED
  BY <1>2, <1>5, <1>6, <1>7, <1>8, <1>9 DEF Ready, v, e

LEMMA PopIs ==
  ASSUME NEW w \in Worlds, w.me.path # <<>>
  PROVE  /\ Pop(w) \in Worlds /\ Pop(w).buffer = w.buffer
         /\ SameBut(w.me, Pop(w).me)
         /\ Pop(w).me.path = Front(w.me.path)
<1> DEFINE p == Front(w.me.path)
           l == {f \in w.me.loaded : \E i \in DOMAIN p : p[i].node = f}
           s == [w.me EXCEPT !.path = p]
           t == [s EXCEPT !.loaded = l]
<1>1. w.me \in Row /\ w.me.path \in Seq(Frame)
      /\ w.me.loaded \in SUBSET {"location", "offerings"}
  BY OfWorlds, FieldsOfRow
<1>2. p \in Seq(Frame)
  BY <1>1 DEF Front
<1>3. l \in SUBSET {"location", "offerings"}
  BY <1>1
<1>4. Pop(w) = [w EXCEPT !.me = t]
  BY DEF Pop, Worlds
<1> HIDE DEF p, l
<1>5. s \in Row
  BY <1>1, <1>2, RowTakes
<1>6. SameBut(w.me, s) /\ s.path = p
  BY <1>1 DEF SameBut, Row
<1> HIDE DEF s
<1>7. t \in Row
  BY <1>3, <1>5, RowTakes
<1>8. SameBut(s, t) /\ t.path = s.path
  BY <1>5 DEF SameBut, Row
<1> HIDE DEF t
<1> QED
  BY <1>4, <1>6, <1>7, <1>8, OfWorlds DEF p, SameBut

LEMMA FrontStacks ==
  ASSUME NEW p \in Seq(Frame), Stack(p), p # <<>>,
         p[Len(p)].node # "edit_profile"
  PROVE  /\ Front(p) \in Seq(Frame) /\ Front(p) # <<>> /\ Stack(Front(p))
         /\ Len(Front(p)) = Len(p) - 1
         /\ Front(p)[Len(p) - 1] = p[Len(p) - 1]
         /\ p[Len(p) - 1].node # "pin_entry"
         /\ p[Len(p)].node = "view_profile" => p[Len(p) - 1].node = "edit_profile"
<1> DEFINE q == Front(p)
           k == Len(p)
<1>1. k \in Nat \ {0} /\ DOMAIN p = 1 .. k
  OBVIOUS
<1>2. q \in Seq(Frame) /\ Len(q) = k - 1 /\ DOMAIN q = 1 .. k - 1
      /\ \A i \in 1 .. k - 1 : q[i] = p[i]
  BY <1>1 DEF Front
<1> HIDE DEF q
<1>3. PICK i \in 1 .. k : p[i].node = "edit_profile"
  BY <1>1 DEF Stack
<1>4. i \in 1 .. k - 1
  BY <1>1, <1>3
<1>5. q # <<>>
  BY <1>2, <1>4
<1>6. \E j \in DOMAIN q : q[j].node = "edit_profile"
  BY <1>2, <1>3, <1>4
<1>7. \A j \in DOMAIN q : q[j].node = "view_profile" =>
         j > 1 /\ q[j - 1].node = "edit_profile"
  <2> SUFFICES ASSUME NEW j \in DOMAIN q, q[j].node = "view_profile"
               PROVE  j > 1 /\ q[j - 1].node = "edit_profile"
    OBVIOUS
  <2>1. j \in 1 .. k - 1 /\ p[j].node = "view_profile"
    BY <1>2
  <2>2. j > 1 /\ p[j - 1].node = "edit_profile"
    BY <1>1, <2>1 DEF Stack
  <2> QED
    BY <1>2, <2>1, <2>2
<1>8. \A j \in 1 .. k - 1 : p[j].node # "pin_entry"
  BY <1>1 DEF Stack
<1>9. Stack(q)
  BY <1>2, <1>6, <1>7, <1>8 DEF Stack
<1>10. p[k].node = "view_profile" => p[k - 1].node = "edit_profile"
  <2>1. k \in DOMAIN p
    BY <1>1
  <2> QED
    BY <2>1 DEF Stack
<1>11. k - 1 \in 1 .. k - 1
  BY <1>1, <1>4
<1> QED
  BY <1>2, <1>5, <1>8, <1>9, <1>10, <1>11 DEF q

\* Under any node but the profile menu there is a node to go back to.
LEMMA PopKeeps ==
  ASSUME NEW w, Ready(w), w.me.path # <<>>, Top(w.me).node # "edit_profile"
  PROVE  /\ Ready(Pop(w)) /\ OnNode(Pop(w))
         /\ Top(Pop(w).me) = w.me.path[Len(w.me.path) - 1]
         /\ Top(w.me).node = "view_profile" => Top(Pop(w).me).node = "edit_profile"
<1> DEFINE v == Pop(w)
           p == w.me.path
<1>1. w \in Worlds /\ w.me \in Row /\ p \in Seq(Frame) /\ Stack(p)
  BY OfWorlds, FieldsOfRow DEF Ready
<1>2. v \in Worlds /\ v.me \in Row /\ SameBut(w.me, v.me) /\ v.me.path = Front(p)
  BY <1>1, PopIs, OfWorlds
<1>3. Top(w.me) = p[Len(p)]
  BY <1>1, TheTop
<1> HIDE DEF v, p
<1>4. /\ Front(p) # <<>> /\ Stack(Front(p))
      /\ Len(Front(p)) = Len(p) - 1
      /\ Front(p)[Len(p) - 1] = p[Len(p) - 1]
      /\ p[Len(p) - 1].node # "pin_entry"
      /\ p[Len(p)].node = "view_profile" => p[Len(p) - 1].node = "edit_profile"
  BY <1>1, <1>3, FrontStacks DEF p
<1>5. Top(v.me) = p[Len(p) - 1]
  BY <1>2, <1>4, TheTop
<1>6. Flags(v.me) /\ Alive(v.me)
  BY <1>2 DEF Ready, Flags, SameBut, Alive
<1> QED
  BY <1>2, <1>3, <1>4, <1>5, <1>6 DEF Ready, OnNode, v, p

-----------------------------------------------------------------------------
(* What the scripts come to *)

Settled(w) == Ready(w) /\ Authorized(w.me) /\ Asked(w.me)

\* A script that runs without authorization: it ends well and stores nothing.
Comes(w, v) == Settled(v) /\ v.me.stored = w.me.stored

Running(w) == Ready(w) /\ OnNode(w) /\ ~w.me.allow

LEMMA RunningSettles ==
  ASSUME NEW w, Running(w)
  PROVE  Settled(w)
BY DEF Running, OnNode, Settled, Authorized, Asked, At

LEMMA FailIs ==
  ASSUME NEW w, Ready(w), NEW why \in {"data", "node", "year"}
  PROVE  Comes(w, Fail(w, why)) /\ Failed(Fail(w, why))
<1> DEFINE s == [w.me EXCEPT !.path = <<>>]
           t == [s EXCEPT !.loaded = {}]
           r == [t EXCEPT !.failed = why]
<1>1. w \in Worlds /\ w.me \in Row
  BY OfWorlds DEF Ready
<1>2. Fail(w, why) = [w EXCEPT !.me = r]
  BY <1>1 DEF Fail, Worlds
<1>3. s \in Row /\ s.stored = w.me.stored /\ s.set = w.me.set /\ s.path = <<>>
  <2>1. <<>> \in Seq(Frame)
    OBVIOUS
  <2>2. s \in Row
    BY <1>1, <2>1, RowTakes
  <2> QED
    BY <1>1, <2>2 DEF Row
<1> HIDE DEF s
<1>4. t \in Row /\ t.stored = w.me.stored /\ t.set = w.me.set /\ t.path = <<>>
  <2>1. t \in Row
    BY <1>3, RowTakes
  <2> QED
    BY <1>3, <2>1 DEF Row
<1> HIDE DEF t
<1>5. r \in Row /\ r.stored = w.me.stored /\ r.set = w.me.set /\ r.path = <<>>
      /\ r.failed = why
  <2>1. why \in {"no", "data", "node", "year"}
    OBVIOUS
  <2>2. r \in Row
    BY <1>4, <2>1, RowTakes
  <2> QED
    BY <1>4, <2>2 DEF Row
<1> HIDE DEF r
<1>6. Fail(w, why) \in Worlds /\ Fail(w, why).me = r
  BY <1>1, <1>2, <1>5, OfWorlds
<1>7. Flags(r) /\ Stack(<<>>) /\ Alive(r)
  BY <1>5 DEF Ready, Flags, Stack, Alive
<1>8. Authorized(r) /\ Asked(r)
  BY <1>5 DEF Authorized, Asked, At
<1> QED
  BY <1>5, <1>6, <1>7, <1>8 DEF Comes, Settled, Ready, Failed

LEMMA PushOn ==
  ASSUME NEW w, Running(w), NEW n \in Node \ {"view_profile"}, NEW in \in Answer
  PROVE  /\ Ready(Push(w, n, in)) /\ Push(w, n, in).me.path # <<>>
         /\ Top(Push(w, n, in).me).node = n /\ Top(Push(w, n, in).me).input = in
         /\ Push(w, n, in).me.path[Len(Push(w, n, in).me.path) - 1] = Top(w.me)
         /\ SameBut(w.me, Push(w, n, in).me)
<1> DEFINE v == Push(w, n, in)
<1>1. /\ Ready(w) /\ w.me.path # <<>> /\ Top(w.me).node # "pin_entry"
      /\ n # "view_profile" /\ n \in Node
  BY DEF Running, OnNode
<1>2. /\ Ready(v) /\ v.me.path # <<>> /\ Top(v.me) = [node |-> n, input |-> in]
      /\ v.me.path[Len(v.me.path) - 1] = Top(w.me)
  BY <1>1, PushKeeps
<1>3. SameBut(w.me, v.me)
  BY <1>1, PushIs DEF Ready
<1> HIDE DEF v
<1>4. Top(v.me).node = n /\ Top(v.me).input = in
  BY <1>2
<1> QED
  BY <1>2, <1>3, <1>4 DEF v

LEMMA IncorrectPinComes ==
  ASSUME NEW w, Running(w)
  PROVE  Comes(w, IncorrectPin(w))
<1> DEFINE v == Push(w, "incorrect_pin", None)
           s == [v.me EXCEPT !.wrong = FALSE]
<1>1. "incorrect_pin" \in Node /\ None \in Answer
  BY Answers DEF Node
<1>2. Ready(v) /\ v.me.path # <<>> /\ Top(v.me).node = "incorrect_pin"
  BY <1>1, PushOn
<1>3. SameBut(w.me, v.me)
  BY <1>1, PushIs DEF Running, Ready
<1>4. IncorrectPin(w) = [v EXCEPT !.me = s]
  BY <1>2 DEF IncorrectPin, Ready, Worlds
<1> HIDE DEF v
<1>5. v.me \in Row /\ v \in Worlds
  BY <1>2, OfWorlds DEF Ready
<1>6. s \in Row /\ s.stored = v.me.stored /\ s.set = v.me.set /\ s.path = v.me.path
      /\ s.allow = v.me.allow /\ s.failed = v.me.failed
  <2>1. s \in Row
    BY <1>5, RowTakes
  <2> QED
    BY <1>5, <2>1 DEF Row
<1> HIDE DEF s
<1>7. IncorrectPin(w) \in Worlds /\ IncorrectPin(w).me = s
  BY <1>4, <1>5, <1>6, OfWorlds
<1>8. Running(IncorrectPin(w))
  BY <1>2, <1>3, <1>6, <1>7
  DEF Running, Ready, Flags, Alive, OnNode, Top, SameBut
<1>9. IncorrectPin(w).me.stored = w.me.stored
  BY <1>3, <1>6, <1>7 DEF SameBut
<1> QED
  BY <1>8, <1>9, RunningSettles DEF Comes

LEMMA PinEntryComes ==
  ASSUME NEW w, Running(w), Just(w.me, Top(w.me).node)
  PROVE  Comes(w, PinEntry(w))
<1> DEFINE v == PinEntry(w)
<1>1. "pin_entry" \in Node /\ None \in Answer
  BY Answers DEF Node
<1>2. /\ Ready(v) /\ v.me.path # <<>> /\ Top(v.me).node = "pin_entry"
      /\ v.me.path[Len(v.me.path) - 1] = Top(w.me)
  BY <1>1, PushOn DEF PinEntry
<1>3. SameBut(w.me, v.me)
  BY <1>1, PushIs DEF Running, Ready, PinEntry
<1> HIDE DEF v
<1>4. Authorized(v.me)
  BY <1>3 DEF Authorized, Running, SameBut
<1>5. Asked(v.me)
  BY <1>2, <1>3 DEF Asked, Just, SameBut
<1> QED
  BY <1>2, <1>3, <1>4, <1>5 DEF Comes, Settled, SameBut, v

-----------------------------------------------------------------------------
(* Scripts without authorization *)

\* Until the PIN is right an answer goes to the temporary value or the buffer.
LEMMA SaveKeeps ==
  ASSUME NEW w, Running(w), NEW f \in Field, NEW in \in Answer
  PROVE  /\ Running(Save(w, f, in))
         /\ Save(w, f, in).me.stored = w.me.stored
         /\ Save(w, f, in).me.set = w.me.set
         /\ Save(w, f, in).me.last = w.me.last
         /\ Save(w, f, in).me.path = w.me.path
         /\ f \in w.me.set => Save(w, f, in).me.temp = in
<1>1. w \in Worlds /\ w.me \in Row /\ w.buffer \in Buffer /\ ~w.me.allow
  BY OfWorlds DEF Running, Ready
<1>2. CASE f \in w.me.set
  <2> DEFINE s == [w.me EXCEPT !.temp = in]
  <2>1. Save(w, f, in) = [w EXCEPT !.me = s]
    BY <1>1, <1>2 DEF Save, Worlds
  <2>2. s \in Row
    BY <1>1, RowTakes
  <2>3. s.stored = w.me.stored /\ s.set = w.me.set /\ s.path = w.me.path
        /\ s.last = w.me.last /\ s.allow = w.me.allow /\ s.temp = in
        /\ s.failed = w.me.failed
    BY <1>1, <2>2 DEF Row
  <2> HIDE DEF s
  <2>4. Save(w, f, in) \in Worlds /\ Save(w, f, in).me = s
    BY <1>1, <2>1, <2>2, OfWorlds
  <2>5. Running(Save(w, f, in))
    BY <2>3, <2>4 DEF Running, Ready, Flags, Alive, OnNode, Top
  <2> QED
    BY <2>3, <2>4, <2>5
<1>3. CASE f \notin w.me.set
  <2> DEFINE b == InsertOrShift(w.buffer, Index(f), in)
  <2>1. Save(w, f, in) = [w EXCEPT !.buffer = b]
    BY <1>1, <1>3 DEF Save, Worlds
  <2>2. b \in Buffer
    BY <1>1, TheIndex, Insertion
  <2> HIDE DEF b
  <2>3. Save(w, f, in) \in Worlds /\ Save(w, f, in).me = w.me
    BY <1>1, <2>1, <2>2, OfWorlds
  <2> QED
    BY <1>3, <2>3 DEF Running, Ready, OnNode
<1> QED
  BY <1>2, <1>3

\* The flag of an entry is set when the entry is in the store.
LEMMA LookupKeeps ==
  ASSUME NEW w, Running(w), NEW f \in Field
  PROVE  /\ Running(GetCurrentProfileInfo(w, f))
         /\ GetCurrentProfileInfo(w, f).me.stored = w.me.stored
<1> DEFINE v == GetCurrentProfileInfo(w, f)
           s == [w.me EXCEPT !.set = w.me.set \cup {f}]
<1>1. w \in Worlds /\ w.me \in Row
  BY OfWorlds DEF Running, Ready
<1>2. CASE w.me.stored[f] = None
  BY <1>2 DEF GetCurrentProfileInfo
<1>3. CASE w.me.stored[f] # None
  <2>1. v = [w EXCEPT !.me = s]
    BY <1>1, <1>3 DEF GetCurrentProfileInfo, Worlds
  <2>2. s \in Row
    <3>1. w.me.set \cup {f} \in SUBSET Field
      BY <1>1, FieldsOfRow
    <3> QED
      BY <1>1, <3>1, RowTakes
  <2>3. s.stored = w.me.stored /\ s.set = w.me.set \cup {f} /\ s.path = w.me.path
        /\ s.allow = w.me.allow /\ s.failed = w.me.failed
    BY <1>1, <2>2 DEF Row
  <2> HIDE DEF s, v
  <2>4. v \in Worlds /\ v.me = s
    BY <1>1, <2>1, <2>2, OfWorlds
  <2>5. Flags(s)
    BY <1>3, <2>3 DEF Running, Ready, Flags
  <2>6. Running(v)
    BY <2>3, <2>4, <2>5 DEF Running, Ready, Alive, OnNode, Top
  <2> QED
    BY <2>3, <2>4, <2>6 DEF v
<1> QED
  BY <1>2, <1>3

LEMMA PromptComes ==
  ASSUME NEW w, Running(w), NEW f \in Field, NEW in \in Answer
  PROVE  Comes(w, Prompt(w, f, in))
<1> DEFINE v == GetCurrentProfileInfo(w, f)
           x == Save(v, f, in)
           s == [x.me EXCEPT !.loaded = x.me.loaded \cup {f}]
<1>1. CASE w.me.wrong
  BY <1>1, IncorrectPinComes DEF Prompt
<1>2. ASSUME ~w.me.wrong
      PROVE  Comes(w, Prompt(w, f, in))
  <2>1. Running(v) /\ v.me.stored = w.me.stored /\ ~w.me.allow
    BY LookupKeeps DEF Running
  <2>2. CASE f \notin {"location", "offerings"} \ v.me.loaded
    <3>1. Prompt(w, f, in) = v
      BY <1>2, <2>1, <2>2 DEF Prompt
    <3> QED
      BY <2>1, <3>1, RunningSettles DEF Comes
  <2>3. CASE f \in {"location", "offerings"} \ v.me.loaded
    <3>1. Running(x) /\ x.me.stored = v.me.stored
      BY <2>1, SaveKeeps
    <3>2. x \in Worlds /\ x.me \in Row
      BY <3>1, OfWorlds DEF Running, Ready
    <3>3. Prompt(w, f, in) = [x EXCEPT !.me = s]
      BY <1>2, <2>1, <2>3, <3>2 DEF Prompt, Worlds
    <3> HIDE DEF x
    <3>4. s \in Row
      <4>1. x.me.loaded \cup {f} \in SUBSET {"location", "offerings"}
        BY <2>3, <3>2, FieldsOfRow
      <4> QED
        BY <3>2, <4>1, RowTakes
    <3>5. s.stored = x.me.stored /\ s.set = x.me.set /\ s.path = x.me.path
          /\ s.allow = x.me.allow /\ s.failed = x.me.failed
      BY <3>2, <3>4 DEF Row
    <3> HIDE DEF s
    <3>6. Prompt(w, f, in) \in Worlds /\ Prompt(w, f, in).me = s
      BY <3>2, <3>3, <3>4, OfWorlds
    <3>7. Running(Prompt(w, f, in))
      BY <3>1, <3>5, <3>6 DEF Running, Ready, Flags, Alive, OnNode, Top
    <3> QED
      BY <2>1, <3>1, <3>5, <3>6, <3>7, RunningSettles DEF Comes
  <2> QED
    BY <2>2, <2>3
<1> QED
  BY <1>1, <1>2

LEMMA FieldsAreNodes ==
  ASSUME NEW f \in Field
  PROVE  f \in Node \ {"view_profile"} /\ f # "pin_entry" /\ f # "edit_profile"
BY TheFields DEF Node

LEMMA OpenComes ==
  ASSUME NEW w, Running(w), NEW f \in Field, NEW in \in Answer
  PROVE  Comes(w, Open(w, f, in))
<1> DEFINE v == Push(w, f, None)
<1>1. f \in Node \ {"view_profile"} /\ f # "pin_entry" /\ None \in Answer
  BY FieldsAreNodes, Answers
<1>2. /\ Ready(v) /\ v.me.path # <<>> /\ Top(v.me).node = f
      /\ SameBut(w.me, v.me)
  BY <1>1, PushOn
<1>3. Running(v)
  BY <1>1, <1>2 DEF Running, OnNode, SameBut
<1>4. Open(w, f, in) = Prompt(v, f, in)
  BY DEF Open
<1> HIDE DEF v
<1> QED
  BY <1>2, <1>3, <1>4, PromptComes DEF Comes, SameBut

\* The chain behind an answer that was saved for the field it was given to.
LEMMA ContinueComes ==
  ASSUME NEW w, Running(w), NEW f \in Field, NEW in \in Answer,
         Just(w.me, Top(w.me).node)
  PROVE  Comes(w, Continue(w, f, in))
<1> DEFINE later == {i \in Index(f) + 1 .. Len(Order) : Order[i] \notin w.me.set}
           next == Order[CHOOSE i \in later : \A j \in later : i <= j]
<1>1. CASE f \in w.me.set \/ later = {}
  BY <1>1, PinEntryComes DEF Continue
<1>2. CASE ~(f \in w.me.set \/ later = {}) /\ f = "first_name" /\ next = "gender"
  <2>1. Continue(w, f, in) = Fail(w, "node")
    BY <1>2 DEF Continue
  <2> QED
    BY <2>1, FailIs DEF Running
<1>3. CASE ~(f \in w.me.set \/ later = {}) /\ ~(f = "first_name" /\ next = "gender")
  <2>1. Continue(w, f, in) = Open(w, next, in)
    BY <1>3 DEF Continue
  <2>2. next \in Field
    <3>1. \A i \in later : i \in 1 .. 6
      BY TheIndex, TheFields
    <3>2. \E i \in later : \A j \in later : i <= j
      <4> HIDE DEF later
      <4>1. \/ 1 \in later \/ 2 \in later \/ 3 \in later
            \/ 4 \in later \/ 5 \in later \/ 6 \in later
        BY <1>3, <3>1
      <4> QED
        BY <3>1, <4>1
    <3> HIDE DEF later
    <3>3. (CHOOSE i \in later : \A j \in later : i <= j) \in later
      BY <3>2
    <3> QED
      BY <3>1, <3>3, TheFields
  <2> HIDE DEF next
  <2> QED
    BY <2>1, <2>2, OpenComes
<1> QED
  BY <1>1, <1>2, <1>3

LEMMA UpdateProfileItemsComes ==
  ASSUME NEW w, Running(w), Top(w.me).node = "update_profile_items"
  PROVE  Comes(w, UpdateProfileItems(w))
<1>1. "update_profile_items" \notin Kept
  BY TheFields DEF Kept
<1>2. CASE w.me.wrong
  BY <1>2, IncorrectPinComes DEF UpdateProfileItems
<1>3. CASE ~w.me.wrong
  <2>1. UpdateProfileItems(w) = PinEntry(w)
    BY <1>3 DEF UpdateProfileItems, Running
  <2> QED
    BY <1>1, <2>1, PinEntryComes DEF Just
<1> QED
  BY <1>2, <1>3

LEMMA ViewProfileComes ==
  ASSUME NEW w, Running(w), Top(w.me).node = "view_profile"
  PROVE  Comes(w, ViewProfile(w))
<1>1. "view_profile" \notin Kept
  BY TheFields DEF Kept
<1>2. CASE w.me.wrong
  BY <1>2, IncorrectPinComes DEF ViewProfile
<1>3. CASE ~w.me.wrong
  <2>1. ViewProfile(w) = PinEntry(w)
    BY <1>3 DEF ViewProfile, Running
  <2> QED
    BY <1>1, <2>1, PinEntryComes DEF Just
<1> QED
  BY <1>2, <1>3

LEMMA SetGenderComes ==
  ASSUME NEW w, Running(w), Top(w.me).node = "set_gender"
  PROVE  Comes(w, SetGender(w))
<1> DEFINE in == Top(w.me).input
           v == Save(w, "gender", in)
<1>1. in \in Answer /\ "gender" \in Field /\ "set_gender" \notin Kept
  BY TheTop, TheFields, OfWorlds DEF Running, Ready, OnNode, Kept
<1>2. Running(v) /\ v.me.stored = w.me.stored /\ v.me.path = w.me.path
  BY <1>1, SaveKeeps
<1>3. Top(v.me) = Top(w.me)
  BY <1>2 DEF Top
<1> HIDE DEF v, in
<1>4. Comes(w, v)
  BY <1>2, RunningSettles DEF Comes
<1>5. Comes(v, IncorrectPin(v))
  BY <1>2, IncorrectPinComes
<1>6. Comes(v, Continue(v, "gender", in))
  BY <1>1, <1>2, <1>3, ContinueComes DEF Just
<1>7. SetGender(w) \in {v, IncorrectPin(v), Continue(v, "gender", in)}
  BY <1>2 DEF SetGender, v, in, Running
<1> QED
  BY <1>2, <1>4, <1>5, <1>6, <1>7 DEF Comes

LEMMA EditProfileComes ==
  ASSUME NEW w, Ready(w), OnNode(w)
  PROVE  Comes(w, EditProfile(w))
<1> DEFINE s == [w.me EXCEPT !.allow = FALSE]
           t == [s EXCEPT !.last = None]
<1>1. w \in Worlds /\ w.me \in Row
  BY OfWorlds DEF Ready
<1>2. EditProfile(w) = [w EXCEPT !.me = t]
  BY <1>1 DEF EditProfile, Worlds
<1>3. s \in Row
  BY <1>1, RowTakes
<1>4. s.stored = w.me.stored /\ s.set = w.me.set /\ s.path = w.me.path /\ ~s.allow
      /\ s.failed = w.me.failed
  BY <1>1, <1>3 DEF Row
<1> HIDE DEF s
<1>5. t \in Row
  BY <1>3, RowTakes, Answers
<1>6. t.stored = s.stored /\ t.set = s.set /\ t.path = s.path /\ t.allow = s.allow
      /\ t.failed = s.failed
  BY <1>3, <1>5 DEF Row
<1> HIDE DEF t
<1>7. EditProfile(w) \in Worlds /\ EditProfile(w).me = t
  BY <1>1, <1>2, <1>5, OfWorlds
<1>8. Running(EditProfile(w))
  BY <1>4, <1>6, <1>7 DEF Running, Ready, Flags, Alive, OnNode, Top
<1> QED
  BY <1>4, <1>6, <1>7, <1>8, RunningSettles DEF Comes

\* The target "_", without authorization.
LEMMA ResumeComes ==
  ASSUME NEW w, Ready(w), w.me.path # <<>>, Top(w.me).node # "edit_profile",
         ~w.me.allow, NEW in \in Answer
  PROVE  Comes(w, Resume(w, in))
<1> DEFINE v == Pop(w)
           n == Top(v.me).node
<1>1. Ready(v) /\ OnNode(v)
  BY PopKeeps
<1>2. SameBut(w.me, v.me)
  BY PopIs DEF Ready
<1>3. Running(v) /\ v.me.stored = w.me.stored
  BY <1>1, <1>2 DEF Running, SameBut
<1> HIDE DEF v
<1>4. CASE n \in Field
  <2>1. Resume(w, in) = Prompt(v, n, in)
    BY <1>4, TheFields DEF Resume, v
  <2> QED
    BY <1>3, <1>4, <2>1, PromptComes DEF Comes
<1>5. CASE n = "set_gender"
  <2>1. Resume(w, in) = SetGender(v)
    BY <1>5, TheFields DEF Resume, v
  <2> QED
    BY <1>3, <1>5, <2>1, SetGenderComes DEF Comes
<1>6. CASE n = "update_profile_items"
  <2>1. Resume(w, in) = UpdateProfileItems(v)
    BY <1>6, TheFields DEF Resume, v
  <2> QED
    BY <1>3, <1>6, <2>1, UpdateProfileItemsComes DEF Comes
<1>7. CASE n = "view_profile"
  <2>1. Resume(w, in) = ViewProfile(v)
    BY <1>7, TheFields DEF Resume, v
  <2> QED
    BY <1>3, <1>7, <2>1, ViewProfileComes DEF Comes
<1>8. CASE n \notin Field \cup {"set_gender", "update_profile_items", "view_profile"}
  <2>1. Resume(w, in) = EditProfile(v)
    BY <1>8 DEF Resume, v
  <2> QED
    BY <1>1, <1>3, <2>1, EditProfileComes DEF Comes
<1> QED
  BY <1>4, <1>5, <1>6, <1>7, <1>8

-----------------------------------------------------------------------------
(* Scripts behind the right PIN *)

\* A world whose user has just entered the right PIN.
Trusted(w) == Ready(w) /\ OnNode(w) /\ w.me.allow /\ ~w.me.wrong

\* What is stored then: nothing over an entry, but the temporary value over that
\* of the node n.
Stores(w, v, n) ==
  /\ v.me.stored # w.me.stored => v.me.allow
  /\ \A f \in Kept : w.me.stored[f] # None =>
       \/ v.me.stored[f] = w.me.stored[f]
       \/ v.me.stored[f] = w.me.temp /\ n = f

LEMMA QuietStores ==
  ASSUME NEW w, NEW v, NEW n, v.me.stored = w.me.stored
  PROVE  Stores(w, v, n)
BY DEF Stores

\* insertProfileItems: flags and store change together, for the entries that
\* have a flag of their own.
LEMMA UpdateAllKeeps ==
  ASSUME NEW w, Ready(w)
  PROVE  /\ Ready(UpdateAllProfileItems(w))
         /\ UpdateAllProfileItems(w).me.path = w.me.path
         /\ UpdateAllProfileItems(w).me.allow = w.me.allow
         /\ \A f \in Kept : w.me.stored[f] # None =>
              UpdateAllProfileItems(w).me.stored[f] = w.me.stored[f]
<1> DEFINE v == UpdateAllProfileItems(w)
           fresh == {i \in DOMAIN w.buffer :
                       w.buffer[i] # None /\ FlagOrder[i] \notin w.me.set}
           st == [f \in Field |->
                    IF Index(f) \in fresh THEN w.buffer[Index(f)] ELSE w.me.stored[f]]
           fl == w.me.set \cup {FlagOrder[i] : i \in fresh}
           s == [w.me EXCEPT !.stored = st]
           t == [s EXCEPT !.set = fl]
<1>1. /\ w \in Worlds /\ w.me \in Row /\ w.buffer \in Buffer
      /\ w.me.stored \in [Field -> Answer] /\ w.me.set \in SUBSET Field
  BY OfWorlds, FieldsOfRow DEF Ready
<1>2. fresh \in SUBSET (1 .. 6) /\ \A i \in fresh : w.buffer[i] \in Answer /\ w.buffer[i] # None
  <2>1. w.buffer \in Seq(Answer) /\ Len(w.buffer) \in Nat /\ Len(w.buffer) <= 6
    BY <1>1, TheFields DEF Buffer
  <2> QED
    BY <2>1
<1>3. v = [w EXCEPT !.me = t]
  BY <1>1 DEF UpdateAllProfileItems, Worlds
<1>4. \A i \in fresh : FlagOrder[i] \notin w.me.set
  OBVIOUS
<1> HIDE DEF fresh
<1>5. st \in [Field -> Answer]
  BY <1>1, <1>2
<1>6. fl \in SUBSET Field
  BY <1>1, <1>2, TheFields
<1>7. s \in Row
  BY <1>1, <1>5, RowTakes
<1>8. s.stored = st /\ s.path = w.me.path /\ s.allow = w.me.allow
      /\ s.failed = w.me.failed
  BY <1>1, <1>7 DEF Row
<1>9. \A f \in Kept : f \in Field /\ Index(f) \in 1 .. 6 /\ FlagOrder[Index(f)] = f
  <2> TAKE f \in Kept
  <2>1. f \in Field
    BY DEF Kept
  <2>2. Index(f) \in 1 .. 6 /\ Order[Index(f)] = f
    BY <2>1, TheIndex
  <2>3. FlagOrder[Index(f)] \in Kept
    BY <2>2, SameFlag
  <2> QED
    BY <2>1, <2>2, <2>3, SameFlag
<1>10. \A f \in Kept : w.me.stored[f] # None => st[f] = w.me.stored[f]
  <2> TAKE f \in Kept
  <2>1. f \in Field /\ FlagOrder[Index(f)] = f
    BY <1>9
  <2>2. w.me.stored[f] # None => f \in w.me.set
    BY DEF Ready, Flags
  <2> QED
    BY <1>4, <2>1, <2>2
<1>11. \A f \in Kept : f \in fl <=> st[f] # None
  <2> TAKE f \in Kept
  <2>1. f \in Field /\ Index(f) \in 1 .. 6 /\ FlagOrder[Index(f)] = f
    BY <1>9
  <2>2. f \in w.me.set <=> w.me.stored[f] # None
    BY DEF Ready, Flags
  <2>3. ASSUME NEW i \in fresh, FlagOrder[i] = f
        PROVE  i = Index(f)
    <3>1. i \in 1 .. 6
      BY <1>2
    <3>2. Order[i] = f
      BY <2>3, <3>1, SameFlag
    <3> QED
      BY <2>1, <3>1, <3>2, SameFlag
  <2>4. f \in fl <=> f \in w.me.set \/ Index(f) \in fresh
    BY <2>1, <2>3
  <2>5. CASE Index(f) \in fresh
    BY <1>2, <2>1, <2>4, <2>5
  <2>6. CASE Index(f) \notin fresh
    BY <2>1, <2>2, <2>4, <2>6
  <2> QED
    BY <2>5, <2>6
<1> HIDE DEF s, st, fl
<1>12. t \in Row
  BY <1>6, <1>7, RowTakes
<1>13. t.stored = s.stored /\ t.set = fl /\ t.path = s.path /\ t.allow = s.allow
       /\ t.failed = s.failed
  BY <1>7, <1>12 DEF Row
<1> HIDE DEF t, v
<1>14. v \in Worlds /\ v.me = t
  BY <1>1, <1>3, <1>12, OfWorlds
<1>15. Flags(v.me) /\ Stack(v.me.path) /\ Alive(v.me)
  BY <1>8, <1>11, <1>13, <1>14 DEF Flags, Ready, Alive
<1> QED
  BY <1>8, <1>10, <1>13, <1>14, <1>15 DEF Ready, v

LEMMA SuccessSettles ==
  ASSUME NEW w, Ready(w), OnNode(w), w.me.allow
  PROVE  /\ Settled(Success(w)) /\ Success(w).me.allow
         /\ \A f \in Kept : w.me.stored[f] # None =>
              Success(w).me.stored[f] = w.me.stored[f]
<1> DEFINE v == Push(w, "profile_update_success", None)
           x == UpdateAllProfileItems(v)
           m == "profile_update_success"
<1>1. m \in Node /\ m # "view_profile" /\ m # "pin_entry" /\ None \in Answer
  BY Answers DEF Node
<1>2. Ready(v) /\ v.me.path # <<>> /\ Top(v.me) = [node |-> m, input |-> None]
  BY <1>1, PushKeeps DEF OnNode
<1>3. SameBut(w.me, v.me)
  BY <1>1, PushIs DEF Ready
<1>4. Top(v.me).node = m
  BY <1>2
<1>5. Success(w) = x
  BY DEF Success
<1> HIDE DEF v, m
<1>6. /\ Ready(x) /\ x.me.path = v.me.path /\ x.me.allow = v.me.allow
      /\ \A f \in Kept : v.me.stored[f] # None => x.me.stored[f] = v.me.stored[f]
  BY <1>2, UpdateAllKeeps
<1> HIDE DEF x
<1>7. Top(x.me).node = m
  BY <1>4, <1>6 DEF Top
<1>8. Authorized(x.me) /\ Asked(x.me)
  BY <1>1, <1>7 DEF Authorized, Asked, At, m
<1>9. x.me.allow /\ \A f \in Kept : w.me.stored[f] # None =>
                       x.me.stored[f] = w.me.stored[f]
  BY <1>3, <1>6 DEF SameBut
<1> QED
  BY <1>5, <1>6, <1>8, <1>9 DEF Settled

LEMMA SuccessStores ==
  ASSUME NEW w, Trusted(w), NEW n
  PROVE  Settled(Success(w)) /\ Stores(w, Success(w), n)
BY SuccessSettles DEF Trusted, Stores

LEMMA SaveFails ==
  ASSUME NEW w, Trusted(w), w.me.temp = None, NEW f \in Field, NEW in
  PROVE  Comes(w, Save(w, f, in)) /\ Failed(Save(w, f, in))
<1>1. Save(w, f, in) = Fail(w, "data")
  BY DEF Save, Trusted
<1> QED
  BY <1>1, FailIs DEF Trusted

\* With authorization a save handler ends the session or stores the temporary
\* value under its field.
LEMMA SaveStores ==
  ASSUME NEW w, Trusted(w), w.me.temp # None, NEW f \in Field, NEW in
  PROVE  /\ Trusted(Save(w, f, in)) /\ ~Failed(Save(w, f, in))
         /\ Save(w, f, in).me.temp = w.me.temp
         /\ Save(w, f, in).me.path = w.me.path
         /\ Save(w, f, in).me.stored = [w.me.stored EXCEPT ![f] = w.me.temp]
<1> DEFINE v == Save(w, f, in)
           st == [w.me.stored EXCEPT ![f] = w.me.temp]
           s == [w.me EXCEPT !.stored = st]
           t == [s EXCEPT !.set = w.me.set \cup {f}]
<1>1. w \in Worlds /\ w.me \in Row /\ w.me.allow
  BY OfWorlds DEF Trusted, Ready
<1>2. v = [w EXCEPT !.me = t]
  BY <1>1 DEF Save, Worlds
<1>3. st \in [Field -> Answer] /\ st[f] = w.me.temp
      /\ \A g \in Field \ {f} : st[g] = w.me.stored[g]
  BY <1>1, FieldsOfRow
<1> HIDE DEF st
<1>4. s \in Row
  BY <1>1, <1>3, RowTakes
<1>5. s.stored = st /\ s.set = w.me.set /\ s.path = w.me.path /\ s.allow = w.me.allow
      /\ s.wrong = w.me.wrong /\ s.failed = w.me.failed /\ s.temp = w.me.temp
  BY <1>1, <1>4 DEF Row
<1> HIDE DEF s
<1>6. t \in Row
  <2>1. w.me.set \cup {f} \in SUBSET Field
    BY <1>1, FieldsOfRow
  <2> QED
    BY <1>4, <2>1, RowTakes
<1>7. t.stored = st /\ t.set = w.me.set \cup {f} /\ t.path = w.me.path
      /\ t.allow = w.me.allow /\ t.wrong = w.me.wrong /\ t.failed = w.me.failed
      /\ t.temp = w.me.temp
  BY <1>4, <1>5, <1>6 DEF Row
<1> HIDE DEF t, v
<1>8. v \in Worlds /\ v.me = t
  BY <1>1, <1>2, <1>6, OfWorlds
<1>9. Flags(t)
  BY <1>3, <1>7 DEF Trusted, Ready, Flags, Kept
<1>10. Trusted(v) /\ ~Failed(v)
  BY <1>7, <1>8, <1>9 DEF Trusted, Ready, Alive, OnNode, Top, Failed
<1> QED
  BY <1>7, <1>8, <1>10 DEF v, st

LEMMA UpdateSettles ==
  ASSUME NEW w, Trusted(w), NEW f \in Field
  PROVE  /\ Settled(Update(w, f)) /\ Stores(w, Update(w, f), f)
         /\ w.me.temp # None => Update(w, f).me.allow
<1> DEFINE v == Save(w, f, None)
<1>1. CASE w.me.temp = None
  <2>1. Comes(w, v) /\ Failed(v)
    BY <1>1, SaveFails
  <2>2. Update(w, f) = v
    BY <2>1 DEF Update
  <2> HIDE DEF v
  <2> QED
    BY <1>1, <2>1, <2>2, QuietStores DEF Comes
<1>2. CASE w.me.temp # None
  <2>1. /\ Trusted(v) /\ ~Failed(v)
        /\ v.me.stored = [w.me.stored EXCEPT ![f] = w.me.temp]
    BY <1>2, SaveStores
  <2>2. Update(w, f) = Success(v)
    BY <2>1 DEF Update
  <2> HIDE DEF v
  <2>3. /\ Settled(Success(v)) /\ Success(v).me.allow
        /\ \A g \in Kept : v.me.stored[g] # None =>
             Success(v).me.stored[g] = v.me.stored[g]
    BY <2>1, SuccessSettles DEF Trusted
  <2>4. w.me.stored \in [Field -> Answer]
    BY OfWorlds, FieldsOfRow DEF Trusted, Ready
  <2>5. \A g \in Kept : w.me.stored[g] # None =>
          \/ Success(v).me.stored[g] = w.me.stored[g]
          \/ Success(v).me.stored[g] = w.me.temp /\ f = g
    <3> TAKE g \in Kept
    <3> HAVE w.me.stored[g] # None
    <3>1. g \in Field
      BY DEF Kept
    <3>2. v.me.stored[g] = IF g = f THEN w.me.temp ELSE w.me.stored[g]
      BY <2>1, <2>4, <3>1
    <3> QED
      BY <1>2, <2>3, <3>2
  <2> QED
    BY <2>2, <2>3, <2>5 DEF Stores
<1> QED
  BY <1>1, <1>2

LEMMA TrustedPrompt ==
  ASSUME NEW w, Trusted(w), NEW f \in Field, NEW in
  PROVE  Settled(Prompt(w, f, in)) /\ Stores(w, Prompt(w, f, in), f)
<1>1. Prompt(w, f, in) = IF f = "gender" THEN Success(w) ELSE Update(w, f)
  BY DEF Prompt, Trusted
<1> QED
  BY <1>1, SuccessStores, UpdateSettles

\* The gender is stored twice, by the node of the choice and by the update.
LEMMA TrustedGender ==
  ASSUME NEW w, Trusted(w), NEW n
  PROVE  Settled(SetGender(w)) /\ Stores(w, SetGender(w), n)
<1> DEFINE v == Save(w, "gender", Top(w.me).input)
<1>1. "gender" \in Field /\ "gender" \notin Kept
  BY TheFields DEF Kept
<1>2. CASE w.me.temp = None
  <2>1. Comes(w, v) /\ Failed(v)
    BY <1>1, <1>2, SaveFails
  <2>2. SetGender(w) = v
    BY <2>1 DEF SetGender
  <2> HIDE DEF v
  <2> QED
    BY <2>1, <2>2, QuietStores DEF Comes
<1>3. CASE w.me.temp # None
  <2>1. /\ Trusted(v) /\ ~Failed(v) /\ v.me.temp = w.me.temp
        /\ v.me.stored = [w.me.stored EXCEPT !["gender"] = w.me.temp]
    BY <1>1, <1>3, SaveStores
  <2>2. SetGender(w) = Update(v, "gender")
    BY <2>1 DEF SetGender, Trusted
  <2> HIDE DEF v
  <2>3. /\ Settled(Update(v, "gender")) /\ Stores(v, Update(v, "gender"), "gender")
        /\ Update(v, "gender").me.allow
    BY <1>1, <1>3, <2>1, UpdateSettles
  <2>4. w.me.stored \in [Field -> Answer]
    BY OfWorlds, FieldsOfRow DEF Trusted, Ready
  <2>5. \A g \in Kept : v.me.stored[g] = w.me.stored[g]
    BY <1>1, <2>1, <2>4 DEF Kept
  <2>6. \A g \in Kept : w.me.stored[g] # None =>
          Update(v, "gender").me.stored[g] = w.me.stored[g]
    BY <1>1, <2>3, <2>5 DEF Stores
  <2> QED
    BY <2>2, <2>3, <2>6 DEF Stores
<1> QED
  BY <1>2, <1>3

\* The target "_" behind the right PIN.
LEMMA TrustedResume ==
  ASSUME NEW w, Ready(w), w.me.path # <<>>, Top(w.me).node = "pin_entry",
         w.me.allow, ~w.me.wrong, NEW in
  PROVE  /\ Settled(Resume(w, in))
         /\ Stores(w, Resume(w, in), w.me.path[Len(w.me.path) - 1].node)
<1> DEFINE v == Pop(w)
           n == Top(v.me).node
<1>1. Ready(v) /\ OnNode(v) /\ Top(v.me) = w.me.path[Len(w.me.path) - 1]
  BY PopKeeps
<1>2. SameBut(w.me, v.me)
  BY PopIs DEF Ready
<1>3. Trusted(v)
  BY <1>1, <1>2 DEF Trusted, SameBut
<1> HIDE DEF v
<1>4. CASE n \in Field
  <2>1. Resume(w, in) = Prompt(v, n, in)
    BY <1>4, TheFields DEF Resume, v
  <2> QED
    BY <1>1, <1>2, <1>3, <1>4, <2>1, TrustedPrompt DEF Stores, SameBut
<1>5. CASE n = "set_gender"
  <2>1. Resume(w, in) = SetGender(v)
    BY <1>5, TheFields DEF Resume, v
  <2>2. Settled(SetGender(v)) /\ Stores(v, SetGender(v), n)
    BY <1>3, TrustedGender
  <2> QED
    BY <1>1, <1>2, <2>1, <2>2 DEF Stores, SameBut
<1>6. CASE n = "update_profile_items"
  <2>1. Resume(w, in) = UpdateProfileItems(v)
    BY <1>6, TheFields DEF Resume, v
  <2>2. UpdateProfileItems(v) = Success(v)
    BY <1>3 DEF Trusted, UpdateProfileItems
  <2>3. Settled(Success(v)) /\ Stores(v, Success(v), n)
    BY <1>3, SuccessStores
  <2> QED
    BY <1>1, <1>2, <2>1, <2>2, <2>3 DEF Stores, SameBut
<1>7. CASE n = "view_profile"
  <2>1. Resume(w, in) = v
    BY <1>3, <1>7, TheFields DEF Resume, v, Trusted, ViewProfile
  <2>2. Authorized(v.me) /\ Asked(v.me)
    BY <1>7 DEF Authorized, Asked, At
  <2> QED
    BY <1>1, <1>2, <2>1, <2>2, QuietStores DEF Settled, SameBut
<1>8. CASE n \notin Field \cup {"set_gender", "update_profile_items", "view_profile"}
  <2>1. Resume(w, in) = EditProfile(v)
    BY <1>8 DEF Resume, v
  <2> QED
    BY <1>1, <1>2, <2>1, EditProfileComes, QuietStores DEF Comes, SameBut
<1> QED
  BY <1>4, <1>5, <1>6, <1>7, <1>8

-----------------------------------------------------------------------------
(* The invariant *)

Types ==
  /\ row \in [User -> Row] /\ buffer \in Buffer
  /\ answers \in 0 .. MaxAnswers /\ tries \in 0 .. MaxTries

SoundRow(s) == Flags(s) /\ Stack(s.path) /\ Alive(s) /\ Authorized(s) /\ Asked(s)

Inv == Types /\ \A u \in User : SoundRow(row[u])

LEMMA WorldSettled ==
  ASSUME Inv, NEW u \in User
  PROVE  /\ Settled(World(u)) /\ World(u) \in Worlds
         /\ World(u).me = row[u] /\ World(u).buffer = buffer /\ row[u] \in Row
<1>1. row[u] \in Row /\ buffer \in Buffer /\ SoundRow(row[u])
  BY DEF Inv, Types
<1>2. World(u).me = row[u] /\ World(u).buffer = buffer /\ World(u) \in Worlds
  BY <1>1 DEF World, Worlds
<1> QED
  BY <1>1, <1>2 DEF Settled, Ready, SoundRow

\* What a request of u may make of his row: it is sound, and the store changes
\* only as the properties say.
Proper(u, w) ==
  /\ Settled(w)
  /\ w.me.stored # row[u].stored => At(row[u], "pin_entry") /\ w.me.allow
  /\ \A f \in Kept : row[u].stored[f] # None =>
       \/ w.me.stored[f] = row[u].stored[f]
       \/ w.me.stored[f] = row[u].last /\ row[u].last.for = f

LEMMA ComesProper ==
  ASSUME NEW u \in User, NEW w, NEW v, Comes(w, v), w.me.stored = row[u].stored
  PROVE  Proper(u, v)
BY DEF Comes, Proper

\* A frame of the profile menu starts a stack of its own.
LEMMA StartStacks ==
  ASSUME NEW p \in Seq(Frame), NEW e \in Frame, e.node = "edit_profile",
         \A i \in DOMAIN p : p[i].node \in {"location", "offerings"}
  PROVE  Stack(Append(p, e))
<1> DEFINE q == Append(p, e)
<1>1. /\ Len(p) \in Nat /\ DOMAIN p = 1 .. Len(p) /\ DOMAIN q = 1 .. Len(p) + 1
      /\ (\A i \in 1 .. Len(p) : q[i] = p[i]) /\ q[Len(p) + 1] = e
  BY PushedFrames
<1> HIDE DEF q
<1>2. \A i \in DOMAIN q : q[i].node \in {"location", "offerings", "edit_profile"}
  BY <1>1
<1>3. Len(p) + 1 \in DOMAIN q /\ q[Len(p) + 1].node = "edit_profile"
  BY <1>1
<1> QED
  BY <1>2, <1>3 DEF Stack, q

LEMMA StartComes ==
  ASSUME NEW w \in Worlds, Flags(w.me), w.me.failed = "no",
         \A i \in DOMAIN w.me.path : w.me.path[i].node \in {"location", "offerings"}
  PROVE  Comes(w, EditProfile(Push(w, "edit_profile", None)))
<1> DEFINE v == Push(w, "edit_profile", None)
           e == [node |-> "edit_profile", input |-> None]
<1>1. "edit_profile" \in Node /\ None \in Answer /\ e \in Frame /\ e.node = "edit_profile"
  BY Answers DEF Node, Frame
<1>2. v \in Worlds /\ SameBut(w.me, v.me) /\ v.me.path = Append(w.me.path, e)
  BY <1>1, PushIs
<1> HIDE DEF v, e
<1>3. w.me.path \in Seq(Frame) /\ v.me \in Row
  BY <1>2, OfWorlds, FieldsOfRow
<1>4. Stack(v.me.path)
  BY <1>1, <1>2, <1>3, StartStacks
<1>5. v.me.path # <<>> /\ Top(v.me) = e
  BY <1>1, <1>2, <1>3, PushedFrames, TheTop
<1>6. Ready(v) /\ OnNode(v)
  BY <1>1, <1>2, <1>4, <1>5 DEF Ready, OnNode, Flags, Alive, SameBut
<1>7. Comes(v, EditProfile(v))
  BY <1>6, EditProfileComes
<1> QED
  BY <1>2, <1>7 DEF Comes, SameBut, v

-----------------------------------------------------------------------------
(* Requests *)

LEMMA AtNode ==
  ASSUME Inv, NEW u \in User, NEW n, At(row[u], n), n # "pin_entry",
         n \notin {"profile_update_success", "view_profile"}
  PROVE  Running(World(u)) /\ World(u).me = row[u] /\ Top(World(u).me).node = n
<1>1. Settled(World(u)) /\ World(u).me = row[u]
  BY WorldSettled
<1> QED
  BY <1>1 DEF Settled, Running, OnNode, At, Authorized

LEMMA OpenProfileProper ==
  ASSUME Inv, NEW u \in User, OpenProfile(u)
  PROVE  \E w : Proper(u, w) /\ Become(u, w)
<1> DEFINE a == [World(u).me EXCEPT !.temp = None]
           b == [a EXCEPT !.path = <<>>]
           c == [b EXCEPT !.loaded = {}]
           d == [c EXCEPT !.failed = "no"]
           w == [World(u) EXCEPT !.me.temp = None, !.me.path = <<>>,
                                 !.me.loaded = {}, !.me.failed = "no"]
           v == EditProfile(Push(w, "edit_profile", None))
<1>1. World(u) \in Worlds /\ World(u).me = row[u] /\ row[u] \in Row /\ Flags(row[u])
  BY WorldSettled DEF Settled, Ready
<1>2. w = [World(u) EXCEPT !.me = d]
  BY <1>1 DEF Worlds
<1>3. a \in Row
  BY <1>1, RowTakes, Answers
<1>4. a.stored = row[u].stored /\ a.set = row[u].set
  BY <1>1, <1>3 DEF Row
<1> HIDE DEF a
<1>5. b \in Row
  <2>1. <<>> \in Seq(Frame)
    OBVIOUS
  <2> QED
    BY <1>3, <2>1, RowTakes
<1>6. b.stored = a.stored /\ b.set = a.set /\ b.path = <<>>
  BY <1>3, <1>5 DEF Row
<1> HIDE DEF b
<1>7. c \in Row
  <2>1. {} \in SUBSET {"location", "offerings"}
    OBVIOUS
  <2> QED
    BY <1>5, <2>1, RowTakes
<1>8. c.stored = b.stored /\ c.set = b.set /\ c.path = <<>>
  BY <1>5, <1>6, <1>7 DEF Row
<1> HIDE DEF c
<1>9. d \in Row
  BY <1>7, RowTakes
<1>10. d.stored = c.stored /\ d.set = c.set /\ d.path = <<>> /\ d.failed = "no"
  BY <1>7, <1>8, <1>9 DEF Row
<1> HIDE DEF d
<1>11. Become(u, v)
  BY DEF OpenProfile
<1> HIDE DEF w
<1>12. w \in Worlds /\ w.me = d
  BY <1>1, <1>2, <1>9, OfWorlds
<1>13. /\ Flags(w.me)
       /\ \A i \in DOMAIN w.me.path : w.me.path[i].node \in {"location", "offerings"}
  BY <1>1, <1>4, <1>6, <1>8, <1>10, <1>12 DEF Flags
<1>14. Comes(w, v)
  BY <1>10, <1>12, <1>13, StartComes
<1>15. w.me.stored = row[u].stored
  BY <1>4, <1>6, <1>8, <1>10, <1>12
<1> HIDE DEF v
<1>16. Proper(u, v)
  BY <1>14, <1>15, ComesProper
<1> QED
  BY <1>11, <1>16

LEMMA ChooseFieldProper ==
  ASSUME Inv, NEW u \in User, NEW f \in Field, ChooseField(u, f)
  PROVE  \E w : Proper(u, w) /\ Become(u, w)
<1>1. At(row[u], "edit_profile") /\ Become(u, Open(World(u), f, Choice(u)))
  BY DEF ChooseField
<1>2. Running(World(u)) /\ World(u).me = row[u]
  BY <1>1, AtNode
<1>3. Comes(World(u), Open(World(u), f, Choice(u)))
  BY <1>2, OpenComes, Answers
<1>4. Proper(u, Open(World(u), f, Choice(u)))
  BY <1>2, <1>3, ComesProper
<1> QED
  BY <1>1, <1>4

LEMMA ChooseViewProper ==
  ASSUME Inv, NEW u \in User, ChooseView(u)
  PROVE  \E w : Proper(u, w) /\ Become(u, w)
<1> DEFINE v == Push(World(u), "view_profile", None)
           s == [v.me EXCEPT !.wrong = FALSE]
           x == [v EXCEPT !.me.wrong = FALSE]
<1>1. At(row[u], "edit_profile")
  BY DEF ChooseView
<1>2. Running(World(u)) /\ World(u).me = row[u] /\ Top(World(u).me).node = "edit_profile"
  BY <1>1, AtNode
<1>3. Become(u, Fail(World(u), "year")) \/ Become(u, ViewProfile(x))
  BY DEF ChooseView
<1>4. Comes(World(u), Fail(World(u), "year"))
  BY <1>2, FailIs DEF Running
<1>5. "view_profile" \in Node /\ None \in Answer
  BY Answers DEF Node
<1>6. /\ Ready(v) /\ v.me.path # <<>>
      /\ Top(v.me) = [node |-> "view_profile", input |-> None]
  <2>1. Ready(World(u)) /\ World(u).me.path # <<>> /\ Top(World(u).me).node # "pin_entry"
    BY <1>2 DEF Running, OnNode
  <2> QED
    BY <1>2, <1>5, <2>1, PushKeeps
<1>7. SameBut(row[u], v.me)
  BY <1>2, <1>5, PushIs DEF Running, Ready
<1>8. Top(v.me).node = "view_profile"
  BY <1>6
<1> HIDE DEF v
<1>9. v \in Worlds /\ v.me \in Row
  BY <1>6, OfWorlds DEF Ready
<1>10. x = [v EXCEPT !.me = s]
  BY <1>9 DEF Worlds
<1>11. s \in Row
  BY <1>9, RowTakes
<1>12. s.stored = v.me.stored /\ s.set = v.me.set /\ s.path = v.me.path
       /\ s.allow = v.me.allow /\ s.failed = v.me.failed
  BY <1>9, <1>11 DEF Row
<1> HIDE DEF s
<1> HIDE DEF x
<1>13. x \in Worlds /\ x.me = s
  BY <1>9, <1>10, <1>11, OfWorlds
<1>14. Running(x) /\ Top(x.me).node = "view_profile"
  BY <1>2, <1>6, <1>7, <1>8, <1>12, <1>13
  DEF Running, Ready, Flags, Alive, OnNode, Top, SameBut
<1>15. Comes(x, ViewProfile(x)) /\ x.me.stored = row[u].stored
  BY <1>7, <1>12, <1>13, <1>14, ViewProfileComes DEF SameBut
<1>16. Proper(u, Fail(World(u), "year")) /\ Proper(u, ViewProfile(x))
  BY <1>2, <1>4, <1>15, ComesProper
<1> QED
  BY <1>3, <1>16

\* The row of u with v as his last answer.
LEMMA AnsweringRuns ==
  ASSUME Inv, NEW u \in User, NEW n \in Field, At(row[u], n), NEW v \in Answer
  PROVE  /\ Running(Answering(u, v)) /\ Top(Answering(u, v).me).node = n
         /\ Answering(u, v).me.stored = row[u].stored
         /\ Answering(u, v).me.last = v
<1> DEFINE s == [row[u] EXCEPT !.last = v]
           w == Answering(u, v)
<1>1. n # "pin_entry" /\ n \notin {"profile_update_success", "view_profile"}
  BY TheFields
<1>2. Running(World(u)) /\ World(u).me = row[u] /\ Top(World(u).me).node = n
  BY <1>1, AtNode
<1>3. World(u) \in Worlds /\ row[u] \in Row
  BY WorldSettled
<1>4. w = [World(u) EXCEPT !.me = s]
  BY <1>2, <1>3 DEF Answering, Worlds
<1> HIDE DEF w
<1>5. s \in Row
  BY <1>3, RowTakes
<1>6. s.stored = row[u].stored /\ s.set = row[u].set /\ s.path = row[u].path
      /\ s.allow = row[u].allow /\ s.failed = row[u].failed /\ s.last = v
  BY <1>3, <1>5 DEF Row
<1> HIDE DEF s
<1>7. w \in Worlds /\ w.me = s
  BY <1>3, <1>4, <1>5, OfWorlds
<1>8. Running(w) /\ Top(w.me).node = n
  BY <1>2, <1>6, <1>7 DEF Running, Ready, Flags, Alive, OnNode, Top
<1> QED
  BY <1>6, <1>7, <1>8 DEF w

LEMMA AnswerTextProper ==
  ASSUME Inv, NEW u \in User, NEW f \in Field, NEW t \in Text, AnswerText(u, f, t)
  PROVE  \E w : Proper(u, w) /\ Answered(u, w)
<1> DEFINE v == Typed(u, f, t)
           a == Answering(u, v)
           w == Save(a, f, v)
           p == Push(w, "update_profile_items", None)
<1>1. At(row[u], f)
  BY DEF AnswerText
<1>2. v \in Answer /\ v.for = f
  BY Answers DEF Typed
<1>3. Answered(u, UpdateProfileItems(p)) \/ Answered(u, Continue(w, f, v))
  BY DEF AnswerText
<1> HIDE DEF v
<1>4. Running(a) /\ Top(a.me).node = f /\ a.me.stored = row[u].stored /\ a.me.last = v
  BY <1>1, <1>2, AnsweringRuns
<1> HIDE DEF a
<1>5. /\ Running(w) /\ w.me.stored = a.me.stored /\ w.me.set = a.me.set
      /\ w.me.last = a.me.last /\ w.me.path = a.me.path
      /\ f \in a.me.set => w.me.temp = v
  BY <1>2, <1>4, SaveKeeps
<1> HIDE DEF w
<1>6. Top(w.me).node = f
  BY <1>4, <1>5 DEF Top
<1>7. Just(w.me, f)
  BY <1>2, <1>4, <1>5 DEF Just, Running, Ready, Flags
<1>8. Comes(w, Continue(w, f, v))
  BY <1>2, <1>5, <1>6, <1>7, ContinueComes
<1>9. Comes(p, UpdateProfileItems(p)) /\ p.me.stored = w.me.stored
  <2>1. "update_profile_items" \in Node \ {"view_profile"} /\ None \in Answer
    BY Answers DEF Node
  <2>2. /\ Ready(p) /\ p.me.path # <<>> /\ Top(p.me).node = "update_profile_items"
        /\ SameBut(w.me, p.me)
    BY <1>5, <2>1, PushOn
  <2> HIDE DEF p
  <2>3. Running(p)
    BY <1>5, <2>2 DEF Running, OnNode, SameBut
  <2> QED
    BY <2>2, <2>3, UpdateProfileItemsComes DEF SameBut
<1> HIDE DEF p
<1>10. Proper(u, Continue(w, f, v)) /\ Proper(u, UpdateProfileItems(p))
  BY <1>4, <1>5, <1>8, <1>9, ComesProper
<1> QED
  BY <1>3, <1>10

LEMMA AnswerGenderProper ==
  ASSUME Inv, NEW u \in User, NEW t \in Text, AnswerGender(u, t)
  PROVE  \E w : Proper(u, w) /\ Answered(u, w)
<1> DEFINE v == Typed(u, "gender", t)
           a == Answering(u, v)
           p == Push(a, "set_gender", v)
<1>1. At(row[u], "gender") /\ Answered(u, SetGender(p))
  BY DEF AnswerGender
<1>2. "gender" \in Field /\ "set_gender" \in Node \ {"view_profile"}
  BY TheFields DEF Node
<1>3. v \in Answer
  BY <1>2, Answers
<1> HIDE DEF v
<1>4. Running(a) /\ a.me.stored = row[u].stored
  BY <1>1, <1>2, <1>3, AnsweringRuns
<1> HIDE DEF a
<1>5. /\ Ready(p) /\ p.me.path # <<>> /\ Top(p.me).node = "set_gender"
      /\ SameBut(a.me, p.me)
  BY <1>2, <1>3, <1>4, PushOn
<1> HIDE DEF p
<1>6. Running(p) /\ p.me.stored = row[u].stored
  BY <1>4, <1>5 DEF Running, OnNode, SameBut
<1>7. Proper(u, SetGender(p))
  BY <1>5, <1>6, SetGenderComes, ComesProper
<1> QED
  BY <1>1, <1>7

LEMMA AnswerBadYearProper ==
  ASSUME Inv, NEW u \in User, AnswerBadYear(u)
  PROVE  \E w : Proper(u, w) /\ Become(u, w)
<1> DEFINE p == Push(World(u), "incorrect_date_format", None)
<1>1. At(row[u], "yob") /\ Become(u, p)
  BY DEF AnswerBadYear
<1>2. Running(World(u)) /\ World(u).me = row[u]
  BY <1>1, AtNode
<1>3. "incorrect_date_format" \in Node \ {"view_profile"} /\ None \in Answer
  BY Answers DEF Node
<1>4. /\ Ready(p) /\ p.me.path # <<>> /\ Top(p.me).node = "incorrect_date_format"
      /\ SameBut(World(u).me, p.me)
  BY <1>2, <1>3, PushOn
<1> HIDE DEF p
<1>5. Running(p) /\ p.me.stored = row[u].stored
  BY <1>2, <1>4 DEF Running, OnNode, SameBut
<1>6. Proper(u, p)
  BY <1>5, RunningSettles, ComesProper DEF Comes
<1> QED
  BY <1>1, <1>6

LEMMA BackProper ==
  ASSUME Inv, NEW u \in User, Back(u)
  PROVE  \E w : Proper(u, w) /\ Become(u, w)
<1> DEFINE w == World(u)
           v == Resume(w, Choice(u))
<1>1. /\ Settled(w) /\ w.me = row[u] /\ Become(u, v) /\ Choice(u) \in Answer
  BY WorldSettled, Answers DEF Back
<1>2. PICK n \in Field \cup {"view_profile", "incorrect_pin", "incorrect_date_format"} :
        At(row[u], n)
  BY DEF Back
<1>3. w.me.path # <<>> /\ Top(w.me).node = n /\ n # "edit_profile"
  BY <1>1, <1>2, TheFields DEF At
<1> HIDE DEF w
<1>4. CASE ~w.me.allow
  <2>1. Comes(w, v)
    BY <1>1, <1>3, <1>4, ResumeComes DEF Settled
  <2> QED
    BY <1>1, <2>1, ComesProper
<1>5. CASE w.me.allow
  <2>1. n = "view_profile"
    BY <1>1, <1>2, <1>3, <1>5, TheFields DEF Settled, Authorized
  <2>2. /\ Ready(Pop(w)) /\ OnNode(Pop(w))
        /\ Top(Pop(w).me).node = "edit_profile"
    BY <1>1, <1>3, <2>1, PopKeeps DEF Settled
  <2>3. SameBut(w.me, Pop(w).me)
    BY <1>1, <1>3, PopIs DEF Settled, Ready
  <2>4. v = EditProfile(Pop(w))
    BY <2>2, TheFields DEF Resume
  <2>5. Comes(Pop(w), v)
    BY <2>2, <2>4, EditProfileComes
  <2> QED
    BY <1>1, <2>3, <2>5, ComesProper DEF SameBut
<1> QED
  BY <1>4, <1>5

\* The row of u once the PIN that he entered was looked at.
Looked(u, a, r) == [World(u) EXCEPT !.me.allow = a, !.me.wrong = r]

LEMMA PinLooked ==
  ASSUME Inv, NEW u \in User, At(row[u], "pin_entry"),
         NEW a \in BOOLEAN, NEW r \in BOOLEAN
  PROVE  /\ Ready(Looked(u, a, r)) /\ Looked(u, a, r).me.path = row[u].path
         /\ Looked(u, a, r).me.path # <<>>
         /\ Top(Looked(u, a, r).me).node = "pin_entry"
         /\ Looked(u, a, r).me.allow = a /\ Looked(u, a, r).me.wrong = r
         /\ Looked(u, a, r).me.stored = row[u].stored
         /\ Looked(u, a, r).me.temp = row[u].temp
<1> DEFINE q == [row[u] EXCEPT !.allow = a]
           s == [q EXCEPT !.wrong = r]
           w == Looked(u, a, r)
<1>1. World(u) \in Worlds /\ World(u).me = row[u] /\ row[u] \in Row /\ Ready(World(u))
  BY WorldSettled DEF Settled
<1>2. q \in Row
  BY <1>1, RowTakes
<1>3. q.stored = row[u].stored /\ q.set = row[u].set /\ q.path = row[u].path
      /\ q.allow = a /\ q.failed = row[u].failed /\ q.temp = row[u].temp
  BY <1>1, <1>2 DEF Row
<1>4. w = [World(u) EXCEPT !.me = s]
  BY <1>1 DEF Worlds, Looked
<1> HIDE DEF q, w
<1>5. s \in Row
  BY <1>2, RowTakes
<1>6. s.stored = row[u].stored /\ s.set = row[u].set /\ s.path = row[u].path
      /\ s.allow = a /\ s.wrong = r /\ s.failed = row[u].failed /\ s.temp = row[u].temp
  BY <1>2, <1>3, <1>5 DEF Row
<1> HIDE DEF s
<1>7. w \in Worlds /\ w.me = s
  BY <1>1, <1>4, <1>5, OfWorlds
<1>8. Ready(w)
  BY <1>1, <1>6, <1>7 DEF Ready, Flags, Alive
<1> QED
  BY <1>6, <1>7, <1>8 DEF At, Top, w

LEMMA RightPinProper ==
  ASSUME Inv, NEW u \in User, RightPin(u)
  PROVE  \E w : Proper(u, w) /\ Become(u, w)
<1> DEFINE w == Looked(u, TRUE, FALSE)
           v == Resume(w, Choice(u))
           n == row[u].path[Len(row[u].path) - 1].node
<1>1. At(row[u], "pin_entry") /\ Become(u, v)
  BY DEF RightPin, Looked
<1>2. /\ Ready(w) /\ w.me.path = row[u].path /\ w.me.path # <<>>
      /\ Top(w.me).node = "pin_entry" /\ w.me.allow /\ ~w.me.wrong
      /\ w.me.stored = row[u].stored /\ w.me.temp = row[u].temp
  BY <1>1, PinLooked
<1> HIDE DEF w
<1>3. Settled(v) /\ Stores(w, v, n)
  BY <1>2, TrustedResume
<1>4. Just(row[u], n)
  BY <1>1 DEF Inv, SoundRow, Asked
<1> HIDE DEF v, n
<1>5. Proper(u, v)
  BY <1>1, <1>2, <1>3, <1>4 DEF Proper, Stores, Just
<1> QED
  BY <1>1, <1>5

\* Any other input at the prompt for the PIN takes the authorization away.
LEMMA OtherPinProper ==
  ASSUME Inv, NEW u \in User, At(row[u], "pin_entry"), NEW r \in BOOLEAN
  PROVE  Proper(u, Resume(Looked(u, FALSE, r), Choice(u)))
<1> DEFINE w == Looked(u, FALSE, r)
<1>1. /\ Ready(w) /\ w.me.path # <<>> /\ Top(w.me).node = "pin_entry"
      /\ ~w.me.allow /\ w.me.stored = row[u].stored
  BY PinLooked
<1>2. Choice(u) \in Answer
  BY Answers
<1> HIDE DEF w
<1>3. Comes(w, Resume(w, Choice(u)))
  BY <1>1, <1>2, ResumeComes
<1> QED
  BY <1>1, <1>3, ComesProper DEF w

LEMMA WrongPinProper ==
  ASSUME Inv, NEW u \in User, WrongPin(u)
  PROVE  \E w : Proper(u, w) /\ Change(u, w)
<1>1. At(row[u], "pin_entry") /\ Change(u, Resume(Looked(u, FALSE, TRUE), Choice(u)))
  BY DEF WrongPin, Looked
<1> QED
  BY <1>1, OtherPinProper

LEMMA NoPinProper ==
  ASSUME Inv, NEW u \in User, NoPin(u)
  PROVE  \E w : Proper(u, w) /\ Become(u, w)
<1> DEFINE x == [World(u) EXCEPT !.me.allow = FALSE]
           q == [row[u] EXCEPT !.allow = FALSE]
<1>1. At(row[u], "pin_entry") /\ Become(u, Resume(x, Choice(u)))
  BY DEF NoPin
<1>2. World(u) \in Worlds /\ World(u).me = row[u] /\ row[u] \in Row
  BY WorldSettled
<1>3. q \in Row /\ q.wrong = row[u].wrong /\ row[u].wrong \in BOOLEAN
  <2>1. q \in Row
    BY <1>2, RowTakes
  <2> QED
    BY <1>2, <2>1 DEF Row
<1>4. q = [q EXCEPT !.wrong = row[u].wrong]
  BY <1>3 DEF Row
<1>5. x = [World(u) EXCEPT !.me = q]
  BY <1>2 DEF Worlds
<1>6. Looked(u, FALSE, row[u].wrong) = [World(u) EXCEPT !.me = [q EXCEPT !.wrong = row[u].wrong]]
  BY <1>2 DEF Worlds, Looked
<1>7. x = Looked(u, FALSE, row[u].wrong)
  BY <1>4, <1>5, <1>6
<1> QED
  BY <1>1, <1>3, <1>7, OtherPinProper

LEMMA CachedFrames ==
  ASSUME NEW s \in Row
  PROVE  /\ Cached(s) \in Seq(Frame)
         /\ \A i \in DOMAIN Cached(s) : Cached(s)[i].node \in {"location", "offerings"}
<1> DEFINE E == [node : {"location", "offerings"}, input : {None}]
<1>1. ASSUME NEW f \in {"location", "offerings"}
      PROVE  FrameOf(s, f) \in Seq(E)
  <2> DEFINE e == [node |-> f, input |-> None]
  <2>1. e \in E
    OBVIOUS
  <2> HIDE DEF E
  <2>2. FrameOf(s, f) \in {<<e>>, <<>>}
    BY DEF FrameOf
  <2> HIDE DEF e
  <2>3. <<e>> \in Seq(E) /\ <<>> \in Seq(E)
    BY <2>1
  <2> QED
    BY <2>2, <2>3
<1>2. FrameOf(s, "location") \in Seq(E) /\ FrameOf(s, "offerings") \in Seq(E)
  BY <1>1
<1>3. Cached(s) \in Seq(E)
  BY <1>2 DEF Cached
<1>4. E \in SUBSET Frame
  BY TheFields, Answers DEF Frame, Node
<1>5. \A e \in E : e.node \in {"location", "offerings"}
  OBVIOUS
<1> HIDE DEF E
<1> QED
  BY <1>3, <1>4, <1>5

LEMMA BackToProfileProper ==
  ASSUME Inv, NEW u \in User, BackToProfile(u)
  PROVE  \E w : Proper(u, w) /\ Become(u, w)
<1> DEFINE s == [row[u] EXCEPT !.path = Cached(row[u])]
           x == [World(u) EXCEPT !.me.path = Cached(row[u])]
           v == EditProfile(Push(x, "edit_profile", None))
<1>1. At(row[u], "profile_update_success") /\ Become(u, v)
  BY DEF BackToProfile
<1>2. World(u) \in Worlds /\ World(u).me = row[u] /\ row[u] \in Row /\ Ready(World(u))
  BY WorldSettled DEF Settled
<1>3. x = [World(u) EXCEPT !.me = s]
  BY <1>2 DEF Worlds
<1>4. s \in Row
  BY <1>2, CachedFrames, RowTakes
<1>5. s.stored = row[u].stored /\ s.set = row[u].set /\ s.path = Cached(row[u])
      /\ s.failed = row[u].failed
  BY <1>2, <1>4 DEF Row
<1> HIDE DEF s, x
<1>6. x \in Worlds /\ x.me = s
  BY <1>2, <1>3, <1>4, OfWorlds
<1>7. x.me.failed = "no" /\ Flags(x.me)
  BY <1>1, <1>2, <1>5, <1>6 DEF Ready, Alive, Flags, At
<1>8. Comes(x, v)
  BY <1>2, <1>5, <1>6, <1>7, CachedFrames, StartComes
<1>9. Proper(u, v)
  BY <1>5, <1>6, <1>8, ComesProper
<1> QED
  BY <1>1, <1>9

-----------------------------------------------------------------------------
(* Steps *)

\* One user's row changed, and properly.
Changed(u) ==
  /\ \E w : Proper(u, w) /\ Change(u, w)
  /\ answers' \in 0 .. MaxAnswers /\ tries' \in 0 .. MaxTries

LEMMA BecomeChanges ==
  ASSUME Inv, NEW u \in User, \E w : Proper(u, w) /\ Become(u, w)
  PROVE  Changed(u)
BY DEF Changed, Become, Inv, Types

LEMMA AnsweredChanges ==
  ASSUME Inv, NEW u \in User, \E w : Proper(u, w) /\ Answered(u, w)
  PROVE  Changed(u)
<1>1. answers' \in 0 .. MaxAnswers /\ tries' \in 0 .. MaxTries
  BY BoundsAssumption DEF Answered, Inv, Types
<1> QED
  BY <1>1 DEF Changed, Answered

LEMMA NextChanges ==
  ASSUME Inv, Next
  PROVE  \E u \in User : Changed(u)
<1>1. PICK u \in User :
        \/ OpenProfile(u)
        \/ \E f \in Field : ChooseField(u, f)
        \/ ChooseView(u)
        \/ \E f \in Field, t \in Text : AnswerText(u, f, t)
        \/ \E t \in Text : AnswerGender(u, t)
        \/ AnswerBadYear(u)
        \/ Back(u)
        \/ RightPin(u)
        \/ WrongPin(u)
        \/ NoPin(u)
        \/ BackToProfile(u)
  BY DEF Next
<1>2. CASE OpenProfile(u)
  BY <1>2, OpenProfileProper, BecomeChanges
<1>3. CASE \E f \in Field : ChooseField(u, f)
  BY <1>3, ChooseFieldProper, BecomeChanges
<1>4. CASE ChooseView(u)
  BY <1>4, ChooseViewProper, BecomeChanges
<1>5. CASE \E f \in Field, t \in Text : AnswerText(u, f, t)
  BY <1>5, AnswerTextProper, AnsweredChanges
<1>6. CASE \E t \in Text : AnswerGender(u, t)
  BY <1>6, AnswerGenderProper, AnsweredChanges
<1>7. CASE AnswerBadYear(u)
  BY <1>7, AnswerBadYearProper, BecomeChanges
<1>8. CASE Back(u)
  BY <1>8, BackProper, BecomeChanges
<1>9. CASE RightPin(u)
  BY <1>9, RightPinProper, BecomeChanges
<1>10. CASE WrongPin(u)
  <2>1. answers' \in 0 .. MaxAnswers /\ tries' \in 0 .. MaxTries
    BY <1>10, BoundsAssumption DEF WrongPin, Inv, Types
  <2> QED
    BY <1>10, <2>1, WrongPinProper DEF Changed
<1>11. CASE NoPin(u)
  BY <1>11, NoPinProper, BecomeChanges
<1>12. CASE BackToProfile(u)
  BY <1>12, BackToProfileProper, BecomeChanges
<1> QED
  BY <1>1, <1>2, <1>3, <1>4, <1>5, <1>6, <1>7, <1>8, <1>9, <1>10, <1>11, <1>12

LEMMA ChangedRow ==
  ASSUME Inv, NEW u \in User, NEW w, Settled(w), Change(u, w)
  PROVE  /\ row'[u] = w.me /\ \A o \in User \ {u} : row'[o] = row[o]
         /\ row' \in [User -> Row] /\ buffer' \in Buffer
         /\ \A o \in User : SoundRow(row'[o])
<1>1. w.me \in Row /\ w.buffer \in Buffer /\ SoundRow(w.me)
  BY OfWorlds DEF Settled, Ready, SoundRow
<1>2. row \in [User -> Row] /\ row' = [row EXCEPT ![u] = w.me] /\ buffer' = w.buffer
  BY DEF Change, Inv, Types
<1>3. row'[u] = w.me /\ (\A o \in User \ {u} : row'[o] = row[o]) /\ row' \in [User -> Row]
  BY <1>1, <1>2
<1>4. ASSUME NEW o \in User
      PROVE  SoundRow(row'[o])
  <2>1. CASE o = u
    BY <1>1, <1>3, <2>1
  <2>2. CASE o # u
    <3>1. row'[o] = row[o] /\ SoundRow(row[o])
      BY <1>3, <2>2 DEF Inv
    <3> QED
      BY <3>1
  <2> QED
    BY <2>1, <2>2
<1> QED
  BY <1>1, <1>2, <1>3, <1>4

LEMMA ChangedKeepsInv ==
  ASSUME Inv, NEW u \in User, Changed(u)
  PROVE  Inv'
<1>1. PICK w : Proper(u, w) /\ Change(u, w)
  BY DEF Changed
<1>2. /\ row' \in [User -> Row] /\ buffer' \in Buffer
      /\ \A o \in User : SoundRow(row'[o])
  BY <1>1, ChangedRow DEF Proper
<1>3. answers' \in 0 .. MaxAnswers /\ tries' \in 0 .. MaxTries
  BY DEF Changed
<1> QED
  BY <1>2, <1>3 DEF Inv, Types

LEMMA InitInv ==
  ASSUME Init
  PROVE  Inv
<1> DEFINE s == [stored |-> [f \in Field |-> None], temp |-> None, set |-> {},
                 allow |-> FALSE, wrong |-> FALSE, path |-> <<>>, loaded |-> {},
                 last |-> None, failed |-> "no"]
<1>1. row = [u \in User |-> s] /\ buffer = <<>> /\ answers = 0 /\ tries = 0
  BY DEF Init
<1>2. [f \in Field |-> None] \in [Field -> Answer] /\ <<>> \in Seq(Frame)
  BY Answers
<1>3. s \in Row
  BY <1>2, Answers DEF Row
<1>4. \A f \in Kept : s.stored[f] = None
  BY DEF Kept
<1>5. SoundRow(s)
  BY <1>4 DEF SoundRow, Flags, Stack, Alive, Authorized, Asked, At
<1>6. buffer \in Buffer
  BY <1>1, TheFields DEF Buffer
<1> HIDE DEF s
<1>7. Types
  BY <1>1, <1>3, <1>6, BoundsAssumption DEF Types
<1> QED
  BY <1>1, <1>5, <1>7 DEF Inv

LEMMA NextKeepsInv ==
  ASSUME Inv, [Next]_vars
  PROVE  Inv'
<1>1. CASE Next
  BY <1>1, NextChanges, ChangedKeepsInv
<1>2. CASE UNCHANGED vars
  BY <1>2 DEF vars, Inv, Types
<1> QED
  BY <1>1, <1>2

LEMMA InvAlways == Spec => []Inv
<1>1. Init => Inv
  BY InitInv
<1>2. Inv /\ [Next]_vars => Inv'
  BY NextKeepsInv
<1> QED
  BY <1>1, <1>2, PTL DEF Spec

-----------------------------------------------------------------------------
(* Theorems *)

\* Rows, buffer and counters stay in their types; the buffer, which no handler
\* empties, never outgrows the six entries, whatever is answered in any order.
THEOREM TypeCorrect == Spec => []TypeOK
<1>1. Inv => TypeOK
  BY DEF Inv, Types, TypeOK, Buffer
<1> QED
  BY <1>1, InvAlways, PTL

\* The entries with a flag of their own that claim a value have one in the
\* store, whoever filled or cut the buffer in between.
THEOREM FlaggedAlwaysStored == Spec => []FlaggedIsStored
<1>1. Inv => FlaggedIsStored
  <2> SUFFICES ASSUME Inv, NEW u \in User, NEW f \in row[u].set \ {"gender", "yob"}
               PROVE  row[u].stored[f] # None
    BY DEF FlaggedIsStored
  <2>1. row[u] \in Row /\ Flags(row[u])
    BY DEF Inv, Types, SoundRow
  <2>2. f \in Kept
    BY <2>1, FieldsOfRow DEF Kept
  <2> QED
    BY <2>1, <2>2 DEF Flags
<1> QED
  BY <1>1, InvAlways, PTL

\* A profile changes in a request that entered the right PIN for it only.
THEOREM AlwaysStoredByPin == Spec => StoredOnlyByPin
<1>1. ASSUME Inv, [Next]_vars, NEW u \in User, row'[u].stored # row[u].stored
      PROVE  At(row[u], "pin_entry") /\ row'[u].allow
  <2>1. Next
    BY <1>1 DEF vars
  <2>2. PICK o \in User : Changed(o)
    BY <1>1, <2>1, NextChanges
  <2>3. PICK w : Proper(o, w) /\ Change(o, w)
    BY <2>2 DEF Changed
  <2>4. row'[o] = w.me /\ \A p \in User \ {o} : row'[p] = row[p]
    BY <1>1, <2>3, ChangedRow DEF Proper
  <2>5. u = o
    BY <1>1, <2>4
  <2> QED
    BY <1>1, <2>3, <2>4, <2>5 DEF Proper
<1>2. Inv /\ [Next]_vars =>
        [\A u \in User : row'[u].stored # row[u].stored
           => At(row[u], "pin_entry") /\ row'[u].allow]_vars
  BY <1>1
<1> QED
  BY <1>2, InvAlways, PTL DEF Spec, StoredOnlyByPin

\* What replaces an entry with a flag of its own is the last answer of its
\* owner, to its own prompt.
THEOREM AlwaysReplacedByLastAnswer == Spec => ReplacedByLastAnswer
<1>1. ASSUME Inv, [Next]_vars, NEW u \in User, NEW f \in Field \ {"gender", "yob"},
             row[u].stored[f] # None, row'[u].stored[f] # row[u].stored[f]
      PROVE  row'[u].stored[f] = row[u].last /\ row[u].last.for = f
  <2>1. Next
    BY <1>1 DEF vars
  <2>2. PICK o \in User : Changed(o)
    BY <1>1, <2>1, NextChanges
  <2>3. PICK w : Proper(o, w) /\ Change(o, w)
    BY <2>2 DEF Changed
  <2>4. row'[o] = w.me /\ \A p \in User \ {o} : row'[p] = row[p]
    BY <1>1, <2>3, ChangedRow DEF Proper
  <2>5. u = o /\ f \in Kept
    BY <1>1, <2>4 DEF Kept
  <2> QED
    BY <1>1, <2>3, <2>4, <2>5 DEF Proper
<1>2. Inv /\ [Next]_vars =>
        [\A u \in User, f \in Field \ {"gender", "yob"} :
           row[u].stored[f] # None /\ row'[u].stored[f] # row[u].stored[f]
             => row'[u].stored[f] = row[u].last /\ row[u].last.for = f]_vars
  BY <1>1
<1> QED
  BY <1>2, InvAlways, PTL DEF Spec, ReplacedByLastAnswer
=============================================================================
