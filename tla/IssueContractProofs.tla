------------------------ MODULE IssueContractProofs -------------------------
(***************************************************************************)
(* Theorems about IssueContract, for bodies of any length, any number of   *)
(* proposals in a row and every kind of issue.                             *)
(***************************************************************************)
EXTENDS IssueContract, InductionLemmas, FiniteSetTheorems

-----------------------------------------------------------------------------
(* The operators of IssueContract.                                         *)

(* A body; what is empty has no words, a placeholder has its own.          *)
Worded(h) ==
    /\ h.content = "empty" => h.words = {}
    /\ h.content = "unresolved" => "contract" \in h.words

IsBody(b) == b \in Seq(Section) /\ \A i \in 1 .. Len(b) : Worded(b[i])

(* Every known section is on level 2.                                      *)
Flat(b) == \A i \in 1 .. Len(b) : b[i].level # 2 => b[i].key = "other"

(* What a person has written, that is not the placeholder.                 *)
Said(h) == IF h.content = "unresolved" THEN {} ELSE h.words

SaidBelow(b, i) == Said(b[i]) \cup UNION {b[j].heading \cup Said(b[j]) : j \in Group(b, i) \ {i}}

LEMMA SectionFields ==
    ASSUME NEW h \in Section
    PROVE  /\ h.key \in Known \cup {"other"} /\ h.level \in 1 .. 6 /\ h.heading \subseteq Words
           /\ h.words \subseteq Words /\ h.content \in {"text", "unresolved", "empty"}
BY DEF Section

(* A heading that is renamed or moved.                                     *)
Renamed(h, t) == [h EXCEPT !.level = 2, !.heading = t]

LEMMA HeadIs ==
    ASSUME NEW h \in Section, NEW t, t \subseteq Words, NEW g, g = Renamed(h, t)
    PROVE  /\ g \in Section /\ g.key = h.key /\ g.level = 2 /\ g.heading = t
           /\ g.words = h.words /\ g.content = h.content
<1>1. /\ g.key = h.key /\ g.level = 2 /\ g.heading = t
      /\ g.words = h.words /\ g.content = h.content
  BY DEF Section, Renamed
<1>2. PICK l \in 1 .. 6 : l = 2
  OBVIOUS
<1>3. PICK d \in SUBSET Words : d = t
  OBVIOUS
<1>4. g = [h EXCEPT !.level = l, !.heading = d]
  BY <1>2, <1>3 DEF Renamed
<1>5. [h EXCEPT !.level = l, !.heading = d] \in Section
  BY DEF Section
<1> QED
  BY <1>1, <1>4, <1>5

LEMMA MovedHeadIs ==
    ASSUME NEW h \in Section, NEW g, g = [h EXCEPT !.level = 3, !.content = "text"]
    PROVE  /\ g \in Section /\ g.key = h.key /\ g.level = 3 /\ g.heading = h.heading
           /\ g.words = h.words /\ g.content = "text"
<1>1. /\ g.key = h.key /\ g.level = 3 /\ g.heading = h.heading
      /\ g.words = h.words /\ g.content = "text"
  BY DEF Section
<1>2. PICK l \in 1 .. 6 : l = 3
  OBVIOUS
<1>3. PICK c \in {"text", "unresolved", "empty"} : c = "text"
  OBVIOUS
<1>4. g = [h EXCEPT !.level = l, !.content = c]
  BY <1>2, <1>3
<1>5. [h EXCEPT !.level = l, !.content = c] \in Section
  BY DEF Section
<1> QED
  BY <1>1, <1>4, <1>5

LEMMA OtherIsUnknown == "other" \notin Known
<1> SUFFICES ASSUME NEW n \in DOMAIN SectionOrder PROVE SectionOrder[n] # "other"
  BY DEF Known
<1> QED
  BY DEF SectionOrder

(* A section that is present has a first heading.                          *)
LEMMA FirstIs ==
    ASSUME NEW b, IsBody(b), NEW key \in Present(b)
    PROVE  /\ First(b, key) \in 1 .. Len(b) /\ b[First(b, key)].key = key
           /\ \A j \in 1 .. First(b, key) - 1 : b[j].key # key
<1> DEFINE S == {i \in 1 .. Len(b) : b[i].key = key}
<1>1. DOMAIN b = 1 .. Len(b) /\ Len(b) \in Nat
  BY DEF IsBody
<1>2. S \subseteq Nat /\ S # {}
  BY <1>1 DEF Present
<1>3. PICK i \in S : \A j \in S : i <= j
  <2> HIDE DEF S
  <2> QED
    BY <1>2, LeastElement
<1>4. i \in DOMAIN b /\ b[i].key = key /\ \A j \in 1 .. i - 1 : b[j].key # key
  <2>1. ASSUME NEW j \in 1 .. i - 1 PROVE j \in 1 .. Len(b) /\ ~(i <= j)
    BY <1>1
  <2> QED
    BY <1>1, <1>3, <2>1
<1>5. \E m \in DOMAIN b : b[m].key = key /\ \A j \in 1 .. m - 1 : b[j].key # key
  BY <1>4
<1> QED
  BY <1>1, <1>5 DEF First

(* Going down, deeper levels end somewhere.                                *)
LEMMA EndExists ==
    ASSUME NEW N \in Nat, NEW l \in [1 .. N -> Int], NEW i \in 1 .. N
    PROVE  \E e \in i .. N : /\ \A m \in i + 1 .. e : l[m] > l[i]
                             /\ e < N => l[e + 1] <= l[i]
<1> DEFINE S == {e \in i .. N : \A m \in i + 1 .. e : l[m] > l[i]}
<1>1. i \in S /\ S \subseteq 0 .. N
  OBVIOUS
<1>2. PICK e \in S : \A d \in S : d <= e
  <2> HIDE DEF S
  <2> QED
    BY <1>1, GreatestElement
<1>3. e \in i .. N /\ \A m \in i + 1 .. e : l[m] > l[i]
  OBVIOUS
<1>4. ASSUME e < N, ~(l[e + 1] <= l[i]) PROVE FALSE
  <2>1. e + 1 \in 1 .. N /\ e + 1 \in i .. N
    BY <1>3, <1>4
  <2>2. l[e + 1] > l[i]
    BY <1>4, <2>1
  <2>3. \A m \in i + 1 .. e + 1 : m = e + 1 \/ m \in i + 1 .. e
    BY <1>3
  <2>4. \A m \in i + 1 .. e + 1 : l[m] > l[i]
    BY <1>3, <2>2, <2>3
  <2>5. e + 1 \in S
    BY <2>1, <2>4
  <2>6. e + 1 <= e
    <3> HIDE DEF S
    <3> QED
      BY <1>2, <2>5
  <2> QED
    BY <1>3, <2>6
<1> QED
  BY <1>3, <1>4

LEMMA EndIs ==
    ASSUME NEW b, IsBody(b), NEW i \in 1 .. Len(b)
    PROVE  /\ End(b, i) \in i .. Len(b)
           /\ \A m \in i + 1 .. End(b, i) : b[m].level > b[i].level
           /\ End(b, i) < Len(b) => b[End(b, i) + 1].level <= b[i].level
<1> DEFINE Is(e) == /\ \A m \in i + 1 .. e : b[m].level > b[i].level
                    /\ e < Len(b) => b[e + 1].level <= b[i].level
<1>1. Len(b) \in Nat /\ \A m \in 1 .. Len(b) : b[m].level \in 1 .. 6
  BY SectionFields DEF IsBody
<1>2. PICK N \in Nat : N = Len(b)
  BY <1>1
<1>3. PICK l : l = [m \in 1 .. N |-> b[m].level]
  OBVIOUS
<1>4. l \in [1 .. N -> Int] /\ i \in 1 .. N
  BY <1>1, <1>2, <1>3
<1>5. PICK d \in i .. N : (\A m \in i + 1 .. d : l[m] > l[i]) /\ (d < N => l[d + 1] <= l[i])
  BY <1>4, EndExists
<1>6. \A m \in i + 1 .. d : m \in 1 .. N
  BY <1>4, <1>5
<1>7. d < N => d + 1 \in 1 .. N
  BY <1>4, <1>5
<1>8. Is(d) /\ d \in i .. Len(b)
  BY <1>2, <1>3, <1>4, <1>5, <1>6, <1>7
<1>9. End(b, i) = CHOOSE e \in i .. Len(b) : Is(e)
  BY Zenon DEF End
<1>10. End(b, i) \in i .. Len(b) /\ Is(End(b, i))
  <2> HIDE DEF Is
  <2> QED
    BY <1>8, <1>9
<1> QED
  BY <1>10

(* What follows a heading on lower levels is in its group.                 *)
LEMMA InGroup ==
    ASSUME NEW b, IsBody(b), NEW i \in 1 .. Len(b), NEW e \in i .. Len(b),
           \A m \in i + 1 .. e : b[m].level > b[i].level
    PROVE  i .. e \subseteq Group(b, i) /\ Group(b, i) \subseteq 1 .. Len(b)
<1>1. Len(b) \in Nat /\ \A m \in 1 .. Len(b) : b[m].level \in 1 .. 6
  BY SectionFields DEF IsBody
<1>2. PICK f \in i .. Len(b) : f = End(b, i) /\ (f < Len(b) => b[f + 1].level <= b[i].level)
  BY EndIs
<1>3. e <= f
  <2> SUFFICES ASSUME ~(e <= f) PROVE FALSE
    OBVIOUS
  <2>1. f + 1 \in i + 1 .. e /\ f + 1 \in 1 .. Len(b) /\ f < Len(b)
    BY <1>1
  <2>2. b[f + 1].level > b[i].level /\ b[f + 1].level <= b[i].level
    BY <1>2, <2>1
  <2>3. b[f + 1].level \in Int /\ b[i].level \in Int
    BY <1>1, <2>1
  <2> QED
    BY <2>2, <2>3
<1> QED
  BY <1>1, <1>2, <1>3 DEF Group

(* The sections below one are those of its group without itself.           *)
LEMMA BelowIs ==
    ASSUME NEW b, IsBody(b), NEW i \in 1 .. Len(b)
    PROVE  /\ Below(b, i) \in Seq(Section)
           /\ \A j \in 1 .. Len(Below(b, i)) :
                 i + j \in 1 .. Len(b) /\ Below(b, i)[j] = b[i + j] /\ b[i + j].level > b[i].level
           /\ \A m \in Group(b, i) \ {i} : \E j \in 1 .. Len(Below(b, i)) : Below(b, i)[j] = b[m]
           /\ Group(b, i) = {i} => Len(Below(b, i)) = 0
<1>1. Len(b) \in Nat /\ b \in Seq(Section)
  BY DEF IsBody
<1>2. PICK e \in i .. Len(b) : e = End(b, i) /\ \A m \in i + 1 .. e : b[m].level > b[i].level
  BY EndIs
<1>3. Below(b, i) = SubSeq(b, i + 1, e) /\ Group(b, i) = i .. e
  BY <1>2 DEF Below, Group
<1>4. PICK s : s = SubSeq(b, i + 1, e)
  OBVIOUS
<1>5. s \in Seq(Section) /\ Len(s) = e - i /\ \A j \in 1 .. e - i : s[j] = b[i + j]
  BY <1>1, <1>4
<1>6. ASSUME NEW j \in 1 .. e - i
      PROVE  i + j \in 1 .. Len(b) /\ b[i + j].level > b[i].level
  <2>1. i + j \in 1 .. Len(b) /\ i + j \in i + 1 .. e
    BY <1>1
  <2> QED
    BY <1>2, <2>1
<1>7. ASSUME NEW m \in (i .. e) \ {i} PROVE \E j \in 1 .. e - i : s[j] = b[m]
  <2>1. m - i \in 1 .. e - i /\ i + (m - i) = m
    BY <1>1
  <2> QED
    BY <1>5, <2>1
<1>8. i .. e = {i} => e - i = 0
  <2> SUFFICES ASSUME i .. e = {i} PROVE e = i
    OBVIOUS
  <2>1. e \in i .. e
    OBVIOUS
  <2> QED
    BY <2>1
<1> QED
  BY <1>3, <1>4, <1>5, <1>6, <1>7, <1>8

(* What is below a heading is below another one with the same text.        *)
LEMMA TextIsKept ==
    ASSUME NEW b, NEW i, NEW p, NEW g,
           b[i].words \subseteq p[g].words, Said(b[i]) \subseteq Said(p[g]),
           \A m \in Group(b, i) \ {i} : \E j \in Group(p, g) \ {g} : p[j] = b[m]
    PROVE  /\ WordsBelow(b, i) \subseteq WordsBelow(p, g)
           /\ SaidBelow(b, i) \subseteq SaidBelow(p, g)
<1>1. ASSUME NEW w \in WordsBelow(b, i) PROVE w \in WordsBelow(p, g)
  <2>1. CASE w \in b[i].words
    BY <2>1 DEF WordsBelow
  <2>2. CASE w \notin b[i].words
    <3>1. PICK m \in Group(b, i) \ {i} : w \in b[m].heading \cup b[m].words
      BY <1>1, <2>2 DEF WordsBelow
    <3>2. PICK j \in Group(p, g) \ {g} : p[j] = b[m]
      BY <3>1
    <3> QED
      BY <3>1, <3>2 DEF WordsBelow
  <2> QED
    BY <2>1, <2>2
<1>2. ASSUME NEW w \in SaidBelow(b, i) PROVE w \in SaidBelow(p, g)
  <2>1. CASE w \in Said(b[i])
    BY <2>1 DEF SaidBelow
  <2>2. CASE w \notin Said(b[i])
    <3>1. PICK m \in Group(b, i) \ {i} : w \in b[m].heading \cup Said(b[m])
      BY <1>2, <2>2 DEF SaidBelow
    <3>2. PICK j \in Group(p, g) \ {g} : p[j] = b[m]
      BY <3>1
    <3> QED
      BY <3>1, <3>2 DEF SaidBelow
  <2> QED
    BY <2>1, <2>2
<1> QED
  BY <1>1, <1>2

LEMMA TitleWordsAreWords == \A key : TitleWords(key) \subseteq Words
BY DEF TitleWords, Words, Triggers, DocsTriggers

LEMMA WordsOfHas ==
    ASSUME NEW b, IsBody(b), NEW m \in 1 .. Len(b)
    PROVE  b[m].heading \subseteq WordsOf(b) /\ b[m].words \subseteq WordsOf(b)
<1>1. DOMAIN b = 1 .. Len(b)
  BY DEF IsBody
<1> QED
  BY <1>1 DEF WordsOf

-----------------------------------------------------------------------------
(* The headings a proposal is put together from.                           *)
(* A section that is not there, or is there without content.               *)
Hole(b, key) == ~(key \in Present(b) /\ HasContent(b, First(b, key)))

IsTitle(h, b, Q) ==
    /\ h.level = 2 /\ h.key \in Q /\ h.heading = TitleWords(h.key)
    /\ h.words \subseteq WordsOf(b) \/ (Hole(b, h.key) /\ h.words = Placeholder)

IsContext(h, noted) ==
    /\ h.level = 2 /\ h.key = "other" /\ h.words \subseteq Categories
    /\ h.heading \subseteq {"contract"} /\ (~noted => h.heading = {})

(* Of a flat body, only what is unknown is moved or left where it was.     *)
IsKept(h, b) ==
    /\ \E m \in 1 .. Len(b) : /\ h.key = b[m].key /\ h.heading = b[m].heading
                              /\ h.words = b[m].words
    /\ Flat(b) => h.level > 2 /\ h.key = "other"

(* The section that stands for a key.                                      *)
IsNormalized(s, b, key) ==
    /\ IsBody(s) /\ Len(s) >= 1
    /\ IsTitle(s[1], b, {key}) /\ s[1].key = key
    /\ s[1].content = "empty" => Len(s) >= 2
    /\ \A j \in 2 .. Len(s) : IsKept(s[j], b)
    /\ key \in Present(b) =>
          LET i == First(b, key)
          IN  /\ b[i].words \subseteq s[1].words /\ Said(b[i]) \subseteq Said(s[1])
              /\ \A m \in Group(b, i) \ {i} : \E j \in 2 .. Len(s) : s[j] = b[m]
              /\ b[i].level >= 2 => \A j \in 2 .. Len(s) : s[j].level > 2

LEMMA NormalizedIs ==
    ASSUME NEW b, IsBody(b), NEW key \in Known, NEW s, s = Normalized(b, key)
    PROVE  IsNormalized(s, b, key)
<1> DEFINE i == First(b, key)
<1>0. PICK empty : empty = Unknown(key)
  OBVIOUS
<1>1. /\ empty \in Section /\ empty.words = Placeholder /\ empty.content = "unresolved"
      /\ empty.key = key /\ empty.level = 2 /\ empty.heading = TitleWords(key)
  <2>1. Placeholder \subseteq Words
    BY DEF Placeholder, Words, Triggers, DocsTriggers, Categories
  <2>2. /\ empty.words = Placeholder /\ empty.content = "unresolved"
        /\ empty.key = key /\ empty.level = 2 /\ empty.heading = TitleWords(key)
    BY <1>0 DEF Unknown
  <2>3. TitleWords(key) \subseteq Words
    BY TitleWordsAreWords
  <2>4. empty \in Section
    <3>1. PICK w, t : w = Placeholder /\ t = TitleWords(key)
      OBVIOUS
    <3>2. empty = [key |-> key, level |-> 2, heading |-> t, words |-> w, content |-> "unresolved"]
      BY <1>0, <3>1, Zenon DEF Unknown
    <3> QED
      BY <2>1, <2>3, <3>1, <3>2 DEF Section
  <2> QED
    BY <2>2, <2>4
<1>2. CASE ~Hole(b, key)
  <2> DEFINE head == [b[i] EXCEPT !.level = 2, !.heading = TitleWords(key)]
             below == Below(b, i)
  <2>1. i \in 1 .. Len(b) /\ b[i].key = key /\ b[i] \in Section /\ Worded(b[i])
    BY <1>2, FirstIs DEF IsBody, Hole
  <2>2. /\ head \in Section /\ head.key = key /\ head.level = 2 /\ head.heading = TitleWords(key)
        /\ head.words = b[i].words /\ head.content = b[i].content
    <3>1. head = Renamed(b[i], TitleWords(key))
      BY DEF Renamed
    <3>2. TitleWords(key) \subseteq Words
      BY TitleWordsAreWords
    <3> HIDE DEF head
    <3> QED
      BY <2>1, <3>1, <3>2, HeadIs
  <2>3. s = <<head>> \o below
    BY <1>2 DEF Normalized, Hole
  <2>4. /\ below \in Seq(Section)
        /\ \A j \in 1 .. Len(below) :
              i + j \in 1 .. Len(b) /\ below[j] = b[i + j] /\ b[i + j].level > b[i].level
        /\ \A m \in Group(b, i) \ {i} : \E j \in 1 .. Len(below) : below[j] = b[m]
    BY <2>1, BelowIs
  <2>12. b[i].content # "empty" \/ Group(b, i) # {i}
    BY <1>2 DEF HasContent, Hole
  <2>13. i \in Group(b, i)
    BY <2>1, EndIs DEF Group
  <2> HIDE DEF head, below, i
  <2>5. /\ s \in Seq(Section) /\ Len(s) = Len(below) + 1 /\ s[1] = head /\ Len(below) \in Nat
        /\ \A j \in 1 .. Len(below) : s[j + 1] = below[j]
    BY <2>2, <2>3, <2>4
  <2>6. ASSUME NEW j \in 2 .. Len(s)
        PROVE  \E m \in 1 .. Len(b) : s[j] = b[m] /\ b[m].level > b[i].level
    <3>1. PICK d : d = j - 1
      OBVIOUS
    <3>2. d \in 1 .. Len(below) /\ d + 1 = j
      BY <2>5, <3>1
    <3>3. s[j] = b[i + d] /\ i + d \in 1 .. Len(b) /\ b[i + d].level > b[i].level
      BY <2>4, <2>5, <3>2
    <3> QED
      BY <3>3
  <2>7. ASSUME NEW m \in Group(b, i) \ {i} PROVE \E j \in 2 .. Len(s) : s[j] = b[m]
    <3>1. PICK j \in 1 .. Len(below) : below[j] = b[m]
      BY <2>4
    <3>2. j + 1 \in 2 .. Len(s)
      BY <2>5
    <3> QED
      BY <2>5, <3>1, <3>2
  <2>8. \A m \in 1 .. Len(b) : b[m].level \in 1 .. 6 /\ Worded(b[m])
    BY SectionFields DEF IsBody
  <2>9. ASSUME NEW j \in 2 .. Len(s)
        PROVE  IsKept(s[j], b) /\ Worded(s[j]) /\ (b[i].level >= 2 => s[j].level > 2)
    <3>1. PICK m \in 1 .. Len(b) : s[j] = b[m] /\ b[m].level > b[i].level
      BY <2>6
    <3>2. b[i].level >= 2 => s[j].level > 2
      BY <2>1, <2>8, <3>1
    <3>3. Flat(b) => b[i].level = 2
      BY <2>1, OtherIsUnknown DEF Flat
    <3>4. Flat(b) => s[j].level > 2 /\ s[j].key = "other"
      <4>1. SUFFICES ASSUME Flat(b) PROVE s[j].level > 2 /\ s[j].key = "other"
        OBVIOUS
      <4>2. b[m].level > 2
        BY <3>1, <3>3, <4>1
      <4>3. b[m].level # 2
        BY <2>8, <4>2
      <4> QED
        BY <3>1, <4>1, <4>2, <4>3 DEF Flat
    <3>5. IsKept(s[j], b)
      BY <3>1, <3>4 DEF IsKept
    <3> QED
      BY <2>8, <3>1, <3>2, <3>5
  <2>10. \A j \in 1 .. Len(s) : Worded(s[j])
    <3>1. Worded(head)
      BY <2>1, <2>2 DEF Worded
    <3>2. \A j \in 1 .. Len(s) : j = 1 \/ j \in 2 .. Len(s)
      BY <2>5
    <3> QED
      BY <2>5, <2>9, <3>1, <3>2
  <2>11. IsBody(s) /\ Len(s) >= 1
    BY <2>5, <2>10 DEF IsBody
  <2>14. s[1].content = "empty" => Len(s) >= 2
    <3> SUFFICES ASSUME s[1].content = "empty" PROVE Len(s) >= 2
      OBVIOUS
    <3>1. PICK m \in Group(b, i) : m # i
      BY <2>2, <2>5, <2>12, <2>13
    <3>2. PICK j \in 2 .. Len(s) : s[j] = b[m]
      BY <2>7, <3>1
    <3> QED
      BY <2>5, <3>2
  <2>15. s[1].words = b[i].words /\ Said(s[1]) = Said(b[i])
    BY <2>2, <2>5 DEF Said
  <2>16. IsTitle(s[1], b, {key}) /\ s[1].key = key
    <3>1. b[i].words \subseteq WordsOf(b)
      BY <2>1, WordsOfHas
    <3> QED
      BY <2>2, <2>5, <3>1 DEF IsTitle
  <2> QED
    BY <2>7, <2>9, <2>11, <2>14, <2>15, <2>16, Zenon DEF IsNormalized, i
<1>3. CASE Hole(b, key)
  <2>1. s = <<empty>>
    BY <1>0, <1>3 DEF Normalized, Hole
  <2>2. s \in Seq(Section) /\ Len(s) = 1 /\ s[1] = empty
    BY <1>1, <2>1
  <2>3. Worded(empty) /\ IsBody(s)
    BY <1>1, <2>2 DEF Worded, IsBody, Placeholder
  <2>4. IsTitle(s[1], b, {key}) /\ s[1].key = key
    BY <1>1, <1>3, <2>2 DEF IsTitle
  <2>5. 2 .. Len(s) = {} /\ Len(s) >= 1 /\ s[1].content # "empty"
    BY <1>1, <2>2
  <2>6. ASSUME key \in Present(b)
        PROVE  b[i].words = {} /\ Said(b[i]) = {} /\ Group(b, i) \ {i} = {}
    <3>1. b[i].content = "empty" /\ Group(b, i) = {i}
      BY <1>3, <2>6 DEF HasContent, Hole
    <3>2. i \in 1 .. Len(b)
      BY <2>6, FirstIs
    <3>3. Worded(b[i])
      BY <3>2 DEF IsBody
    <3> QED
      BY <3>1, <3>3 DEF Worded, Said
  <2> QED
    BY <2>3, <2>4, <2>5, <2>6 DEF IsNormalized
<1> QED
  BY <1>2, <1>3

LEMMA OtherIs ==
    ASSUME NEW w, w \subseteq Categories, NEW g, g \subseteq {"contract"},
           NEW h, h = Other(g, w)
    PROVE  /\ h \in Section /\ h.key = "other" /\ h.level = 2 /\ h.heading = g /\ h.words = w
           /\ h.content = "text"
<1>1. w \subseteq Words /\ g \subseteq Words
  BY DEF Words, Triggers, DocsTriggers
<1>2. h = [key |-> "other", level |-> 2, heading |-> g, words |-> w, content |-> "text"]
  BY DEF Other
<1>3. h \in Section
  BY <1>1, <1>2 DEF Section
<1> QED
  BY <1>2, <1>3

LEMMA UnmappedIs ==
    ASSUME NEW b, IsBody(b), NEW i \in Unmapped(b)
    PROVE  i \in 1 .. Len(b) /\ b[i].key = "other" /\ b[i].level = 2 /\ b[i] \in Section
BY DEF Unmapped, IsBody

(* What an unknown heading of level 2 becomes.                             *)
Moved(b, i) ==
    IF i \in Unmapped(b)
    THEN <<[b[i] EXCEPT !.level = 3, !.content = "text"]>> \o Below(b, i) ELSE <<>>

LEMMA MovedIs ==
    ASSUME NEW b, IsBody(b), NEW i \in 1 .. Len(b), NEW s, s = Moved(b, i)
    PROVE  /\ s \in Seq(Section)
           /\ \A j \in 1 .. Len(s) : IsKept(s[j], b) /\ Worded(s[j])
           /\ i \in Unmapped(b) =>
                 /\ \E j \in 1 .. Len(s) : s[j].words = b[i].words
                 /\ \A m \in Group(b, i) \ {i} : \E j \in 1 .. Len(s) : s[j] = b[m]
<1>1. CASE i \notin Unmapped(b)
  <2>1. s = <<>>
    BY <1>1 DEF Moved
  <2>2. s \in Seq(Section) /\ Len(s) = 0
    BY <2>1
  <2>3. \A j \in 1 .. Len(s) : FALSE
    BY <2>2
  <2> QED
    BY <1>1, <2>2, <2>3
<1>2. CASE i \in Unmapped(b)
  <2> DEFINE head == [b[i] EXCEPT !.level = 3, !.content = "text"]
             below == Below(b, i)
  <2>1. b[i].key = "other" /\ b[i].level = 2 /\ b[i] \in Section
    BY <1>2, UnmappedIs
  <2>2. /\ head \in Section /\ head.key = b[i].key /\ head.level = 3
        /\ head.heading = b[i].heading /\ head.words = b[i].words /\ head.content = "text"
    BY <2>1, MovedHeadIs
  <2>3. s = <<head>> \o below
    BY <1>2 DEF Moved
  <2>4. /\ below \in Seq(Section)
        /\ \A j \in 1 .. Len(below) :
              i + j \in 1 .. Len(b) /\ below[j] = b[i + j] /\ b[i + j].level > b[i].level
        /\ \A m \in Group(b, i) \ {i} : \E j \in 1 .. Len(below) : below[j] = b[m]
    BY BelowIs
  <2> HIDE DEF head, below
  <2>5. /\ s \in Seq(Section) /\ Len(s) = Len(below) + 1 /\ s[1] = head /\ Len(below) \in Nat
        /\ \A j \in 1 .. Len(below) : s[j + 1] = below[j]
    BY <2>2, <2>3, <2>4
  <2>6. ASSUME NEW j \in 1 .. Len(s)
        PROVE  IsKept(s[j], b) /\ Worded(s[j])
    <3>1. CASE j = 1
      <4>1. s[j] = head
        BY <2>5, <3>1
      <4>2. IsKept(head, b) /\ Worded(head)
        BY <2>1, <2>2 DEF IsKept, Worded
      <4> QED
        BY <4>1, <4>2
    <3>2. CASE j # 1
      <4>1. PICK d : d = j - 1
        OBVIOUS
      <4>2. d \in 1 .. Len(below) /\ d + 1 = j
        BY <2>5, <3>2, <4>1
      <4>3. PICK m : m = i + d
        OBVIOUS
      <4>4. s[j] = b[m] /\ m \in 1 .. Len(b) /\ b[m].level > b[i].level
        BY <2>4, <2>5, <4>2, <4>3
      <4>5. b[m].level \in 1 .. 6 /\ Worded(b[m])
        BY <4>4, SectionFields DEF IsBody
      <4>6. b[m].level > 2 /\ b[m].level # 2
        BY <2>1, <4>4, <4>5
      <4>7. IsKept(b[m], b)
        BY <4>4, <4>6 DEF IsKept, Flat
      <4> QED
        BY <4>4, <4>5, <4>7
    <3> QED
      BY <3>1, <3>2
  <2>7. ASSUME NEW m \in Group(b, i) \ {i} PROVE \E j \in 1 .. Len(s) : s[j] = b[m]
    <3>1. PICK j \in 1 .. Len(below) : below[j] = b[m]
      BY <2>4
    <3>2. j + 1 \in 1 .. Len(s)
      BY <2>5
    <3> QED
      BY <2>5, <3>1, <3>2
  <2>8. 1 \in 1 .. Len(s) /\ s[1].words = b[i].words
    BY <2>2, <2>5
  <2> QED
    BY <2>5, <2>6, <2>7, <2>8
<1> QED
  BY <1>1, <1>2

(* The context that is retained.                                           *)
IsRetained(s, b) ==
    /\ s \in Seq(Section)
    /\ \A j \in 1 .. Len(s) : /\ IsContext(s[j], FALSE) \/ IsKept(s[j], b)
                              /\ Worded(s[j])
    /\ \A i \in Unmapped(b) :
          /\ \E j \in 1 .. Len(s) : s[j].words = b[i].words
          /\ \A m \in Group(b, i) \ {i} : \E j \in 1 .. Len(s) : s[j] = b[m]

LEMMA RetainedIs ==
    ASSUME NEW b, IsBody(b), NEW s, s = Retained(b)
    PROVE  IsRetained(s, b)
<1> USE DEF IsRetained
<1>1. CASE Unmapped(b) = {}
  <2>1. s = <<>>
    BY <1>1 DEF Retained
  <2> QED
    BY <1>1, <2>1
<1>2. CASE Unmapped(b) # {}
  <2>1. DOMAIN b = 1 .. Len(b) /\ Len(b) \in Nat
    BY DEF IsBody
  <2> DEFINE N == Len(b)
  <2>2. PICK lists : lists = [i \in 1 .. N |-> Moved(b, i)]
    OBVIOUS
  <2>3. lists \in Seq(Seq(Section)) /\ Len(lists) = N
    <3>1. \A i \in 1 .. N : Moved(b, i) \in Seq(Section)
      BY MovedIs
    <3>2. lists \in [1 .. N -> Seq(Section)]
      BY <2>2, <3>1
    <3> HIDE DEF N
    <3> QED
      BY <2>1, <3>2 DEF N
  <2>4. PICK head : head = Other({}, {})
    OBVIOUS
  <2>5. head \in Section /\ IsContext(head, FALSE) /\ Worded(head)
    <3>1. /\ head \in Section /\ head.key = "other" /\ head.level = 2 /\ head.heading = {}
          /\ head.words = {} /\ head.content = "text"
      BY <2>4, OtherIs
    <3> QED
      BY <3>1 DEF Worded, IsContext
  <2>6. s = <<head>> \o Chained(lists)
    BY <1>2, <2>1, <2>2, <2>4, Zenon DEF Retained, Moved
  <2>7. PICK c : c = Chained(lists)
    OBVIOUS
  <2>8. c \in Seq(Section) /\ \E to : Placed(c, lists, to)
    BY <2>3, <2>7, ChainedPlaces
  <2>9. PICK to : Placed(c, lists, to)
    BY <2>8
  <2>10. /\ s \in Seq(Section) /\ Len(s) = Len(c) + 1 /\ s[1] = head /\ Len(c) \in Nat
         /\ \A j \in 1 .. Len(c) : s[j + 1] = c[j]
    BY <2>5, <2>6, <2>7, <2>8
  <2>11. ASSUME NEW i \in 1 .. N, NEW j \in 1 .. Len(lists[i])
         PROVE  \E m \in 1 .. Len(s) : s[m] = lists[i][j]
    <3>1. /\ to[i - 1] + j \in 1 .. Len(c)
          /\ c[to[i - 1] + j] = lists[i][j]
      BY <2>3, <2>9 DEF Placed
    <3>2. PICK m : m = to[i - 1] + j
      OBVIOUS
    <3>3. m \in 1 .. Len(c) /\ m + 1 \in 1 .. Len(s)
      BY <2>10, <3>1, <3>2
    <3> QED
      BY <2>10, <3>1, <3>2, <3>3
  <2>12. ASSUME NEW m \in 1 .. Len(c)
         PROVE  \E i \in 1 .. N : \E j \in 1 .. Len(lists[i]) : c[m] = lists[i][j]
    <3>1. PICK i \in 1 .. N : \E j \in 1 .. Len(lists[i]) : m = to[i - 1] + j
      BY <2>3, <2>9 DEF Placed
    <3>2. PICK j \in 1 .. Len(lists[i]) : m = to[i - 1] + j
      BY <3>1
    <3>3. c[to[i - 1] + j] = lists[i][j]
      BY <2>3, <2>9 DEF Placed
    <3> QED
      BY <3>2, <3>3
  <2>13. ASSUME NEW j \in 1 .. Len(s)
         PROVE  /\ IsContext(s[j], FALSE) \/ IsKept(s[j], b)
                /\ Worded(s[j])
    <3>1. CASE j = 1
      BY <2>5, <2>10, <3>1
    <3>2. CASE j # 1
      <4>1. j - 1 \in 1 .. Len(c) /\ (j - 1) + 1 = j
        BY <2>10, <3>2
      <4>2. PICK i \in 1 .. N : \E m \in 1 .. Len(lists[i]) : s[j] = lists[i][m]
        BY <2>10, <2>12, <4>1
      <4>3. PICK m \in 1 .. Len(lists[i]) : s[j] = lists[i][m]
        BY <4>2
      <4>4. lists[i] = Moved(b, i)
        BY <2>2
      <4>5. i \in 1 .. Len(b)
        BY <2>1 DEF N
      <4>6. IsKept(lists[i][m], b) /\ Worded(lists[i][m])
        <5>1. PICK l : l = lists[i]
          OBVIOUS
        <5>2. \A d \in 1 .. Len(l) : IsKept(l[d], b) /\ Worded(l[d])
          BY <4>4, <4>5, <5>1, MovedIs
        <5> QED
          BY <5>1, <5>2
      <4> QED
        BY <4>3, <4>6
    <3> QED
      BY <3>1, <3>2
  <2>14. ASSUME NEW i \in Unmapped(b)
         PROVE  /\ \E j \in 1 .. Len(s) : s[j].words = b[i].words
                /\ \A m \in Group(b, i) \ {i} : \E j \in 1 .. Len(s) : s[j] = b[m]
    <3>1. i \in 1 .. N /\ lists[i] = Moved(b, i)
      BY <2>2, UnmappedIs
    <3>2. PICK l : l = lists[i]
      OBVIOUS
    <3>3. /\ \E j \in 1 .. Len(l) : l[j].words = b[i].words
          /\ \A m \in Group(b, i) \ {i} : \E j \in 1 .. Len(l) : l[j] = b[m]
      BY <3>1, <3>2, MovedIs
    <3>4. \A j \in 1 .. Len(l) : \E m \in 1 .. Len(s) : s[m] = l[j]
      BY <2>11, <3>1, <3>2
    <3> QED
      BY <3>3, <3>4
  <2> QED
    BY <2>10, <2>13, <2>14
<1> QED
  BY <1>1, <1>2

-----------------------------------------------------------------------------
(* The sections of a proposal.                                             *)
(* Every known section has one place in the order.                         *)
LEMMA OrderIs ==
    /\ DOMAIN SectionOrder = 1 .. 32 /\ \A n \in 1 .. 32 : SectionOrder[n] \in Known
    /\ \A m, n \in 1 .. 32 : SectionOrder[m] = SectionOrder[n] => m = n
    /\ \A key \in Known : \E n \in 1 .. 32 : SectionOrder[n] = key
<1>1. DOMAIN SectionOrder = 1 .. 32
  BY DEF SectionOrder
<1>2. \A n \in 1 .. 32 : SectionOrder[n] \in Known
  BY <1>1 DEF Known
<1>3. \A m, n \in 1 .. 32 : SectionOrder[m] = SectionOrder[n] => m = n
  BY SMTT(60) DEF SectionOrder
<1>4. \A key \in Known : \E n \in 1 .. 32 : SectionOrder[n] = key
  BY <1>1 DEF Known
<1> QED
  BY <1>1, <1>2, <1>3, <1>4

Sections(b, Q) ==
    [n \in DOMAIN SectionOrder |->
        IF SectionOrder[n] \in Q THEN Normalized(b, SectionOrder[n]) ELSE <<>>]

(* A section stands at i, with what is below it, up to e.                  *)
Stands(c, b, key, i, e) ==
    /\ c[i].key = key /\ c[i].level = 2
    /\ c[i].content = "empty" => e > i
    /\ Flat(b) => \A m \in i + 1 .. e : c[m].level > 2
    /\ key \in Present(b) =>
          LET f == First(b, key)
          IN  /\ b[f].words \subseteq c[i].words /\ Said(b[f]) \subseteq Said(c[i])
              /\ \A m \in Group(b, f) \ {f} : \E j \in i + 1 .. e : c[j] = b[m]
              /\ b[f].level >= 2 => \A m \in i + 1 .. e : c[m].level > 2

(* Every section of a set is there once, with what is below it.            *)
IsSections(c, b, Q) ==
    /\ c \in Seq(Section)
    /\ \A i \in 1 .. Len(c) : (IsTitle(c[i], b, Q) \/ IsKept(c[i], b)) /\ Worded(c[i])
    /\ Flat(b) => \A i, j \in 1 .. Len(c) :
                     c[i].level = 2 /\ c[j].level = 2 /\ c[i].key = c[j].key => i = j
    /\ \A key \in Q \cap Known : \E i \in 1 .. Len(c) : \E e \in i .. Len(c) : Stands(c, b, key, i, e)

LEMMA SectionsAre ==
    ASSUME NEW b, IsBody(b), NEW Q
    PROVE  IsSections(Chained(Sections(b, Q)), b, Q)
<1> DEFINE lists == Sections(b, Q)
           order == SectionOrder
<1>0. /\ DOMAIN order = 1 .. 32 /\ \A n \in 1 .. 32 : order[n] \in Known
      /\ \A m, n \in 1 .. 32 : order[m] = order[n] => m = n
      /\ \A key \in Known : \E n \in 1 .. 32 : order[n] = key
  BY OrderIs
<1>1. /\ DOMAIN lists = 1 .. 32
      /\ \A n \in 1 .. 32 : IF order[n] \in Q THEN lists[n] = Normalized(b, order[n])
                            ELSE lists[n] = <<>>
      /\ lists = [n \in 1 .. 32 |-> lists[n]]
  BY <1>0 DEF Sections
<1> HIDE DEF lists, order
<1>2. ASSUME NEW n \in 1 .. 32
      PROVE  /\ lists[n] \in Seq(Section)
             /\ \A j \in 1 .. Len(lists[n]) :
                   /\ IsTitle(lists[n][j], b, Q) \/ IsKept(lists[n][j], b)
                   /\ Worded(lists[n][j])
                   /\ Flat(b) /\ lists[n][j].level = 2 => j = 1 /\ lists[n][j].key = order[n]
             /\ order[n] \in Q => IsNormalized(lists[n], b, order[n])
  <2>1. PICK s, key : s = lists[n] /\ key = order[n]
    OBVIOUS
  <2>2. CASE key \notin Q
    <3>1. s = <<>>
      BY <1>1, <2>1, <2>2
    <3> QED
      BY <2>1, <2>2, <3>1
  <2>3. CASE key \in Q
    <3>1. s = Normalized(b, key) /\ key \in Known
      BY <1>0, <1>1, <2>1, <2>3
    <3>2. IsNormalized(s, b, key)
      BY <3>1, NormalizedIs
    <3>3. /\ s \in Seq(Section) /\ Len(s) >= 1 /\ \A j \in 1 .. Len(s) : Worded(s[j])
          /\ IsTitle(s[1], b, Q) /\ s[1].key = key
          /\ \A j \in 2 .. Len(s) : IsKept(s[j], b)
      BY <2>3, <3>2 DEF IsNormalized, IsBody, IsTitle
    <3>4. \A j \in 1 .. Len(s) : j = 1 \/ j \in 2 .. Len(s)
      BY <3>3
    <3>5. \A j \in 2 .. Len(s) : Flat(b) => s[j].level # 2
      <4> SUFFICES ASSUME NEW j \in 2 .. Len(s), Flat(b) PROVE s[j].level # 2
        OBVIOUS
      <4>1. s[j].level > 2
        BY <3>3 DEF IsKept
      <4> QED
        BY <4>1
    <3>6. \A j \in 1 .. Len(s) : /\ IsTitle(s[j], b, Q) \/ IsKept(s[j], b)
                                 /\ Worded(s[j])
                                 /\ Flat(b) /\ s[j].level = 2 => j = 1 /\ s[j].key = key
      BY <3>3, <3>4, <3>5
    <3> QED
      BY <2>1, <3>2, <3>3, <3>6
  <2> QED
    BY <2>2, <2>3
<1>3. lists \in Seq(Seq(Section)) /\ Len(lists) = 32
  <2>1. PICK N \in Nat : N = 32
    OBVIOUS
  <2>2. PICK l \in [1 .. N -> Seq(Section)] : l = lists
    BY <1>1, <1>2, <2>1
  <2>3. l \in Seq(Seq(Section)) /\ Len(l) = N
    OBVIOUS
  <2> QED
    BY <2>1, <2>2, <2>3
<1>4. PICK c : c = Chained(lists)
  OBVIOUS
<1>5. c \in Seq(Section) /\ \E to : Placed(c, lists, to)
  BY <1>3, <1>4, ChainedPlaces
<1>6. PICK to : Placed(c, lists, to)
  BY <1>5
<1>7. /\ to \in [0 .. 32 -> Nat] /\ Len(c) \in Nat
      /\ \A n \in 1 .. 32 : to[n] = to[n - 1] + Len(lists[n])
      /\ \A n \in 1 .. 32 : \A j \in 1 .. Len(lists[n]) :
            to[n - 1] + j \in 1 .. Len(c) /\ c[to[n - 1] + j] = lists[n][j]
      /\ \A i \in 1 .. Len(c) : \E n \in 1 .. 32 : \E j \in 1 .. Len(lists[n]) : i = to[n - 1] + j
  <2>1. PICK N : N = Len(lists)
    OBVIOUS
  <2> HIDE DEF lists
  <2>2. /\ to \in [0 .. N -> Nat]
        /\ \A n \in 1 .. N : to[n] = to[n - 1] + Len(lists[n])
        /\ \A n \in 1 .. N : \A j \in 1 .. Len(lists[n]) :
              to[n - 1] + j \in 1 .. Len(c) /\ c[to[n - 1] + j] = lists[n][j]
        /\ \A i \in 1 .. Len(c) : \E n \in 1 .. N : \E j \in 1 .. Len(lists[n]) :
              i = to[n - 1] + j
    BY <1>6, <2>1 DEF Placed
  <2>3. N = 32 /\ Len(c) \in Nat
    BY <1>3, <1>5, <2>1
  <2> QED
    BY <2>2, <2>3
<1>8. ASSUME NEW i \in 1 .. Len(c)
      PROVE  \E n \in 1 .. 32 : \E j \in 1 .. Len(lists[n]) :
                i = to[n - 1] + j /\ c[i] = lists[n][j]
  <2>1. PICK n \in 1 .. 32 : \E j \in 1 .. Len(lists[n]) : i = to[n - 1] + j
    BY <1>7
  <2>2. PICK j \in 1 .. Len(lists[n]) : i = to[n - 1] + j
    BY <2>1
  <2>3. c[to[n - 1] + j] = lists[n][j]
    BY <1>7
  <2> QED
    BY <2>2, <2>3
<1>9. ASSUME NEW i \in 1 .. Len(c)
      PROVE  (IsTitle(c[i], b, Q) \/ IsKept(c[i], b)) /\ Worded(c[i])
  <2>1. PICK n \in 1 .. 32 : \E j \in 1 .. Len(lists[n]) : c[i] = lists[n][j]
    BY <1>8
  <2>2. PICK j \in 1 .. Len(lists[n]) : c[i] = lists[n][j]
    BY <2>1
  <2>3. /\ IsTitle(lists[n][j], b, Q) \/ IsKept(lists[n][j], b)
        /\ Worded(lists[n][j])
    BY <1>2
  <2> QED
    BY <2>2, <2>3
<1>10. ASSUME Flat(b), NEW i \in 1 .. Len(c), NEW j \in 1 .. Len(c),
              c[i].level = 2, c[j].level = 2, c[i].key = c[j].key
       PROVE  i = j
  <2>1. PICK m \in 1 .. 32 : \E x \in 1 .. Len(lists[m]) : i = to[m - 1] + x /\ c[i] = lists[m][x]
    BY <1>8
  <2>2. PICK x \in 1 .. Len(lists[m]) : i = to[m - 1] + x /\ c[i] = lists[m][x]
    BY <2>1
  <2>3. PICK n \in 1 .. 32 : \E y \in 1 .. Len(lists[n]) : j = to[n - 1] + y /\ c[j] = lists[n][y]
    BY <1>8
  <2>4. PICK y \in 1 .. Len(lists[n]) : j = to[n - 1] + y /\ c[j] = lists[n][y]
    BY <2>3
  <2>5. x = 1 /\ c[i].key = order[m]
    <3>1. lists[m][x].level = 2 => x = 1 /\ lists[m][x].key = order[m]
      BY <1>2, <1>10
    <3> QED
      BY <1>10, <2>2, <3>1
  <2>6. y = 1 /\ c[j].key = order[n]
    <3>1. lists[n][y].level = 2 => y = 1 /\ lists[n][y].key = order[n]
      BY <1>2, <1>10
    <3> QED
      BY <1>10, <2>4, <3>1
  <2>7. m = n
    BY <1>0, <1>10, <2>5, <2>6
  <2> QED
    BY <2>2, <2>4, <2>5, <2>6, <2>7
<1>11. ASSUME NEW key \in Q \cap Known
       PROVE  \E i \in 1 .. Len(c) : \E e \in i .. Len(c) : Stands(c, b, key, i, e)
  <2>1. PICK n \in 1 .. 32 : order[n] = key
    BY <1>0
  <2>2. PICK s : s = lists[n]
    OBVIOUS
  <2>3. IsNormalized(s, b, key) /\ s \in Seq(Section) /\ Len(s) >= 1
    <3>1. order[n] \in Q
      BY <2>1
    <3>2. lists[n] \in Seq(Section) /\ IsNormalized(lists[n], b, order[n])
      BY <1>2, <3>1
    <3> QED
      BY <2>1, <2>2, <3>2 DEF IsNormalized
  <2>4. PICK t : t = to[n - 1]
    OBVIOUS
  <2>5. t \in Nat /\ \A j \in 1 .. Len(s) : t + j \in 1 .. Len(c) /\ c[t + j] = s[j]
    <3>1. n - 1 \in 0 .. 32
      OBVIOUS
    <3> QED
      BY <1>7, <2>2, <2>4, <3>1
  <2>6. Len(s) \in Nat
    BY <2>3
  <2>7. PICK i, e : i = t + 1 /\ e = t + Len(s)
    OBVIOUS
  <2>8. i \in 1 .. Len(c) /\ e \in i .. Len(c) /\ c[i] = s[1]
    <3>1. 1 \in 1 .. Len(s) /\ Len(s) \in 1 .. Len(s)
      BY <2>3, <2>6
    <3>2. t + 1 \in 1 .. Len(c) /\ c[t + 1] = s[1]
      BY <2>5, <3>1
    <3>3. t + Len(s) \in 1 .. Len(c)
      BY <2>5, <3>1
    <3> QED
      BY <1>7, <2>3, <2>5, <2>6, <2>7, <3>2, <3>3
  <2>9. \A m \in i + 1 .. e : \E j \in 2 .. Len(s) : c[m] = s[j]
    <3> SUFFICES ASSUME NEW m \in i + 1 .. e PROVE \E j \in 2 .. Len(s) : c[m] = s[j]
      OBVIOUS
    <3>1. PICK j : j = m - t
      OBVIOUS
    <3>2. j \in 2 .. Len(s) /\ j \in 1 .. Len(s) /\ t + j = m
      BY <2>5, <2>6, <2>7, <3>1
    <3>3. c[m] = s[j]
      BY <2>5, <3>2
    <3> QED
      BY <3>2, <3>3
  <2>10. \A j \in 2 .. Len(s) : t + j \in i + 1 .. e /\ c[t + j] = s[j]
    BY <2>5, <2>6, <2>7
  <2>11. \A j \in 2 .. Len(s) : \E d \in i + 1 .. e : c[d] = s[j]
    BY <2>10
  <2>12. /\ s[1].key = key /\ s[1].level = 2 /\ (s[1].content = "empty" => Len(s) >= 2)
         /\ Flat(b) => \A j \in 2 .. Len(s) : s[j].level > 2
    BY <2>3 DEF IsNormalized, IsTitle, IsKept
  <2>13. c[i].content = "empty" => e > i
    BY <2>5, <2>6, <2>7, <2>8, <2>12
  <2>14. Flat(b) => \A m \in i + 1 .. e : c[m].level > 2
    BY <2>9, <2>12
  <2>15. ASSUME key \in Present(b), NEW f, f = First(b, key)
         PROVE  /\ b[f].words \subseteq c[i].words /\ Said(b[f]) \subseteq Said(c[i])
                /\ \A m \in Group(b, f) \ {f} : \E j \in i + 1 .. e : c[j] = b[m]
                /\ b[f].level >= 2 => \A m \in i + 1 .. e : c[m].level > 2
    <3>1. /\ b[f].words \subseteq s[1].words /\ Said(b[f]) \subseteq Said(s[1])
          /\ \A m \in Group(b, f) \ {f} : \E j \in 2 .. Len(s) : s[j] = b[m]
          /\ b[f].level >= 2 => \A j \in 2 .. Len(s) : s[j].level > 2
      BY <2>3, <2>15 DEF IsNormalized
    <3>2. \A m \in Group(b, f) \ {f} : \E j \in i + 1 .. e : c[j] = b[m]
      <4> SUFFICES ASSUME NEW m \in Group(b, f) \ {f} PROVE \E j \in i + 1 .. e : c[j] = b[m]
        OBVIOUS
      <4>1. PICK j \in 2 .. Len(s) : s[j] = b[m]
        BY <3>1
      <4>2. PICK d \in i + 1 .. e : c[d] = s[j]
        BY <2>11
      <4> QED
        BY <4>1, <4>2
    <3>3. b[f].level >= 2 => \A m \in i + 1 .. e : c[m].level > 2
      BY <2>9, <3>1
    <3> QED
      BY <2>8, <3>1, <3>2, <3>3
  <2>16. Stands(c, b, key, i, e)
    BY <2>8, <2>12, <2>13, <2>14, <2>15 DEF Stands
  <2> QED
    BY <2>8, <2>16
<1> QED
  BY <1>4, <1>5, <1>9, <1>10, <1>11 DEF IsSections, lists

-----------------------------------------------------------------------------
(* A proposal.                                                             *)
(* p is a, then r, then t.                                                *)
Joined(p, a, r, t, X) ==
    /\ p \in Seq(X) /\ Len(p) \in Nat /\ Len(a) \in Nat /\ Len(a) <= Len(p)
    /\ \A i \in 1 .. Len(a) : i \in 1 .. Len(p) /\ p[i] = a[i]
    /\ \A j \in 1 .. Len(r) : Len(a) + j \in 1 .. Len(p) /\ p[Len(a) + j] = r[j]
    /\ \A j \in 1 .. Len(t) : \E i \in 1 .. Len(p) : p[i] = t[j]
    /\ \A i \in 1 .. Len(p) : \/ i \in 1 .. Len(a)
                              \/ \E j \in 1 .. Len(r) : p[i] = r[j]
                              \/ \E j \in 1 .. Len(t) : p[i] = t[j]

LEMMA ThreeParts ==
    ASSUME NEW X, NEW a \in Seq(X), NEW r \in Seq(X), NEW t \in Seq(X), NEW p, p = a \o r \o t
    PROVE  Joined(p, a, r, t, X)
<1>0. a \o r \in Seq(X)
  OBVIOUS
<1>1. PICK q \in Seq(X) : q = a \o r
  BY <1>0
<1>2. /\ Len(q) = Len(a) + Len(r) /\ Len(a) \in Nat /\ Len(r) \in Nat
      /\ \A i \in 1 .. Len(a) : q[i] = a[i]
      /\ \A j \in 1 .. Len(r) : q[Len(a) + j] = r[j]
  BY <1>1
<1>3. p = q \o t
  BY <1>1
<1>4. /\ p \in Seq(X) /\ Len(p) = Len(q) + Len(t) /\ Len(t) \in Nat /\ Len(p) \in Nat
      /\ \A i \in 1 .. Len(q) : p[i] = q[i]
      /\ \A j \in 1 .. Len(t) : p[Len(q) + j] = t[j]
  BY <1>3
<1>5. ASSUME NEW i \in 1 .. Len(a) PROVE i \in 1 .. Len(p) /\ p[i] = a[i]
  <2>1. i \in 1 .. Len(q) /\ i \in 1 .. Len(p)
    BY <1>2, <1>4
  <2> QED
    BY <1>2, <1>4, <2>1
<1>6. ASSUME NEW j \in 1 .. Len(r) PROVE Len(a) + j \in 1 .. Len(p) /\ p[Len(a) + j] = r[j]
  <2>1. Len(a) + j \in 1 .. Len(q) /\ Len(a) + j \in 1 .. Len(p)
    BY <1>2, <1>4
  <2> QED
    BY <1>2, <1>4, <2>1
<1>7. ASSUME NEW i \in 1 .. Len(p)
      PROVE  \/ i \in 1 .. Len(a)
             \/ \E j \in 1 .. Len(r) : p[i] = r[j]
             \/ \E j \in 1 .. Len(t) : p[i] = t[j]
  <2>1. CASE i <= Len(a)
    BY <1>2, <2>1
  <2>2. CASE i > Len(a) /\ i <= Len(q)
    <3>1. PICK j : j = i - Len(a)
      OBVIOUS
    <3>2. j \in 1 .. Len(r) /\ Len(a) + j = i
      BY <1>2, <2>2, <3>1
    <3> QED
      BY <1>6, <3>2
  <2>3. CASE i > Len(q)
    <3>1. PICK j : j = i - Len(q)
      OBVIOUS
    <3>2. j \in 1 .. Len(t) /\ Len(q) + j = i
      BY <1>2, <1>4, <2>3, <3>1
    <3> QED
      BY <1>4, <3>2
  <2> QED
    BY <1>2, <2>1, <2>2, <2>3
<1>8. Len(a) <= Len(p)
  BY <1>2, <1>4
<1>9. ASSUME NEW j \in 1 .. Len(t) PROVE \E i \in 1 .. Len(p) : p[i] = t[j]
  <2>1. Len(q) + j \in 1 .. Len(p)
    BY <1>2, <1>4
  <2> QED
    BY <1>4, <2>1
<1> QED
  BY <1>2, <1>4, <1>5, <1>6, <1>7, <1>8, <1>9 DEF Joined

(* The words that count, wherever a person has written them.               *)
Solid(b) == UNION {b[i].heading \cup Said(b[i]) : i \in DOMAIN b}

LEMMA SolidHas ==
    ASSUME NEW b, IsBody(b), NEW m \in 1 .. Len(b)
    PROVE  b[m].heading \subseteq Solid(b) /\ Said(b[m]) \subseteq Solid(b)
<1>1. DOMAIN b = 1 .. Len(b)
  BY DEF IsBody
<1> QED
  BY <1>1 DEF Solid

LEMMA BelowIsIn ==
    ASSUME NEW b, IsBody(b), NEW i \in 1 .. Len(b)
    PROVE  WordsBelow(b, i) \subseteq WordsOf(b) /\ SaidBelow(b, i) \subseteq WordsBelow(b, i)
<1>1. Group(b, i) \subseteq 1 .. Len(b)
  <2>1. i .. i \subseteq 1 .. Len(b) /\ \A m \in i + 1 .. i : b[m].level > b[i].level
    OBVIOUS
  <2> QED
    BY <2>1, EndIs, InGroup DEF Group
<1>2. \A m \in 1 .. Len(b) : Said(b[m]) \subseteq b[m].words
  BY DEF Said
<1>3. \A m \in 1 .. Len(b) : b[m].heading \subseteq WordsOf(b) /\ b[m].words \subseteq WordsOf(b)
  BY WordsOfHas
<1> QED
  BY <1>1, <1>2, <1>3 DEF WordsBelow, SaidBelow

(* The section of a key is there, with the text of the one that was there. *)
Keeps(p, b, key, i) ==
    /\ p[i].key = key /\ p[i].level = 2
    /\ Flat(b) => HasContent(p, i)
    /\ key \in Present(b) =>
          LET f == First(b, key)
          IN  /\ WordsBelow(b, f) \subseteq WordsOf(p)
              /\ b[f].level >= 2 => /\ WordsBelow(b, f) \subseteq WordsBelow(p, i)
                                    /\ SaidBelow(b, f) \subseteq SaidBelow(p, i)

Noted(k, b, Q) == MissingCoverage(k, b) # {} /\ "acceptance_criteria" \in Q

(* p offers the sections of Q in place of b.                               *)
IsProposal(p, b, Q, noted) ==
    /\ IsBody(p)
    /\ \A i \in 1 .. Len(p) : IsTitle(p[i], b, Q) \/ IsContext(p[i], noted) \/ IsKept(p[i], b)
    /\ Flat(b) => \A i, j \in 1 .. Len(p) :
          p[i].level = 2 /\ p[j].level = 2 /\ p[i].key = p[j].key /\ p[i].key # "other" => i = j
    /\ \A key \in Q \cap Known : \E i \in 1 .. Len(p) : Keeps(p, b, key, i)
    /\ \A i \in Unmapped(b) : WordsBelow(b, i) \subseteq WordsOf(p)
    /\ noted => "contract" \in Solid(p)

(* From where a section stands in the list of sections.                    *)
LEMMA StandingKeeps ==
    ASSUME NEW p, IsBody(p), NEW b, IsBody(b), NEW key,
           NEW i \in 1 .. Len(p), NEW e \in i .. Len(p), Stands(p, b, key, i, e)
    PROVE  Keeps(p, b, key, i)
<1>0. Len(p) \in Nat /\ p[i].level = 2 /\ p[i].key = key
  BY DEF IsBody, Stands
<1>1. ASSUME \A m \in i + 1 .. e : p[m].level > 2
      PROVE  \A m \in i + 1 .. e : m \in Group(p, i) \ {i}
  <2>1. i .. e \subseteq Group(p, i)
    BY <1>0, <1>1, InGroup
  <2> QED
    BY <1>0, <2>1
<1>2. ASSUME Flat(b) PROVE HasContent(p, i)
  <2>1. CASE p[i].content = "empty"
    <3>1. e > i /\ \A m \in i + 1 .. e : p[m].level > 2
      BY <1>2, <2>1 DEF Stands
    <3>2. i + 1 \in i + 1 .. e /\ i + 1 # i
      BY <1>0, <3>1
    <3>3. i + 1 \in Group(p, i)
      BY <1>1, <3>1, <3>2
    <3> QED
      BY <3>2, <3>3 DEF HasContent
  <2> QED
    BY <2>1 DEF HasContent
<1>3. ASSUME key \in Present(b), NEW f, f = First(b, key)
      PROVE  /\ WordsBelow(b, f) \subseteq WordsOf(p)
             /\ b[f].level >= 2 => /\ WordsBelow(b, f) \subseteq WordsBelow(p, i)
                                   /\ SaidBelow(b, f) \subseteq SaidBelow(p, i)
  <2>1. /\ b[f].words \subseteq p[i].words /\ Said(b[f]) \subseteq Said(p[i])
        /\ \A m \in Group(b, f) \ {f} : \E j \in i + 1 .. e : p[j] = b[m]
        /\ b[f].level >= 2 => \A m \in i + 1 .. e : p[m].level > 2
    BY <1>3 DEF Stands
  <2>2. WordsBelow(b, f) \subseteq WordsOf(p)
    <3> SUFFICES ASSUME NEW w \in WordsBelow(b, f) PROVE w \in WordsOf(p)
      OBVIOUS
    <3>1. CASE w \in b[f].words
      BY <2>1, <3>1, WordsOfHas
    <3>2. CASE w \notin b[f].words
      <4>1. PICK m \in Group(b, f) \ {f} : w \in b[m].heading \cup b[m].words
        BY <3>2 DEF WordsBelow
      <4>2. PICK j \in i + 1 .. e : p[j] = b[m]
        BY <2>1
      <4>3. j \in 1 .. Len(p)
        BY <1>0
      <4>4. w \in p[j].heading \cup p[j].words
        BY <4>1, <4>2
      <4> QED
        BY <4>3, <4>4, WordsOfHas
    <3> QED
      BY <3>1, <3>2
  <2>3. ASSUME b[f].level >= 2
        PROVE  /\ WordsBelow(b, f) \subseteq WordsBelow(p, i)
               /\ SaidBelow(b, f) \subseteq SaidBelow(p, i)
    <3>1. \A m \in Group(b, f) \ {f} : \E j \in Group(p, i) \ {i} : p[j] = b[m]
      <4> SUFFICES ASSUME NEW m \in Group(b, f) \ {f}
                   PROVE  \E j \in Group(p, i) \ {i} : p[j] = b[m]
        OBVIOUS
      <4>1. PICK j \in i + 1 .. e : p[j] = b[m]
        BY <2>1
      <4>2. j \in Group(p, i) \ {i}
        BY <1>1, <2>1, <2>3
      <4> QED
        BY <4>1, <4>2
    <3> QED
      BY <2>1, <3>1, TextIsKept
  <2> QED
    BY <2>2, <2>3
<1> QED
  BY <1>0, <1>2, <1>3 DEF Keeps

LEMMA ProposalIs ==
    ASSUME NEW b, IsBody(b), NEW k
    PROVE  IsProposal(Proposal(k, b), b, ProposedKeys(k, b), Noted(k, b, ProposedKeys(k, b)))
<1> DEFINE Q == ProposedKeys(k, b)
           a == Chained(Sections(b, Q))
           r == Retained(b)
           missing == MissingCoverage(k, b)
           noted == Noted(k, b, Q)
           t == IF missing # {} /\ "acceptance_criteria" \in Q THEN <<Notes(missing)>> ELSE <<>>
<1>1. PICK p : p = Proposal(k, b)
  OBVIOUS
<1>2. p = a \o r \o t
  BY <1>1, Zenon DEF Proposal, Sections
<1>3. IsSections(a, b, Q)
  BY SectionsAre
<1>4. /\ r \in Seq(Section)
      /\ \A j \in 1 .. Len(r) : (IsContext(r[j], FALSE) \/ IsKept(r[j], b)) /\ Worded(r[j])
      /\ \A i \in Unmapped(b) :
            /\ \E j \in 1 .. Len(r) : r[j].words = b[i].words
            /\ \A m \in Group(b, i) \ {i} : \E j \in 1 .. Len(r) : r[j] = b[m]
  <2>1. IsRetained(r, b)
    BY RetainedIs
  <2> HIDE DEF r
  <2> QED
    BY <2>1 DEF IsRetained
<1>5. /\ t \in Seq(Section)
      /\ \A j \in 1 .. Len(t) : IsContext(t[j], noted) /\ Worded(t[j])
      /\ noted => Len(t) = 1 /\ t[1].heading = {"contract"}
  <2>1. missing \cup {"regression"} \subseteq Categories
    BY DEF MissingCoverage, ExpectedCoverage, Categories
  <2>2. PICK h : h = Notes(missing)
    OBVIOUS
  <2>3. CASE noted
    <3>1. h = Other({"contract"}, missing \cup {"regression"})
      BY <2>2 DEF Notes
    <3>2. h \in Section /\ IsContext(h, noted) /\ h.heading = {"contract"} /\ h.content = "text"
      <4>1. PICK w : w = missing \cup {"regression"}
        OBVIOUS
      <4>2. PICK g : g = {"contract"}
        OBVIOUS
      <4>3. w \subseteq Categories /\ h = Other(g, w)
        BY <2>1, <3>1, <4>1, <4>2
      <4>4. /\ h \in Section /\ h.key = "other" /\ h.level = 2 /\ h.heading = g /\ h.words = w
            /\ h.content = "text"
        BY <4>2, <4>3, OtherIs
      <4>5. IsContext(h, noted)
        BY <2>3, <4>2, <4>3, <4>4 DEF IsContext
      <4> QED
        BY <4>2, <4>4, <4>5
    <3>3. Worded(h)
      BY <3>2 DEF Worded
    <3>4. t = <<h>>
      BY <2>2, <2>3 DEF Noted
    <3> HIDE DEF t, noted
    <3> QED
      BY <3>2, <3>3, <3>4
  <2>4. CASE ~noted
    <3>1. t = <<>>
      BY <2>4 DEF Noted
    <3> HIDE DEF t, noted
    <3> QED
      BY <2>4, <3>1
  <2> QED
    BY <2>3, <2>4
<1> HIDE DEF Q, a, r, t, noted
<1>6. a \in Seq(Section)
  BY <1>3 DEF IsSections
<1>14. Joined(p, a, r, t, Section)
  BY <1>2, <1>4, <1>5, <1>6, ThreeParts
<1>7. /\ p \in Seq(Section) /\ Len(p) \in Nat /\ Len(a) \in Nat /\ Len(a) <= Len(p)
      /\ \A i \in 1 .. Len(a) : i \in 1 .. Len(p) /\ p[i] = a[i]
      /\ \A j \in 1 .. Len(r) : Len(a) + j \in 1 .. Len(p) /\ p[Len(a) + j] = r[j]
      /\ \A j \in 1 .. Len(t) : \E i \in 1 .. Len(p) : p[i] = t[j]
      /\ \A i \in 1 .. Len(p) : \/ i \in 1 .. Len(a)
                                \/ \E j \in 1 .. Len(r) : p[i] = r[j]
                                \/ \E j \in 1 .. Len(t) : p[i] = t[j]
  BY <1>14 DEF Joined
<1>8. ASSUME NEW i \in 1 .. Len(a)
      PROVE  (IsTitle(a[i], b, Q) \/ IsKept(a[i], b)) /\ Worded(a[i])
  BY <1>3 DEF IsSections
<1>15. \A h : IsContext(h, FALSE) => IsContext(h, noted)
  BY DEF IsContext
<1>9. ASSUME NEW i \in 1 .. Len(p)
      PROVE  /\ IsTitle(p[i], b, Q) \/ IsContext(p[i], noted) \/ IsKept(p[i], b)
             /\ Worded(p[i])
             /\ i \notin 1 .. Len(a) => IsContext(p[i], noted) \/ IsKept(p[i], b)
  <2>1. CASE i \in 1 .. Len(a)
    BY <1>7, <1>8, <2>1
  <2>2. CASE \E j \in 1 .. Len(r) : p[i] = r[j]
    BY <1>4, <1>15, <2>2
  <2>3. CASE \E j \in 1 .. Len(t) : p[i] = t[j]
    BY <1>5, <2>3
  <2> QED
    BY <1>7, <2>1, <2>2, <2>3
<1>10. IsBody(p)
  BY <1>7, <1>9 DEF IsBody
<1>11. ASSUME Flat(b), NEW i \in 1 .. Len(p), NEW j \in 1 .. Len(p),
              p[i].level = 2, p[j].level = 2, p[i].key = p[j].key, p[i].key # "other"
       PROVE  i = j
  <2>1. i \in 1 .. Len(a)
    BY <1>9, <1>11 DEF IsContext, IsKept
  <2>2. j \in 1 .. Len(a)
    BY <1>9, <1>11 DEF IsContext, IsKept
  <2>3. p[i] = a[i] /\ p[j] = a[j]
    BY <1>7, <2>1, <2>2
  <2> QED
    BY <1>3, <1>11, <2>1, <2>2, <2>3 DEF IsSections
<1>12. ASSUME NEW key \in Q \cap Known
       PROVE  \E i \in 1 .. Len(p) : Keeps(p, b, key, i)
  <2>1. PICK i \in 1 .. Len(a) : \E e \in i .. Len(a) : Stands(a, b, key, i, e)
    BY <1>3 DEF IsSections
  <2>2. PICK e \in i .. Len(a) : Stands(a, b, key, i, e)
    BY <2>1
  <2>3. i \in 1 .. Len(p) /\ p[i] = a[i] /\ e \in i .. Len(p)
    BY <1>7
  <2>4. \A m \in i + 1 .. e : m \in 1 .. Len(a) /\ p[m] = a[m]
    BY <1>7
  <2>5. Stands(p, b, key, i, e)
    BY <2>2, <2>3, <2>4 DEF Stands
  <2> QED
    BY <1>10, <2>3, <2>5, StandingKeeps
<1>13. ASSUME NEW i \in Unmapped(b) PROVE WordsBelow(b, i) \subseteq WordsOf(p)
  <2> SUFFICES ASSUME NEW w \in WordsBelow(b, i) PROVE w \in WordsOf(p)
    OBVIOUS
  <2>1. \A j \in 1 .. Len(r) :
           r[j].heading \subseteq WordsOf(p) /\ r[j].words \subseteq WordsOf(p)
    <3> SUFFICES ASSUME NEW j \in 1 .. Len(r)
                 PROVE  r[j].heading \subseteq WordsOf(p) /\ r[j].words \subseteq WordsOf(p)
      OBVIOUS
    <3>1. PICK m \in 1 .. Len(p) : p[m] = r[j]
      BY <1>7
    <3> QED
      BY <1>10, <3>1, WordsOfHas
  <2>2. CASE w \in b[i].words
    <3>1. PICK j \in 1 .. Len(r) : r[j].words = b[i].words
      BY <1>4
    <3> QED
      BY <2>1, <2>2, <3>1
  <2>3. CASE w \notin b[i].words
    <3>1. PICK m \in Group(b, i) \ {i} : w \in b[m].heading \cup b[m].words
      BY <2>3 DEF WordsBelow
    <3>2. PICK j \in 1 .. Len(r) : r[j] = b[m]
      BY <1>4
    <3> QED
      BY <2>1, <3>1, <3>2
  <2> QED
    BY <2>2, <2>3
<1>16. ASSUME noted PROVE "contract" \in Solid(p)
  <2>1. 1 \in 1 .. Len(t) /\ t[1].heading = {"contract"}
    BY <1>5, <1>16
  <2>2. PICK i \in 1 .. Len(p) : p[i] = t[1]
    BY <1>7, <2>1
  <2> QED
    BY <1>10, <2>1, <2>2, SolidHas
<1> QED
  BY <1>1, <1>9, <1>10, <1>11, <1>12, <1>13, <1>16 DEF IsProposal, Q, noted

(* What is present is known.                                               *)
LEMMA PresentIs ==
    ASSUME NEW b, IsBody(b)
    PROVE  /\ Present(b) \subseteq Known
           /\ \A key : key \in Present(b) <=> key # "other" /\ \E i \in 1 .. Len(b) : b[i].key = key
<1>1. DOMAIN b = 1 .. Len(b) /\ \A i \in 1 .. Len(b) : b[i].key \in Known \cup {"other"}
  BY SectionFields DEF IsBody
<1> QED
  BY <1>1 DEF Present

(* Of a flat body a proposal has each section once, and it is flat.        *)
LEMMA ProposalIsFlat ==
    ASSUME NEW b, IsBody(b), Flat(b), NEW Q, NEW noted, NEW p, IsProposal(p, b, Q, noted)
    PROVE  /\ Flat(p) /\ Present(p) = Q \cap Known
           /\ \A i \in 1 .. Len(p) :
                 p[i].key # "other" => p[i].level = 2 /\ IsTitle(p[i], b, Q)
<1>1. ASSUME NEW i \in 1 .. Len(p)
      PROVE  p[i].key # "other" => p[i].level = 2 /\ IsTitle(p[i], b, Q)
  <2>1. IsTitle(p[i], b, Q) \/ IsContext(p[i], noted) \/ IsKept(p[i], b)
    BY DEF IsProposal
  <2>2. CASE IsTitle(p[i], b, Q)
    BY <2>2 DEF IsTitle
  <2>3. CASE IsContext(p[i], noted)
    BY <2>3 DEF IsContext
  <2>4. CASE IsKept(p[i], b)
    BY <2>4 DEF IsKept
  <2> QED
    BY <2>1, <2>2, <2>3, <2>4
<1>2. Flat(p)
  BY <1>1 DEF Flat
<1>3. IsBody(p)
  BY DEF IsProposal
<1>4. ASSUME NEW key \in Present(p) PROVE key \in Q \cap Known
  <2>1. key \in Known /\ key # "other" /\ \E i \in 1 .. Len(p) : p[i].key = key
    BY <1>3, PresentIs
  <2> QED
    BY <1>1, <2>1 DEF IsTitle
<1>5. ASSUME NEW key \in Q \cap Known PROVE key \in Present(p)
  <2>1. \E i \in 1 .. Len(p) : p[i].key = key
    BY DEF IsProposal, Keeps
  <2> QED
    BY <1>3, <2>1, PresentIs, OtherIsUnknown
<1> QED
  BY <1>1, <1>2, <1>4, <1>5

-----------------------------------------------------------------------------
(* What a step does to a body.                                             *)
LEMMA ResolvedIs ==
    ASSUME NEW h \in Section, NEW w, w = {} \/ \E x \in OwnWords : w = {x}
    PROVE  /\ Resolved(h, w) \in Section /\ Resolved(h, w).key = h.key
           /\ Resolved(h, w).level = h.level /\ Resolved(h, w).heading = h.heading
           /\ Resolved(h, w).content # "unresolved"
           /\ Resolved(h, w).content = "empty" <=> h.content = "empty"
           /\ h.content # "unresolved" => Resolved(h, w) = h
           /\ w = {} => Resolved(h, w).words \cap Triggers \subseteq h.words \cup DocsTriggers
           /\ w = {} /\ h.key # "official_docs" =>
                 Resolved(h, w).words \cap Triggers \subseteq h.words
<1>1. w \subseteq Words
  BY ContractAssumption
<1>2. CASE h.content # "unresolved"
  BY <1>2 DEF Resolved
<1>3. CASE h.content = "unresolved"
  <2>1. PICK v : v = CASE h.key = "official_docs" ->
                              {"fields", "official-url", "provider", "context"}
                       [] h.key = "test_plan" -> Categories \cup w
                       [] OTHER -> w
    OBVIOUS
  <2>2. v \subseteq Words
    BY <1>1, <2>1 DEF Words, Evidence, Categories, Triggers, DocsTriggers
  <2>3. w = {} => v \cap Triggers \subseteq DocsTriggers
    BY <2>1 DEF Triggers, Categories, DocsTriggers
  <2>6. w = {} /\ h.key # "official_docs" => v \cap Triggers = {}
    BY <2>1 DEF Triggers, Categories, DocsTriggers
  <2>4. Resolved(h, w) = [h EXCEPT !.content = "text", !.words = v]
    BY <1>3, <2>1 DEF Resolved
  <2>5. /\ Resolved(h, w) \in Section /\ Resolved(h, w).key = h.key
        /\ Resolved(h, w).level = h.level /\ Resolved(h, w).heading = h.heading
        /\ Resolved(h, w).content = "text" /\ Resolved(h, w).words = v
    BY <2>2, <2>4 DEF Section
  <2> QED
    BY <1>3, <2>3, <2>5, <2>6
<1> QED
  BY <1>2, <1>3

(* Groups depend on levels alone.                                          *)
LEMMA SameGroups ==
    ASSUME NEW b, IsBody(b), NEW p, IsBody(p), Len(p) = Len(b),
           \A i \in 1 .. Len(b) : p[i].level = b[i].level, NEW i \in 1 .. Len(b)
    PROVE  Group(p, i) = Group(b, i)
<1>1. Len(b) \in Nat /\ \A m \in 1 .. Len(b) : b[m].level \in 1 .. 6
  BY SectionFields DEF IsBody
<1>2. PICK e, f : e = End(b, i) /\ f = End(p, i)
  OBVIOUS
<1>3. /\ e \in i .. Len(b) /\ f \in i .. Len(b)
      /\ \A m \in i + 1 .. e : b[m].level > b[i].level
      /\ e < Len(b) => b[e + 1].level <= b[i].level
  BY <1>2, EndIs
<1>4. /\ \A m \in i + 1 .. f : p[m].level > p[i].level
      /\ f < Len(b) => p[f + 1].level <= p[i].level
  BY <1>2, EndIs
<1>5. /\ \A m \in i + 1 .. f : b[m].level > b[i].level
      /\ f < Len(b) => b[f + 1].level <= b[i].level
  <2>1. \A m \in i + 1 .. f : m \in 1 .. Len(b)
    BY <1>1, <1>3
  <2>2. f < Len(b) => f + 1 \in 1 .. Len(b)
    BY <1>1, <1>3
  <2> QED
    BY <1>4, <2>1, <2>2
<1>6. ~(e < f)
  <2> SUFFICES ASSUME e < f PROVE FALSE
    OBVIOUS
  <2>1. e + 1 \in i + 1 .. f /\ e + 1 \in 1 .. Len(b) /\ e < Len(b)
    BY <1>1, <1>3
  <2> QED
    BY <1>1, <1>3, <1>5, <2>1
<1>7. ~(f < e)
  <2> SUFFICES ASSUME f < e PROVE FALSE
    OBVIOUS
  <2>1. f + 1 \in i + 1 .. e /\ f + 1 \in 1 .. Len(b) /\ f < Len(b)
    BY <1>1, <1>3
  <2> QED
    BY <1>1, <1>3, <1>5, <2>1
<1>8. e = f
  BY <1>3, <1>6, <1>7
<1> QED
  BY <1>2, <1>8 DEF Group

(* An answer keeps the headings and what has been said; without words of   *)
(* one's own, no trigger is added by it but those of evidence.             *)
IsFilled(p, b) ==
    /\ IsBody(p) /\ Len(p) = Len(b)
    /\ \A i \in 1 .. Len(b) : /\ p[i].key = b[i].key /\ p[i].level = b[i].level
                              /\ p[i].heading = b[i].heading
                              /\ p[i].content = "empty" <=> b[i].content = "empty"
                              /\ Said(b[i]) \subseteq Said(p[i])
                              /\ Group(p, i) = Group(b, i)

LEMMA FilledIs ==
    ASSUME NEW b, IsBody(b), NEW w, w = {} \/ \E x \in OwnWords : w = {x},
           NEW p, p = [i \in DOMAIN b |-> Resolved(b[i], w)]
    PROVE  /\ IsFilled(p, b)
           /\ w = {} => WordsOf(p) \cap Triggers \subseteq WordsOf(b) \cup DocsTriggers
           /\ w = {} /\ "official_docs" \notin Present(b) =>
                 WordsOf(p) \cap Triggers \subseteq WordsOf(b)
<1>1. DOMAIN b = 1 .. Len(b) /\ Len(b) \in Nat /\ \A i \in 1 .. Len(b) : b[i] \in Section
  BY DEF IsBody
<1>2. \A i \in 1 .. Len(b) :
         /\ Resolved(b[i], w) \in Section /\ Resolved(b[i], w).key = b[i].key
         /\ Resolved(b[i], w).level = b[i].level /\ Resolved(b[i], w).heading = b[i].heading
         /\ Resolved(b[i], w).content # "unresolved"
         /\ Resolved(b[i], w).content = "empty" <=> b[i].content = "empty"
         /\ b[i].content # "unresolved" => Resolved(b[i], w) = b[i]
  BY <1>1, ResolvedIs
<1>3. /\ DOMAIN p = 1 .. Len(b) /\ p = [i \in 1 .. Len(b) |-> p[i]]
      /\ \A i \in 1 .. Len(b) : p[i] = Resolved(b[i], w)
  BY <1>1
<1>4. p \in Seq(Section) /\ Len(p) = Len(b)
  <2>1. PICK N \in Nat : N = Len(b)
    BY <1>1
  <2>2. PICK q \in [1 .. N -> Section] : q = p
    BY <1>2, <1>3, <2>1
  <2>3. q \in Seq(Section) /\ Len(q) = N
    OBVIOUS
  <2> QED
    BY <2>1, <2>2, <2>3
<1>5. ASSUME NEW i \in 1 .. Len(p) PROVE Worded(p[i])
  <2>1. /\ p[i].content # "unresolved" /\ (p[i].content = "empty" => b[i].content = "empty")
        /\ b[i].content # "unresolved" => p[i] = b[i]
        /\ Worded(b[i])
    BY <1>2, <1>3, <1>4 DEF IsBody
  <2> QED
    BY <2>1 DEF Worded
<1>6. IsBody(p)
  BY <1>4, <1>5 DEF IsBody
<1>7. ASSUME NEW i \in 1 .. Len(b) PROVE Group(p, i) = Group(b, i)
  <2>1. \A m \in 1 .. Len(b) : p[m].level = b[m].level
    BY <1>2, <1>3
  <2> QED
    BY <1>4, <1>6, <2>1, SameGroups
<1>8. ASSUME NEW i \in 1 .. Len(b) PROVE Said(b[i]) \subseteq Said(p[i])
  <2>1. CASE b[i].content = "unresolved"
    BY <2>1 DEF Said
  <2>2. CASE b[i].content # "unresolved"
    <3>1. p[i] = b[i]
      BY <1>2, <1>3, <2>2
    <3> QED
      BY <3>1
  <2> QED
    BY <2>1, <2>2
<1>9. IsFilled(p, b)
  BY <1>2, <1>3, <1>4, <1>6, <1>7, <1>8 DEF IsFilled
<1>10. ASSUME w = {}, NEW x \in WordsOf(p) \cap Triggers, NEW D,
              \A i \in 1 .. Len(b) : p[i].words \cap Triggers \subseteq b[i].words \cup D
       PROVE  x \in WordsOf(b) \cup D
  <2>1. PICK i \in 1 .. Len(b) : x \in p[i].heading \cup p[i].words
    BY <1>3 DEF WordsOf
  <2>2. b[i].heading \subseteq WordsOf(b) /\ b[i].words \subseteq WordsOf(b)
    BY WordsOfHas
  <2>3. p[i].heading = b[i].heading /\ p[i].words \cap Triggers \subseteq b[i].words \cup D
    BY <1>2, <1>3, <1>10
  <2> QED
    BY <2>1, <2>2, <2>3
<1>11. w = {} => \A i \in 1 .. Len(b) : p[i].words \cap Triggers \subseteq b[i].words \cup DocsTriggers
  BY <1>1, <1>3, ResolvedIs
<1>12. ASSUME w = {}, "official_docs" \notin Present(b), NEW i \in 1 .. Len(b)
       PROVE  p[i].words \cap Triggers \subseteq b[i].words \cup {}
  <2>1. b[i].key # "official_docs"
    BY <1>1, <1>12 DEF Present
  <2> QED
    BY <1>1, <1>3, <1>12, <2>1, ResolvedIs
<1>13. w = {} => WordsOf(p) \cap Triggers \subseteq WordsOf(b) \cup DocsTriggers
  BY <1>10, <1>11
<1>14. w = {} /\ "official_docs" \notin Present(b) =>
          WordsOf(p) \cap Triggers \subseteq WordsOf(b) \cup {}
  BY <1>10, <1>12
<1> QED
  BY <1>9, <1>13, <1>14

BodyInv == IsBody(body) /\ (~offLevel => Flat(body)) /\ rounds \in Nat

LEMMA BodyInit == ContractInit => BodyInv
<1> SUFFICES ASSUME ContractInit PROVE BodyInv
  OBVIOUS
<1>1. body \in Seq(Section) /\ Len(body) = 0 /\ rounds \in Nat
  BY DEF ContractInit
<1> QED
  BY <1>1 DEF BodyInv, IsBody, Flat

LEMMA BodyNext ==
    ASSUME BodyInv, [ContractNext]_contractVars
    PROVE  BodyInv'
<1>0. IsBody(body) /\ (~offLevel => Flat(body)) /\ body \in Seq(Section) /\ Len(body) \in Nat
  BY DEF BodyInv, IsBody
<1>5. rounds' \in Nat
  <2>1. rounds \in Nat
    BY DEF BodyInv
  <2>2. rounds' \in {rounds, rounds + 1, 0}
    BY DEF ContractNext, AddSection, Propose, FillIn, contractVars
  <2> QED
    BY <2>1, <2>2
<1>1. CASE AddSection
  <2>1. PICK key \in OwnKeys \cup {"other"}, level \in Levels, w \in {{}} \cup {{x} : x \in OwnWords},
             c \in {"text", "empty"} :
           /\ body' = Append(body, [key |-> key, level |-> level, heading |-> {},
                                    words |-> IF c = "text" THEN w ELSE {}, content |-> c])
           /\ offLevel' = (offLevel \/ (level # 2 /\ key # "other"))
    BY <1>1 DEF AddSection
  <2>2. PICK h : h = [key |-> key, level |-> level, heading |-> {},
                      words |-> IF c = "text" THEN w ELSE {}, content |-> c]
    OBVIOUS
  <2>3. w \subseteq Words /\ key \in Known \cup {"other"} /\ level \in 1 .. 6
    BY ContractAssumption
  <2>4. /\ h \in Section /\ Worded(h)
        /\ h.key = key /\ h.level = level
    BY <2>2, <2>3 DEF Section, Worded
  <2>5. PICK s : s = body /\ s \in Seq(Section)
    BY <1>0
  <2>6. PICK t : t = Append(s, h)
    OBVIOUS
  <2>7. /\ t \in Seq(Section) /\ Len(t) = Len(s) + 1 /\ t[Len(s) + 1] = h
        /\ \A i \in 1 .. Len(s) : t[i] = s[i]
    BY <2>4, <2>5, <2>6
  <2>8. \A i \in 1 .. Len(t) : i \in 1 .. Len(s) \/ t[i] = h
    <3>1. Len(s) \in Nat
      BY <2>5
    <3>2. \A i \in 1 .. Len(t) : i \in 1 .. Len(s) \/ i = Len(s) + 1
      BY <2>7, <3>1
    <3> QED
      BY <2>7, <3>2
  <2>9. body' = t
    BY <2>1, <2>2, <2>5, <2>6
  <2>10. IsBody(body')
    BY <1>0, <2>4, <2>5, <2>7, <2>8, <2>9 DEF IsBody
  <2>11. ASSUME ~offLevel' PROVE Flat(body')
    <3>1. Flat(body) /\ (h.level # 2 => h.key = "other")
      BY <1>0, <2>1, <2>4, <2>11
    <3> QED
      BY <2>5, <2>7, <2>8, <2>9, <3>1 DEF Flat
  <2> QED
    BY <1>5, <2>10, <2>11 DEF BodyInv
<1>2. CASE Propose
  <2>1. body' = Proposal(kind, body) /\ offLevel' = offLevel
    BY <1>2 DEF Propose
  <2>2. PICK Q, noted : IsProposal(body', body, Q, noted)
    BY <1>0, <2>1, ProposalIs
  <2>3. IsBody(body')
    BY <2>2 DEF IsProposal
  <2>4. ~offLevel' => Flat(body')
    BY <1>0, <2>1, <2>2, ProposalIsFlat
  <2> QED
    BY <1>5, <2>3, <2>4 DEF BodyInv
<1>3. CASE FillIn
  <2>1. PICK w \in {{}} \cup {{x} : x \in OwnWords} :
           body' = [i \in DOMAIN body |-> Resolved(body[i], w)]
    BY <1>3 DEF FillIn
  <2>2. /\ IsBody(body') /\ Len(body') = Len(body)
        /\ \A i \in 1 .. Len(body) : /\ body'[i].key = body[i].key
                                     /\ body'[i].level = body[i].level
    <3>1. PICK q : q = body'
      OBVIOUS
    <3>2. w = {} \/ \E x \in OwnWords : w = {x}
      OBVIOUS
    <3>3. IsFilled(q, body)
      BY <1>0, <2>1, <3>1, <3>2, FilledIs
    <3> QED
      BY <3>1, <3>3 DEF IsFilled
  <2>3. offLevel' = offLevel
    BY <1>3 DEF FillIn
  <2> QED
    BY <1>0, <1>5, <2>2, <2>3 DEF BodyInv, Flat
<1>4. CASE UNCHANGED contractVars
  BY <1>4 DEF contractVars, BodyInv
<1> QED
  BY <1>1, <1>2, <1>3, <1>4 DEF ContractNext

LEMMA FirstOfOne ==
    ASSUME NEW b, IsBody(b), NEW i \in 1 .. Len(b), b[i].key # "other",
           \A j \in 1 .. Len(b) : b[j].key = b[i].key => j = i
    PROVE  b[i].key \in Present(b) /\ First(b, b[i].key) = i
<1>1. b[i].key \in Present(b)
  BY PresentIs
<1> QED
  BY <1>1, FirstIs

(* What the proposal keeps of a section.                                   *)
KeepsSection(b, p, key, off) ==
    LET first == First(b, key) IN
    /\ WordsBelow(b, first) \subseteq WordsOf(p)
    /\ b[first].level >= 2 =>
         \E i \in DOMAIN p : /\ p[i].key = key /\ (~off => i = First(p, key))
                             /\ WordsBelow(b, first) \subseteq WordsBelow(p, i)

LEMMA TextStep ==
    ASSUME BodyInv, [ContractNext]_contractVars, rounds' = rounds + 1
    PROVE  /\ \A key \in Present(body) : KeepsSection(body, body', key, offLevel)
           /\ \A i \in Unmapped(body) : WordsBelow(body, i) \subseteq WordsOf(body')
<1>0. IsBody(body) /\ (~offLevel => Flat(body)) /\ rounds \in Nat
  BY DEF BodyInv
<1>1. Propose
  <2>1. rounds' # rounds /\ rounds' # 0
    BY <1>0
  <2>2. ~AddSection /\ ~UNCHANGED contractVars
    BY <2>1 DEF AddSection, contractVars
  <2>3. ~FillIn
    BY <2>1 DEF FillIn
  <2> QED
    BY <2>2, <2>3 DEF ContractNext
<1> DEFINE Q == ProposedKeys(kind, body)
           noted == Noted(kind, body, Q)
<1>2. PICK p : p = body'
  OBVIOUS
<1>3. IsProposal(p, body, Q, noted)
  BY <1>0, <1>1, <1>2, ProposalIs DEF Propose
<1>4. Present(body) \subseteq Q
  BY DEF ProposedKeys
<1> HIDE DEF Q, noted
<1>5. IsBody(p) /\ DOMAIN p = 1 .. Len(p)
  BY <1>3 DEF IsProposal, IsBody
<1>6. ASSUME NEW key \in Present(body)
      PROVE  KeepsSection(body, p, key, offLevel)
  <2>1. key \in Q \cap Known /\ key # "other"
    BY <1>0, <1>4, PresentIs
  <2>2. PICK i \in 1 .. Len(p) : Keeps(p, body, key, i)
    BY <1>3, <2>1 DEF IsProposal
  <2>3. /\ p[i].key = key /\ p[i].level = 2
        /\ WordsBelow(body, First(body, key)) \subseteq WordsOf(p)
        /\ body[First(body, key)].level >= 2 =>
              WordsBelow(body, First(body, key)) \subseteq WordsBelow(p, i)
    BY <2>2 DEF Keeps
  <2>4. ASSUME ~offLevel PROVE i = First(p, key)
    <3>1. \A j \in 1 .. Len(p) : p[j].key # "other" => p[j].level = 2
      BY <1>0, <1>3, <2>4, ProposalIsFlat
    <3>2. \A j \in 1 .. Len(p) : p[j].key = key => j = i
      BY <1>0, <1>3, <2>1, <2>3, <2>4, <3>1 DEF IsProposal
    <3> QED
      BY <1>5, <2>1, <2>3, <3>2, FirstOfOne
  <2> QED
    BY <1>5, <2>3, <2>4 DEF KeepsSection
<1>7. \A i \in Unmapped(body) : WordsBelow(body, i) \subseteq WordsOf(p)
  BY <1>3 DEF IsProposal
<1> QED
  BY <1>2, <1>6, <1>7

(* Every proposal keeps what people have written, over whatever sections,  *)
(* on whatever levels and however long the body is.                        *)
THEOREM ProposalsKeepText == ContractSpec => ProposalKeepsText
<1>1. ContractInit => BodyInv
  BY BodyInit
<1>2. BodyInv /\ [ContractNext]_contractVars => BodyInv'
  BY BodyNext
<1>3. BodyInv /\ [ContractNext]_contractVars =>
         [rounds' = rounds + 1 =>
            /\ \A key \in Present(body) :
                 LET first == First(body, key) IN
                 /\ WordsBelow(body, first) \subseteq WordsOf(body')
                 /\ body[first].level >= 2 =>
                      \E i \in DOMAIN body' :
                        /\ body'[i].key = key /\ (~offLevel => i = First(body', key))
                        /\ WordsBelow(body, first) \subseteq WordsBelow(body', i)
            /\ \A i \in Unmapped(body) : WordsBelow(body, i) \subseteq WordsOf(body')]_contractVars
  BY TextStep DEF KeepsSection
<1> QED
  BY <1>1, <1>2, <1>3, PTL DEF ContractSpec, ProposalKeepsText

-----------------------------------------------------------------------------
(* Requirements: each has alternatives, finite sets of known sections.     *)
Sound(r) == r # {} /\ \A a \in r : a \subseteq Known /\ IsFiniteSet(a)
Met(r, P) == \E a \in r : a \subseteq P

LEMMA OneIsSound ==
    ASSUME NEW keys \in SUBSET Known, keys # {}
    PROVE  Sound(One(keys))
<1>1. \A x : IsFiniteSet({x})
  BY FS_Singleton
<1> QED
  BY <1>1 DEF Sound, One

LEMMA KeysAreKnown ==
    /\ {"summary", "user_problem", "evidence_confidence", "current_behavior", "root_cause",
        "expected_behavior", "trigger", "acceptance_criteria"} \subseteq Known
    /\ {"test_plan", "scope_files", "non_goals", "dependencies_traceability", "decisions_blockers",
        "offline_behavior", "live_behavior_cost", "external_requirements"} \subseteq Known
    /\ {"official_docs", "compatibility_json", "migration_rollback", "release_priority", "question",
        "investigation_tasks", "deliverable", "decision_criteria"} \subseteq Known
    /\ {"thesis", "release_gate", "children_backlog", "workflow"} \subseteq Known
<1>1. DOMAIN SectionOrder = 1 .. 32 /\ \A n \in 1 .. 32 : SectionOrder[n] \in Known
  BY OrderIs
<1>2. /\ SectionOrder[1] = "summary" /\ SectionOrder[2] = "user_problem"
      /\ SectionOrder[3] = "evidence_confidence" /\ SectionOrder[4] = "current_behavior"
      /\ SectionOrder[5] = "root_cause" /\ SectionOrder[6] = "expected_behavior"
      /\ SectionOrder[7] = "trigger" /\ SectionOrder[8] = "acceptance_criteria"
  BY DEF SectionOrder
<1>3. /\ SectionOrder[9] = "test_plan" /\ SectionOrder[11] = "scope_files"
      /\ SectionOrder[12] = "non_goals" /\ SectionOrder[13] = "dependencies_traceability"
      /\ SectionOrder[14] = "decisions_blockers" /\ SectionOrder[15] = "offline_behavior"
      /\ SectionOrder[16] = "live_behavior_cost" /\ SectionOrder[17] = "external_requirements"
  BY DEF SectionOrder
<1>4. /\ SectionOrder[18] = "official_docs" /\ SectionOrder[19] = "compatibility_json"
      /\ SectionOrder[20] = "migration_rollback" /\ SectionOrder[21] = "release_priority"
      /\ SectionOrder[23] = "question" /\ SectionOrder[24] = "investigation_tasks"
      /\ SectionOrder[25] = "deliverable" /\ SectionOrder[26] = "decision_criteria"
  BY DEF SectionOrder
<1>5. /\ SectionOrder[27] = "thesis" /\ SectionOrder[28] = "release_gate"
      /\ SectionOrder[29] = "children_backlog" /\ SectionOrder[30] = "workflow"
  BY DEF SectionOrder
<1> QED
  BY <1>1, <1>2, <1>3, <1>4, <1>5

LEMMA ScopeIsSound == Sound(Scope)
<1>1. IsFiniteSet({"scope_files"})
  BY FS_Singleton
<1>2. IsFiniteSet({"scope_files"} \cup {"non_goals"})
  BY <1>1, FS_AddElement
<1>3. {"scope_files"} \cup {"non_goals"} = {"scope_files", "non_goals"}
  OBVIOUS
<1> QED
  BY <1>1, <1>2, <1>3, KeysAreKnown DEF Sound, Scope

LEMMA RequirementsAreSound == \A k, b : \A r \in Required(k, b) : Sound(r)
<1> SUFFICES ASSUME NEW k, NEW b, NEW r \in Required(k, b) PROVE Sound(r)
  OBVIOUS
<1>1. CASE r \in Core(k)
  <2>1. r = Scope \/ \E keys : r = One(keys) /\ keys \subseteq Known /\ keys # {}
    BY <1>1, KeysAreKnown DEF Core, Common
  <2> QED
    BY <2>1, OneIsSound, ScopeIsSound
<1>2. CASE r \in OfKind(k)
  <2>1. \E keys : r = One(keys) /\ keys \subseteq Known /\ keys # {}
    BY <1>2, KeysAreKnown DEF OfKind
  <2> QED
    BY <2>1, OneIsSound
<1>3. CASE r \in Conditional(k, b)
  <2>1. \E keys : r = One(keys) /\ keys \subseteq Known /\ keys # {}
    BY <1>3, KeysAreKnown DEF Conditional
  <2> QED
    BY <2>1, OneIsSound
<1> QED
  BY <1>1, <1>2, <1>3 DEF Required

LEMMA PreferredIs ==
    ASSUME NEW S, S # {}, \A a \in S : IsFiniteSet(a)
    PROVE  Preferred(S) \in S
<1> DEFINE C == {Cardinality(a) : a \in S}
           small == {a \in S : \A c \in S : Cardinality(a) <= Cardinality(c)}
<1>1. C \subseteq Nat /\ C # {}
  BY FS_CardinalityType
<1>2. PICK n \in C : \A m \in C : n <= m
  <2> HIDE DEF C
  <2> QED
    BY <1>1, LeastElement
<1>3. PICK a \in S : n = Cardinality(a)
  OBVIOUS
<1>4. a \in small
  BY <1>2, <1>3
<1>5. \E d \in small : d \subseteq Foremost \/ \A c \in small : ~(c \subseteq Foremost)
  BY <1>4
<1> QED
  BY <1>5 DEF Preferred

(* What is chosen is an alternative, and one that is there if there is one *)
LEMMA ChosenIs ==
    ASSUME NEW r, Sound(r), NEW P
    PROVE  Chosen(r, P) \in r /\ (Met(r, P) => Chosen(r, P) \subseteq P)
<1> DEFINE whole == {a \in r : a \subseteq P}
           part == {a \in r : a \cap P # {}}
<1>1. r # {} /\ \A a \in r : IsFiniteSet(a)
  BY DEF Sound
<1>2. CASE whole # {}
  <2>1. Chosen(r, P) = Preferred(whole)
    BY <1>2 DEF Chosen
  <2>2. Preferred(whole) \in whole
    BY <1>1, <1>2, PreferredIs
  <2> QED
    BY <2>1, <2>2
<1>3. CASE whole = {} /\ part # {}
  <2>1. Chosen(r, P) = Preferred(part)
    BY <1>3 DEF Chosen
  <2>2. Preferred(part) \in part
    BY <1>1, <1>3, PreferredIs
  <2> QED
    BY <1>3, <2>1, <2>2 DEF Met
<1>4. CASE whole = {} /\ part = {}
  <2>1. Chosen(r, P) = Preferred(r)
    BY <1>4 DEF Chosen
  <2>2. Preferred(r) \in r
    BY <1>1, PreferredIs
  <2> QED
    BY <1>4, <2>1, <2>2 DEF Met
<1> QED
  BY <1>2, <1>3, <1>4

(* The sections of a proposal: those there, and what a requirement that is *)
(* not met takes.                                                          *)
LEMMA ProposedAre ==
    ASSUME NEW b, IsBody(b), NEW k
    PROVE  /\ ProposedKeys(k, b) \subseteq Known /\ Present(b) \subseteq ProposedKeys(k, b)
           /\ \A r \in Required(k, b) : Met(r, ProposedKeys(k, b))
           /\ \A key \in ProposedKeys(k, b) :
                 \/ key \in Present(b) \/ key = "release_priority"
                 \/ \E r \in Required(k, b) : ~Met(r, Present(b)) /\ \E a \in r : key \in a
<1> DEFINE P == Present(b)
<1>1. ProposedKeys(k, b) = P \cup Recommended(b) \cup UNION {Chosen(r, P) : r \in Required(k, b)}
  BY DEF ProposedKeys
<1>2. \A r \in Required(k, b) :
         Chosen(r, P) \in r /\ Chosen(r, P) \subseteq Known /\ (Met(r, P) => Chosen(r, P) \subseteq P)
  BY RequirementsAreSound, ChosenIs DEF Sound
<1>3. P \subseteq Known
  BY PresentIs
<1>4. Recommended(b) \subseteq {"release_priority"} /\ "release_priority" \in Known
  BY KeysAreKnown DEF Recommended
<1> HIDE DEF P
<1>5. ASSUME NEW r \in Required(k, b) PROVE Met(r, ProposedKeys(k, b))
  <2>1. Chosen(r, P) \subseteq ProposedKeys(k, b)
    BY <1>1
  <2> QED
    BY <1>2, <2>1 DEF Met
<1>6. ASSUME NEW key \in ProposedKeys(k, b)
      PROVE  \/ key \in P \/ key = "release_priority"
             \/ \E r \in Required(k, b) : ~Met(r, P) /\ \E a \in r : key \in a
  <2>1. CASE \E r \in Required(k, b) : key \in Chosen(r, P)
    BY <1>2, <2>1
  <2> QED
    BY <1>1, <1>4, <2>1
<1>7. ProposedKeys(k, b) \subseteq Known
  BY <1>1, <1>2, <1>3, <1>4
<1> QED
  BY <1>1, <1>5, <1>6, <1>7 DEF P

-----------------------------------------------------------------------------
(* The requirements that the titles of a proposal may add.                 *)
Docs == One({"official_docs"})
Late == {One({"live_behavior_cost"}), One({"offline_behavior"}), One({"compatibility_json"}), Docs}

DocsNeeded(b) == KnownProvider(b) \/ UnknownProvider(b)

Titles(Q) == UNION {TitleWords(key) : key \in Q}

Titled(b) == \A i \in 1 .. Len(b) : b[i].key # "other" => b[i].heading = TitleWords(b[i].key)

Single(b) ==
    \A i, j \in 1 .. Len(b) : b[i].key = b[j].key /\ b[i].key # "other" => i = j

Whole(b) == \A i \in 1 .. Len(b) : b[i].key # "other" => HasContent(b, i)

LEMMA TitlesOf ==
    ASSUME NEW b, IsBody(b), Titled(b), NEW key \in Present(b)
    PROVE  TitleWords(key) \subseteq WordsOf(b)
<1>1. key # "other" /\ \E i \in 1 .. Len(b) : b[i].key = key
  BY PresentIs
<1>2. PICK i \in 1 .. Len(b) : b[i].key = key
  BY <1>1
<1>3. b[i].heading = TitleWords(key)
  BY <1>1, <1>2 DEF Titled
<1> QED
  BY <1>3, WordsOfHas

(* A condition that the new text adds, other than evidence, comes from the *)
(* title of a section; if that is there, only a late one is not met.       *)
LEMMA ConditionalIs ==
    ASSUME NEW k, NEW b, NEW p, NEW Q,
           WordsOf(p) \cap Triggers \subseteq WordsOf(b) \cup Titles(Q) \cup DocsTriggers,
           NEW r \in Conditional(k, p), r \notin Conditional(k, b), r # Docs
    PROVE  \E key \in Q : /\ ~(TitleWords(key) \subseteq WordsOf(b))
                          /\ Met(r, Q) \/ r \in Late
                          /\ key = "compatibility_json" => Met(r, Q)
                          /\ key \notin {"live_behavior_cost", "offline_behavior",
                                         "release_priority", "official_docs"}
<1> DEFINE New(x) == x \in Titles(Q) /\ x \notin WordsOf(b)
<1>1. \A x \in Triggers \ DocsTriggers : x \in WordsOf(p) => x \in WordsOf(b) \/ New(x)
  OBVIOUS
<1>2. {"live", "decision", "external", "compat", "migration"} \subseteq Triggers \ DocsTriggers
  BY DEF Triggers, DocsTriggers
<1>3. ASSUME NEW x, New(x)
      PROVE  \E key \in Q : x \in TitleWords(key) /\ ~(TitleWords(key) \subseteq WordsOf(b))
  BY <1>3 DEF Titles
<1>4. \A x : {x} \in One({x})
  BY DEF One
<1>5. \A x \in Q : Met(One({x}), Q)
  BY <1>4 DEF Met
<1> HIDE DEF New
<1>6. \/ r \in {One({"live_behavior_cost"}), One({"offline_behavior"})} /\ New("live")
      \/ r = One({"decisions_blockers"}) /\ New("decision")
      \/ r = One({"external_requirements"}) /\ New("external")
      \/ r = One({"compatibility_json"}) /\ New("compat")
      \/ r = One({"migration_rollback"}) /\ New("migration")
  BY <1>1, <1>2 DEF Conditional, Docs
<1>7. CASE r \in {One({"live_behavior_cost"}), One({"offline_behavior"})} /\ New("live")
  <2>1. PICK key \in Q : "live" \in TitleWords(key) /\ ~(TitleWords(key) \subseteq WordsOf(b))
    BY <1>3, <1>7
  <2>2. key = "external_requirements"
    BY <2>1 DEF TitleWords
  <2> QED
    BY <1>7, <2>1, <2>2 DEF Late
<1>8. CASE r = One({"decisions_blockers"}) /\ New("decision")
  <2>1. PICK key \in Q : "decision" \in TitleWords(key) /\ ~(TitleWords(key) \subseteq WordsOf(b))
    BY <1>3, <1>8
  <2>2. key = "decisions_blockers"
    BY <2>1 DEF TitleWords
  <2> QED
    BY <1>5, <1>8, <2>1, <2>2
<1>9. CASE r = One({"external_requirements"}) /\ New("external")
  <2>1. PICK key \in Q : "external" \in TitleWords(key) /\ ~(TitleWords(key) \subseteq WordsOf(b))
    BY <1>3, <1>9
  <2>2. key = "external_requirements"
    BY <2>1 DEF TitleWords
  <2> QED
    BY <1>5, <1>9, <2>1, <2>2
<1>11. CASE r = One({"compatibility_json"}) /\ New("compat")
  <2>1. PICK key \in Q : "compat" \in TitleWords(key) /\ ~(TitleWords(key) \subseteq WordsOf(b))
    BY <1>3, <1>11
  <2>2. key = "compatibility_json" \/ key = "migration_rollback"
    BY <2>1 DEF TitleWords
  <2> QED
    BY <1>5, <1>11, <2>1, <2>2 DEF Late
<1>12. CASE r = One({"migration_rollback"}) /\ New("migration")
  <2>1. PICK key \in Q : "migration" \in TitleWords(key) /\ ~(TitleWords(key) \subseteq WordsOf(b))
    BY <1>3, <1>12
  <2>2. key = "migration_rollback"
    BY <2>1 DEF TitleWords
  <2> QED
    BY <1>5, <1>12, <2>1, <2>2
<1> QED
  BY <1>6, <1>7, <1>8, <1>9, <1>11, <1>12

(* A proposal adds titles, and "contract" where it leaves something open.  *)
LEMMA ProposalWords ==
    ASSUME NEW b, IsBody(b), NEW Q, NEW noted, NEW p, IsProposal(p, b, Q, noted)
    PROVE  /\ WordsOf(p) \cap Triggers \subseteq WordsOf(b) \cup Titles(Q) \cup {"contract"}
           /\ ~noted /\ (\A key \in Q : ~Hole(b, key)) =>
                 WordsOf(p) \cap Triggers \subseteq WordsOf(b) \cup Titles(Q)
<1>1. DOMAIN p = 1 .. Len(p)
  BY DEF IsProposal, IsBody
<1>2. ASSUME NEW x \in WordsOf(p) \cap Triggers
      PROVE  \/ x \in WordsOf(b) \cup Titles(Q)
             \/ x = "contract" /\ (noted \/ \E key \in Q : Hole(b, key))
  <2>1. PICK i \in 1 .. Len(p) : x \in p[i].heading \cup p[i].words
    BY <1>1, <1>2 DEF WordsOf
  <2>2. IsTitle(p[i], b, Q) \/ IsContext(p[i], noted) \/ IsKept(p[i], b)
    BY DEF IsProposal
  <2>3. CASE IsTitle(p[i], b, Q)
    <3>1. x \in Placeholder => x = "contract"
      BY <1>2 DEF Placeholder, Triggers, DocsTriggers
    <3> QED
      BY <2>1, <2>3, <3>1 DEF IsTitle, Titles
  <2>4. CASE IsContext(p[i], noted)
    <3>1. x \notin Categories
      BY <1>2 DEF Triggers, DocsTriggers, Categories
    <3> QED
      BY <2>1, <2>4, <3>1 DEF IsContext
  <2>5. CASE IsKept(p[i], b)
    <3>1. PICK m \in 1 .. Len(b) : p[i].heading = b[m].heading /\ p[i].words = b[m].words
      BY <2>5 DEF IsKept
    <3> QED
      BY <2>1, <3>1, WordsOfHas
  <2> QED
    BY <2>2, <2>3, <2>4, <2>5
<1> QED
  BY <1>2

-----------------------------------------------------------------------------
(* What proposals have done to a flat body.                                *)
Proposed(k, b) ==
    /\ Titled(b) /\ Single(b) /\ Whole(b)
    /\ \A r \in Required(k, b) : Met(r, Present(b)) \/ r \in Late

(* Every category is in something a person has written about acceptance.   *)
Covered(k, b) ==
    \A x \in ExpectedCoverage(k) : \E i \in 1 .. Len(b) :
        b[i].key \in {"acceptance_criteria", "test_plan", "edge_cases"} /\ x \in SaidBelow(b, i)

(* Evidence is there, or nothing names a provider, or what has been written *)
(* requires it for good, or the next proposal has nothing left to note.    *)
DocsSettled(k, b) ==
    \/ "official_docs" \in Present(b)
    \/ WordsOf(b) \cap {"provider", "scope"} = {}
    \/ "contract" \in Solid(b)
    \/ "acceptance_criteria" \in Present(b) => Covered(k, b)

Settled(k, b) ==
    /\ \A r \in Required(k, b) : Met(r, Present(b)) \/ r = Docs
    /\ "release" \in WordsOf(b) => "release_priority" \in Present(b)
    /\ DocsSettled(k, b)

Complete(k, b) == \A r \in Required(k, b) : Met(r, Present(b))

ContractInv ==
    /\ BodyInv
    /\ ~offLevel /\ rounds >= 1 => Proposed(kind, body)
    /\ ~offLevel /\ rounds >= 2 => Settled(kind, body)
    /\ ~offLevel /\ rounds >= 3 => Complete(kind, body)

LEMMA DocsAreNeeded ==
    ASSUME NEW k, NEW b
    PROVE  /\ DocsNeeded(b) => Docs \in Required(k, b)
           /\ Docs \in Conditional(k, b) => DocsNeeded(b)
           /\ \A P : Met(Docs, P) <=> "official_docs" \in P
<1>1. \A P : Met(Docs, P) <=> "official_docs" \in P
  BY DEF Met, Docs, One
<1>2. DocsNeeded(b) => Docs \in Required(k, b)
  BY DEF DocsNeeded, Required, Conditional, Docs
<1>3. ASSUME NEW key, key # "official_docs" PROVE One({key}) # Docs
  <2>1. {key} \in One({key}) /\ {key} # {"official_docs"}
    BY <1>3 DEF One
  <2>2. \A a \in Docs : a = {"official_docs"}
    BY DEF Docs, One
  <2> QED
    BY <2>1, <2>2
<1>4. /\ One({"live_behavior_cost"}) # Docs /\ One({"offline_behavior"}) # Docs
      /\ One({"decisions_blockers"}) # Docs /\ One({"external_requirements"}) # Docs
      /\ One({"compatibility_json"}) # Docs /\ One({"migration_rollback"}) # Docs
  BY <1>3
<1>5. Docs \in Conditional(k, b) => DocsNeeded(b)
  BY <1>4 DEF DocsNeeded, Conditional
<1> QED
  BY <1>1, <1>2, <1>5

(* A first proposal meets all but late requirements...                     *)
LEMMA FirstProposal ==
    ASSUME NEW b, IsBody(b), Flat(b), NEW k, NEW p, p = Proposal(k, b)
    PROVE  Proposed(k, p) /\ Present(p) = ProposedKeys(k, b)
<1> DEFINE Q == ProposedKeys(k, b)
           noted == Noted(k, b, Q)
<1>1. IsProposal(p, b, Q, noted)
  BY ProposalIs
<1>2. Q \subseteq Known /\ \A r \in Required(k, b) : Met(r, Q)
  BY ProposedAre
<1> HIDE DEF Q, noted
<1>3. /\ Present(p) = Q /\ IsBody(p)
      /\ \A i \in 1 .. Len(p) : p[i].key # "other" => p[i].level = 2 /\ IsTitle(p[i], b, Q)
  <2>1. Present(p) = Q \cap Known
    BY <1>1, ProposalIsFlat
  <2>2. \A i \in 1 .. Len(p) : p[i].key # "other" => p[i].level = 2 /\ IsTitle(p[i], b, Q)
    BY <1>1, ProposalIsFlat
  <2>3. IsBody(p)
    BY <1>1 DEF IsProposal
  <2> QED
    BY <1>2, <2>1, <2>2, <2>3
<1>4. Titled(p) /\ Single(p)
  BY <1>1, <1>3 DEF Titled, Single, IsTitle, IsProposal
<1>5. WordsOf(p) \cap Triggers \subseteq WordsOf(b) \cup Titles(Q) \cup DocsTriggers
  BY <1>1, ProposalWords DEF DocsTriggers
<1>6. ASSUME NEW r \in Required(k, p) PROVE Met(r, Q) \/ r \in Late
  <2>1. CASE r \in Required(k, b)
    BY <1>2, <2>1
  <2>2. CASE r = Docs
    BY <2>2 DEF Late
  <2>3. CASE r \notin Required(k, b) /\ r # Docs
    <3>1. r \in Conditional(k, p) /\ r \notin Conditional(k, b)
      BY <2>3 DEF Required
    <3> QED
      BY <1>5, <2>3, <3>1, ConditionalIs
  <2> QED
    BY <2>1, <2>2, <2>3
<1>7. ASSUME NEW i \in 1 .. Len(p), p[i].key # "other" PROVE HasContent(p, i)
  <2>1. p[i].key \in Q \cap Known /\ p[i].level = 2
    BY <1>2, <1>3, <1>7 DEF IsTitle
  <2>2. PICK j \in 1 .. Len(p) : Keeps(p, b, p[i].key, j)
    BY <1>1, <2>1 DEF IsProposal
  <2>3. p[j].key = p[i].key /\ HasContent(p, j)
    BY <2>2 DEF Keeps
  <2>4. i = j
    BY <1>4, <1>7, <2>3 DEF Single
  <2> QED
    BY <2>3, <2>4
<1>8. Whole(p)
  BY <1>7 DEF Whole
<1> QED
  BY <1>3, <1>4, <1>6, <1>8 DEF Proposed, Q

(* The sections the next one adds.                                         *)
LEMMA NewKeys ==
    ASSUME NEW b, IsBody(b), NEW k, NEW key \in ProposedKeys(k, b)
    PROVE  \A L : (\A r \in Required(k, b) : Met(r, Present(b)) \/ r \in L) =>
              \/ key \in Present(b) \/ key = "release_priority"
              \/ \E r \in L : \E a \in r : key \in a
BY ProposedAre

LEMMA NextKeys ==
    ASSUME NEW b, IsBody(b), NEW k, Proposed(k, b), NEW key \in ProposedKeys(k, b)
    PROVE  \/ key \in Present(b)
           \/ key \in {"release_priority", "live_behavior_cost", "offline_behavior",
                       "compatibility_json", "official_docs"}
<1>1. key \in Present(b) \/ key = "release_priority" \/ \E r \in Late : \E a \in r : key \in a
  <2>1. \A x \in Required(k, b) : Met(x, Present(b)) \/ x \in Late
    BY DEF Proposed
  <2> QED
    BY <2>1, NewKeys
<1>2. ASSUME NEW r \in Late, NEW a \in r, key \in a
      PROVE  key \in {"live_behavior_cost", "offline_behavior", "compatibility_json",
                      "official_docs"}
  BY <1>2 DEF Late, Docs, One
<1> QED
  BY <1>1, <1>2

(* The next one adds no other requirement than evidence.                   *)
LEMMA NextRequirements ==
    ASSUME NEW b, IsBody(b), Flat(b), NEW k, Proposed(k, b), NEW p, p = Proposal(k, b),
           NEW r \in Required(k, p)
    PROVE  Met(r, Present(p)) \/ r = Docs
<1> DEFINE Q == ProposedKeys(k, b)
           noted == Noted(k, b, Q)
<1>1. IsProposal(p, b, Q, noted)
  BY ProposalIs
<1>2. (\A x \in Required(k, b) : Met(x, Q)) /\ Present(p) = Q
  BY ProposedAre, FirstProposal
<1>3. \A key \in Q : \/ key \in Present(b)
                     \/ key \in {"release_priority", "live_behavior_cost", "offline_behavior",
                                 "compatibility_json", "official_docs"}
  BY NextKeys
<1>4. \A key \in Present(b) : TitleWords(key) \subseteq WordsOf(b)
  BY TitlesOf DEF Proposed
<1> HIDE DEF Q, noted
<1>5. WordsOf(p) \cap Triggers \subseteq WordsOf(b) \cup Titles(Q) \cup DocsTriggers
  BY <1>1, ProposalWords DEF DocsTriggers
<1>6. CASE r \in Required(k, b)
  BY <1>2, <1>6
<1>7. CASE r \notin Required(k, b) /\ r # Docs
  <2>1. r \in Conditional(k, p) /\ r \notin Conditional(k, b)
    BY <1>7 DEF Required
  <2>2. PICK key \in Q : /\ ~(TitleWords(key) \subseteq WordsOf(b))
                         /\ Met(r, Q) \/ r \in Late
                         /\ key = "compatibility_json" => Met(r, Q)
                         /\ key \notin {"live_behavior_cost", "offline_behavior",
                                        "release_priority", "official_docs"}
    BY <1>5, <1>7, <2>1, ConditionalIs, Zenon
  <2> QED
    BY <1>2, <1>3, <1>4, <2>2
<1> QED
  BY <1>6, <1>7

(* What has been written about acceptance stays there.                     *)
LEMMA CoverageIsKept ==
    ASSUME NEW b, IsBody(b), Flat(b), NEW k, Proposed(k, b), NEW p, p = Proposal(k, b),
           Covered(k, b)
    PROVE  Covered(k, p)
<1> SUFFICES ASSUME NEW x \in ExpectedCoverage(k)
             PROVE  \E i \in 1 .. Len(p) :
                       /\ p[i].key \in {"acceptance_criteria", "test_plan", "edge_cases"}
                       /\ x \in SaidBelow(p, i)
  BY DEF Covered
<1> DEFINE Q == ProposedKeys(k, b)
           noted == Noted(k, b, Q)
<1>1. IsProposal(p, b, Q, noted)
  BY ProposalIs
<1>2. Present(b) \subseteq Q /\ Q \subseteq Known
  BY ProposedAre
<1> HIDE DEF Q, noted
<1>3. PICK i \in 1 .. Len(b) :
         /\ b[i].key \in {"acceptance_criteria", "test_plan", "edge_cases"}
         /\ x \in SaidBelow(b, i)
  BY DEF Covered
<1>4. b[i].key # "other" /\ b[i].level = 2
  BY <1>3 DEF Flat
<1>5. b[i].key \in Present(b) /\ First(b, b[i].key) = i
  <2>1. \A j \in 1 .. Len(b) : b[j].key = b[i].key => j = i
    BY <1>4 DEF Proposed, Single
  <2> QED
    BY <1>4, <2>1, FirstOfOne
<1>6. PICK j \in 1 .. Len(p) : Keeps(p, b, b[i].key, j)
  BY <1>1, <1>2, <1>5 DEF IsProposal
<1>7. p[j].key = b[i].key /\ SaidBelow(b, i) \subseteq SaidBelow(p, j)
  BY <1>4, <1>5, <1>6 DEF Keeps
<1> QED
  BY <1>3, <1>7

LEMMA CoveredIs ==
    ASSUME NEW b, IsBody(b), NEW k
    PROVE  /\ Covered(k, b) => MissingCoverage(k, b) = {}
           /\ MissingCoverage(k, b) = {} /\ (\A i \in 1 .. Len(b) : b[i].content # "unresolved") =>
                 Covered(k, b)
<1> DEFINE keys == {"acceptance_criteria", "test_plan", "edge_cases"}
<1>1. DOMAIN b = 1 .. Len(b)
  BY DEF IsBody
<1>2. \A x : x \in MissingCoverage(k, b) <=>
         x \in ExpectedCoverage(k) /\ ~\E i \in 1 .. Len(b) : b[i].key \in keys /\ x \in WordsBelow(b, i)
  BY <1>1 DEF MissingCoverage
<1>3. \A i \in 1 .. Len(b) : SaidBelow(b, i) \subseteq WordsBelow(b, i)
  BY BelowIsIn
<1>4. ASSUME \A i \in 1 .. Len(b) : b[i].content # "unresolved", NEW i \in 1 .. Len(b)
      PROVE  WordsBelow(b, i) \subseteq SaidBelow(b, i)
  <2>1. Group(b, i) \subseteq 1 .. Len(b)
    <3>1. i .. i \subseteq 1 .. Len(b) /\ \A m \in i + 1 .. i : b[m].level > b[i].level
      OBVIOUS
    <3> QED
      BY <3>1, EndIs, InGroup DEF Group
  <2>2. \A m \in 1 .. Len(b) : Said(b[m]) = b[m].words
    BY <1>4 DEF Said
  <2> QED
    BY <2>1, <2>2 DEF WordsBelow, SaidBelow
<1>5. ASSUME Covered(k, b), NEW x \in MissingCoverage(k, b) PROVE FALSE
  <2>1. PICK i \in 1 .. Len(b) : b[i].key \in keys /\ x \in SaidBelow(b, i)
    BY <1>2, <1>5 DEF Covered
  <2> QED
    BY <1>2, <1>3, <1>5, <2>1
<1>6. ASSUME MissingCoverage(k, b) = {}, \A i \in 1 .. Len(b) : b[i].content # "unresolved"
      PROVE  Covered(k, b)
  BY <1>2, <1>4, <1>6 DEF Covered
<1> QED
  BY <1>5, <1>6

(* Evidence that the next proposal does not take may only be required by   *)
(* what it already holds.                                                  *)
LEMMA NextDocs ==
    ASSUME NEW b, IsBody(b), Flat(b), NEW k, Proposed(k, b), NEW p, p = Proposal(k, b)
    PROVE  DocsSettled(k, p)
<1> DEFINE Q == ProposedKeys(k, b)
           noted == Noted(k, b, Q)
<1>1. IsProposal(p, b, Q, noted)
  BY ProposalIs
<1>2. (\A r \in Required(k, b) : Met(r, Q)) /\ Present(p) = Q
  BY ProposedAre, FirstProposal
<1> HIDE DEF Q
<1> SUFFICES ASSUME "official_docs" \notin Q, WordsOf(p) \cap {"provider", "scope"} # {}
             PROVE  "contract" \in Solid(p) \/ ("acceptance_criteria" \in Q => Covered(k, p))
  BY <1>2 DEF DocsSettled
<1>3. ~DocsNeeded(b)
  BY <1>2, DocsAreNeeded
<1>4. WordsOf(b) \cap {"provider", "scope"} # {}
  <2>1. WordsOf(p) \cap Triggers \subseteq WordsOf(b) \cup Titles(Q) \cup {"contract"}
    BY <1>1, ProposalWords
  <2>2. \A key : TitleWords(key) \cap {"provider", "scope"} = {}
    BY DEF TitleWords
  <2>3. Titles(Q) \cap {"provider", "scope"} = {}
    BY <2>2 DEF Titles
  <2>4. {"provider", "scope"} \subseteq Triggers /\ "contract" \notin {"provider", "scope"}
    BY DEF Triggers, DocsTriggers
  <2> QED
    BY <2>1, <2>3, <2>4
<1>5. "contract" \notin WordsOf(b)
  BY <1>3, <1>4 DEF DocsNeeded, KnownProvider, UnknownProvider
<1>6. ASSUME NEW i \in 1 .. Len(b) PROVE b[i].content # "unresolved"
  <2>1. Worded(b[i]) /\ b[i].words \subseteq WordsOf(b)
    BY WordsOfHas DEF IsBody
  <2> QED
    BY <1>5, <2>1 DEF Worded
<1>7. CASE noted
  BY <1>1, <1>7 DEF IsProposal
<1>8. CASE ~noted /\ "acceptance_criteria" \in Q
  <2>1. MissingCoverage(k, b) = {}
    BY <1>8 DEF Noted
  <2>2. Covered(k, b)
    BY <1>6, <2>1, CoveredIs
  <2> QED
    BY <2>2, CoverageIsKept
<1> QED
  BY <1>7, <1>8

(* The next proposal meets all requirements but that of evidence...        *)
LEMMA NextProposal ==
    ASSUME NEW b, IsBody(b), Flat(b), NEW k, Proposed(k, b), NEW p, p = Proposal(k, b)
    PROVE  Settled(k, p)
<1> DEFINE Q == ProposedKeys(k, b)
           noted == Noted(k, b, Q)
<1>1. IsProposal(p, b, Q, noted)
  BY ProposalIs
<1>2. Present(p) = Q
  BY FirstProposal
<1>3. \A key \in Q : \/ key \in Present(b)
                     \/ key \in {"release_priority", "live_behavior_cost", "offline_behavior",
                                 "compatibility_json", "official_docs"}
  BY NextKeys
<1>4. \A key \in Present(b) : TitleWords(key) \subseteq WordsOf(b)
  BY TitlesOf DEF Proposed
<1>5. "release" \in WordsOf(b) => "release_priority" \in Q
  BY DEF Recommended, ProposedKeys
<1> HIDE DEF Q, noted
<1>6. ASSUME "release" \in WordsOf(p) PROVE "release" \in WordsOf(b)
  <2>1. WordsOf(p) \cap Triggers \subseteq WordsOf(b) \cup Titles(Q) \cup {"contract"}
    BY <1>1, ProposalWords
  <2>2. "release" \in Triggers
    BY DEF Triggers
  <2>3. CASE "release" \in Titles(Q)
    <3>1. PICK key \in Q : "release" \in TitleWords(key)
      BY <2>3 DEF Titles
    <3>2. key = "release_gate"
      BY <3>1 DEF TitleWords
    <3> QED
      BY <1>3, <1>4, <3>1, <3>2
  <2> QED
    BY <1>6, <2>1, <2>2, <2>3
<1>7. DocsSettled(k, p) /\ \A r \in Required(k, p) : Met(r, Present(p)) \/ r = Docs
  BY NextDocs, NextRequirements
<1> QED
  BY <1>2, <1>5, <1>6, <1>7 DEF Settled

(* ... which the one after it meets.                                       *)
LEMMA LaterProposal ==
    ASSUME NEW b, IsBody(b), Flat(b), NEW k, Proposed(k, b), Settled(k, b),
           NEW p, p = Proposal(k, b)
    PROVE  Complete(k, p)
<1> DEFINE Q == ProposedKeys(k, b)
           noted == Noted(k, b, Q)
<1>1. IsProposal(p, b, Q, noted)
  BY ProposalIs
<1>2. /\ \A r \in Required(k, b) : Met(r, Q)
      /\ Present(p) = Q /\ Present(b) \subseteq Q
  BY ProposedAre, FirstProposal
<1>3. \A key \in Q : key \in Present(b) \cup {"release_priority", "official_docs"}
  <2> SUFFICES ASSUME NEW key \in Q PROVE key \in Present(b) \cup {"release_priority", "official_docs"}
    OBVIOUS
  <2>1. PICK L : L = {Docs}
    OBVIOUS
  <2>2. \A r \in Required(k, b) : Met(r, Present(b)) \/ r \in L
    BY <2>1 DEF Settled
  <2>3. key \in Present(b) \/ key = "release_priority" \/ \E r \in L : \E a \in r : key \in a
    BY <2>2, NewKeys, Zenon
  <2> QED
    BY <2>1, <2>3 DEF Docs, One
<1>9. "release_priority" \in Q => "release_priority" \in Present(b)
  <2>1. ASSUME "release_priority" \in Q, "release_priority" \notin Present(b) PROVE FALSE
    <3>1. Recommended(b) = {}
      BY <2>1 DEF Settled, Recommended
    <3>2. PICK r \in Required(k, b) : "release_priority" \in Chosen(r, Present(b))
      BY <2>1, <3>1 DEF ProposedKeys
    <3>3. Sound(r) /\ (Met(r, Present(b)) \/ r = Docs)
      BY RequirementsAreSound DEF Settled
    <3>4. Chosen(r, Present(b)) \in r /\ (Met(r, Present(b)) => Chosen(r, Present(b)) \subseteq Present(b))
      BY <3>3, ChosenIs
    <3> QED
      BY <2>1, <3>2, <3>3, <3>4 DEF Docs, One
  <2> QED
    BY <2>1
<1>4. \A key \in Present(b) : TitleWords(key) \subseteq WordsOf(b)
  BY TitlesOf DEF Proposed
<1> SUFFICES ASSUME NEW r \in Required(k, p) PROVE Met(r, Q)
  BY <1>2 DEF Complete
<1> HIDE DEF Q
<1>5. Met(r, Q) \/ r = Docs
  BY <1>2, NextRequirements
<1>6. ASSUME r = Docs, "official_docs" \notin Q PROVE FALSE
  <2>1. ~DocsNeeded(b) /\ Docs \notin Required(k, b)
    BY <1>2, <1>6, DocsAreNeeded
  <2>2. DocsNeeded(p)
    <3>1. Docs \in Conditional(k, p)
      BY <1>6, <2>1 DEF Required
    <3> QED
      BY <3>1, DocsAreNeeded
  <2>3. Q \subseteq Present(b)
    BY <1>3, <1>6, <1>9
  <2>4. Titles(Q) \subseteq WordsOf(b)
    BY <1>4, <2>3 DEF Titles
  <2>5. WordsOf(p) \cap Triggers \subseteq WordsOf(b) \cup {"contract"}
    BY <1>1, <2>4, ProposalWords
  <2>6. DocsTriggers \subseteq Triggers
    BY DEF Triggers
  <2>7. WordsOf(b) \cap {"provider", "scope"} # {}
    BY <2>2, <2>5, <2>6 DEF DocsNeeded, KnownProvider, UnknownProvider, DocsTriggers
  <2>8. "contract" \notin WordsOf(b)
    BY <2>1, <2>7 DEF DocsNeeded, KnownProvider, UnknownProvider
  <2>9. "contract" \notin Solid(b)
    <3>1. Solid(b) \subseteq WordsOf(b)
      BY DEF Solid, WordsOf, Said
    <3> QED
      BY <2>8, <3>1
  <2>10. "official_docs" \notin Present(b)
    BY <1>2, <1>6
  <2>11. "acceptance_criteria" \in Present(b) => Covered(k, b)
    BY <2>7, <2>9, <2>10 DEF Settled, DocsSettled
  <2>12. ~noted
    BY <2>3, <2>11, CoveredIs DEF Noted
  <2>13. ASSUME NEW key \in Q PROVE ~Hole(b, key)
    <3>1. key \in Present(b)
      BY <2>3, <2>13
    <3>2. First(b, key) \in 1 .. Len(b) /\ b[First(b, key)].key = key /\ key # "other"
      BY <3>1, FirstIs, PresentIs
    <3> QED
      BY <3>1, <3>2 DEF Hole, Proposed, Whole
  <2>14. WordsOf(p) \cap Triggers \subseteq WordsOf(b) \cup Titles(Q)
    BY <1>1, <2>12, <2>13, ProposalWords
  <2>15. WordsOf(p) \cap DocsTriggers \subseteq WordsOf(b)
    BY <2>4, <2>6, <2>14
  <2> QED
    BY <2>1, <2>2, <2>15 DEF DocsNeeded, KnownProvider, UnknownProvider, DocsTriggers
<1> QED
  BY <1>5, <1>6, DocsAreNeeded

-----------------------------------------------------------------------------
(* An answer without words of one's own changes nothing about that.        *)
LEMMA AnswerKeeps ==
    ASSUME NEW b, IsBody(b), NEW k, NEW p, p = [i \in DOMAIN b |-> Resolved(b[i], {})]
    PROVE  /\ Proposed(k, b) => Proposed(k, p)
           /\ Settled(k, b) => Settled(k, p)
           /\ Complete(k, b) => Complete(k, p)
<1>1. /\ IsFilled(p, b)
      /\ WordsOf(p) \cap Triggers \subseteq WordsOf(b) \cup DocsTriggers
      /\ "official_docs" \notin Present(b) => WordsOf(p) \cap Triggers \subseteq WordsOf(b)
  BY FilledIs
<1>2. /\ IsBody(p) /\ Len(p) = Len(b)
      /\ \A i \in 1 .. Len(b) : /\ p[i].key = b[i].key /\ p[i].heading = b[i].heading
                                /\ p[i].content = "empty" <=> b[i].content = "empty"
                                /\ Said(b[i]) \subseteq Said(p[i])
                                /\ Group(p, i) = Group(b, i)
  BY <1>1 DEF IsFilled
<1>3. Present(p) = Present(b)
  <2>1. DOMAIN p = 1 .. Len(b) /\ DOMAIN b = 1 .. Len(b)
    BY <1>2 DEF IsBody
  <2>2. \A i \in 1 .. Len(b) : p[i].key = b[i].key
    BY <1>2
  <2> QED
    BY <2>1, <2>2 DEF Present
<1>4. ASSUME NEW r \in Required(k, p) PROVE r \in Required(k, b) \/ Met(r, Present(b))
  <2>1. CASE r \in Core(k) \cup OfKind(k)
    BY <2>1 DEF Required
  <2>2. CASE r \in Conditional(k, p) /\ r # Docs
    <3>1. WordsOf(p) \cap Triggers \subseteq WordsOf(b) \cup Titles({}) \cup DocsTriggers
      BY <1>1
    <3> QED
      BY <2>2, <3>1, ConditionalIs DEF Required
  <2>3. CASE r \in Conditional(k, p) /\ r = Docs /\ "official_docs" \in Present(b)
    BY <2>3, DocsAreNeeded
  <2>4. CASE r \in Conditional(k, p) /\ r = Docs /\ "official_docs" \notin Present(b)
    <3>1. DocsNeeded(p)
      BY <2>4, DocsAreNeeded
    <3>2. WordsOf(p) \cap Triggers \subseteq WordsOf(b) /\ DocsTriggers \subseteq Triggers
      BY <1>1, <2>4 DEF Triggers
    <3>3. DocsNeeded(b)
      BY <3>1, <3>2 DEF DocsNeeded, KnownProvider, UnknownProvider, DocsTriggers
    <3> QED
      BY <2>4, <3>3, DocsAreNeeded
  <2> QED
    BY <2>1, <2>2, <2>3, <2>4 DEF Required
<1>5. Titled(b) => Titled(p)
  BY <1>2 DEF Titled
<1>6. Single(b) => Single(p)
  <2> SUFFICES ASSUME Single(b), NEW i \in 1 .. Len(p), NEW j \in 1 .. Len(p),
                      p[i].key = p[j].key, p[i].key # "other"
               PROVE  i = j
    BY DEF Single
  <2>1. i \in 1 .. Len(b) /\ j \in 1 .. Len(b)
    BY <1>2
  <2>2. b[i].key = b[j].key /\ b[i].key # "other"
    BY <1>2, <2>1
  <2> QED
    BY <2>1, <2>2 DEF Single
<1>7. Whole(b) => Whole(p)
  BY <1>2 DEF Whole, HasContent
<1>8. Proposed(k, b) => Proposed(k, p)
  BY <1>3, <1>4, <1>5, <1>6, <1>7 DEF Proposed
<1>9. Complete(k, b) => Complete(k, p)
  BY <1>3, <1>4 DEF Complete
<1>10. "release" \in WordsOf(p) => "release" \in WordsOf(b)
  <2>1. "release" \in Triggers /\ "release" \notin DocsTriggers
    BY DEF Triggers, DocsTriggers
  <2> QED
    BY <1>1, <2>1
<1>11. ASSUME Covered(k, b) PROVE Covered(k, p)
  <2> SUFFICES ASSUME NEW x \in ExpectedCoverage(k)
               PROVE  \E i \in 1 .. Len(p) :
                         /\ p[i].key \in {"acceptance_criteria", "test_plan", "edge_cases"}
                         /\ x \in SaidBelow(p, i)
    BY DEF Covered
  <2>1. PICK i \in 1 .. Len(b) :
           /\ b[i].key \in {"acceptance_criteria", "test_plan", "edge_cases"}
           /\ x \in SaidBelow(b, i)
    BY <1>11 DEF Covered
  <2>2. Group(b, i) \subseteq 1 .. Len(b)
    <3>1. i .. i \subseteq 1 .. Len(b) /\ \A m \in i + 1 .. i : b[m].level > b[i].level
      OBVIOUS
    <3> QED
      BY <3>1, EndIs, InGroup DEF Group
  <2>3. x \in SaidBelow(p, i)
    <3>1. CASE x \in Said(b[i])
      BY <1>2, <3>1 DEF SaidBelow
    <3>2. CASE x \notin Said(b[i])
      <4>1. PICK j \in Group(b, i) \ {i} : x \in b[j].heading \cup Said(b[j])
        BY <2>1, <3>2 DEF SaidBelow
      <4>2. j \in Group(p, i) \ {i} /\ x \in p[j].heading \cup Said(p[j])
        BY <1>2, <2>2, <4>1
      <4> QED
        BY <4>2 DEF SaidBelow
    <3> QED
      BY <3>1, <3>2
  <2> QED
    BY <1>2, <2>1, <2>3
<1>12. ASSUME "contract" \in Solid(b) PROVE "contract" \in Solid(p)
  <2>1. DOMAIN b = 1 .. Len(b)
    BY DEF IsBody
  <2>2. PICK i \in 1 .. Len(b) : "contract" \in b[i].heading \cup Said(b[i])
    BY <1>12, <2>1 DEF Solid
  <2>3. "contract" \in p[i].heading \cup Said(p[i]) /\ i \in 1 .. Len(p)
    BY <1>2, <2>2
  <2> QED
    BY <1>2, <2>3, SolidHas
<1>13. DocsSettled(k, b) => DocsSettled(k, p)
  <2>1. {"provider", "scope"} \subseteq Triggers
    BY DEF Triggers, DocsTriggers
  <2> QED
    BY <1>1, <1>3, <1>11, <1>12, <2>1 DEF DocsSettled
<1>14. Settled(k, b) => Settled(k, p)
  BY <1>3, <1>4, <1>10, <1>13 DEF Settled
<1> QED
  BY <1>8, <1>9, <1>14

LEMMA ContractStep ==
    ASSUME ContractInv, [ContractNext]_contractVars
    PROVE  ContractInv'
<1>0. BodyInv' /\ IsBody(body) /\ (~offLevel => Flat(body)) /\ rounds \in Nat
  BY BodyNext DEF ContractInv, BodyInv
<1>1. CASE AddSection
  <2>1. rounds' = 0
    BY <1>1 DEF AddSection
  <2> QED
    BY <1>0, <2>1 DEF ContractInv
<1>2. CASE Propose
  <2>1. body' = Proposal(kind, body) /\ offLevel' = offLevel /\ kind' = kind /\ rounds' = rounds + 1
    BY <1>2 DEF Propose
  <2>2. ASSUME ~offLevel PROVE Proposed(kind, body')
    BY <1>0, <2>1, <2>2, FirstProposal
  <2>3. ASSUME ~offLevel, rounds >= 1 PROVE Settled(kind, body')
    BY <1>0, <2>1, <2>3, NextProposal DEF ContractInv
  <2>4. ASSUME ~offLevel, rounds >= 2 PROVE Complete(kind, body')
    <3>1. rounds >= 1
      BY <1>0, <2>4
    <3> QED
      BY <1>0, <2>1, <2>4, <3>1, LaterProposal DEF ContractInv
  <2>5. (rounds' >= 2 => rounds >= 1) /\ (rounds' >= 3 => rounds >= 2)
    BY <1>0, <2>1
  <2> QED
    BY <1>0, <2>1, <2>2, <2>3, <2>4, <2>5 DEF ContractInv
<1>3. CASE FillIn
  <2>1. PICK w \in {{}} \cup {{x} : x \in OwnWords} :
           /\ body' = [i \in DOMAIN body |-> Resolved(body[i], w)]
           /\ rounds' = IF w = {} THEN rounds ELSE 0
           /\ offLevel' = offLevel /\ kind' = kind
    BY <1>3 DEF FillIn
  <2>2. CASE w # {}
    BY <1>0, <2>1, <2>2 DEF ContractInv
  <2>3. CASE w = {}
    <3>1. /\ Proposed(kind, body) => Proposed(kind, body')
          /\ Settled(kind, body) => Settled(kind, body')
          /\ Complete(kind, body) => Complete(kind, body')
      BY <1>0, <2>1, <2>3, AnswerKeeps
    <3> QED
      BY <1>0, <2>1, <2>3, <3>1 DEF ContractInv
  <2> QED
    BY <2>2, <2>3
<1>4. CASE UNCHANGED contractVars
  BY <1>4 DEF contractVars, ContractInv, BodyInv
<1> QED
  BY <1>1, <1>2, <1>3, <1>4 DEF ContractNext

LEMMA ConformantIs == ContractInv => FilledProposalIsConformant
<1> SUFFICES ASSUME ContractInv, rounds >= 3, ~offLevel, Flawless(body),
                    \A i \in DOMAIN body : body[i].content # "unresolved"
             PROVE  GovernanceState(kind, body) = "conformant"
  BY DEF FilledProposalIsConformant
<1>0. IsBody(body) /\ DOMAIN body = 1 .. Len(body) /\ rounds \in Nat
  BY DEF ContractInv, BodyInv, IsBody
<1>1. MissingRequired(kind, body) = {}
  BY DEF ContractInv, Complete, MissingRequired, Met
<1>2. Single(body)
  BY <1>0 DEF ContractInv, Proposed
<1>3. \A i \in DOMAIN body : ~Unresolved(body, i)
  <2> SUFFICES ASSUME NEW i \in DOMAIN body PROVE ~Unresolved(body, i)
    OBVIOUS
  <2>1. End(body, i) \in i .. Len(body) /\ i \in 1 .. Len(body)
    BY <1>0, EndIs
  <2>2. Group(body, i) \subseteq DOMAIN body
    BY <1>0, <2>1 DEF Group
  <2> QED
    BY <2>2 DEF Unresolved
<1>4. /\ Forbidden(kind) \cap Present(body) = {} /\ "malformed" \notin WordsOf(body)
      /\ DocsAreSound(body)
  BY DEF Flawless
<1>5. Errors(kind, body) = {}
  BY <1>0, <1>1, <1>2, <1>3, <1>4 DEF Errors, Single
<1> QED
  BY <1>5 DEF GovernanceState

(* Three proposals and an answer to every question make a contract whole,  *)
(* whatever the author had written and however much of it.                 *)
THEOREM ThreeProposalsSuffice == ContractSpec => []FilledProposalIsConformant
<1>1. ContractInit => ContractInv
  BY BodyInit DEF ContractInit, ContractInv
<1>2. ContractInv /\ [ContractNext]_contractVars => ContractInv'
  BY ContractStep
<1> QED
  BY <1>1, <1>2, ConformantIs, PTL DEF ContractSpec
=============================================================================
