------------------------- MODULE StoreListingProofs -------------------------
(***************************************************************************)
(* What a listing of a changing bucket still says of it, for any number of *)
(* keys, any limit of the pages and any listings at once.                  *)
(***************************************************************************)
EXTENDS StoreListing, SequenceTheorems, TLAPS

\* The keys collected so far are in order, up to the token.
Collected(c) ==
  /\ Increasing(items[c])
  /\ at[c] = "listing" => \A i \in DOMAIN items[c] : items[c][i] <= token[c]

\* None that stayed has been passed over, and none is made up.
Faithful(c) ==
  /\ at[c] = "listing" =>
       /\ kept[c] \subseteq bucket /\ bucket \subseteq met[c]
       /\ {k \in kept[c] : k <= token[c]} \subseteq Range(items[c])
  /\ at[c] = "answered" => kept[c] \subseteq Range(items[c])
  /\ Range(items[c]) \subseteq met[c]

ListingInv == TypeOK /\ \A c \in Clients : Collected(c) /\ Faithful(c)

---------------------------------------------------------------------------

LEMMA KeysAreNumbers == Keys \subseteq Nat \ {0}
BY ListingAssumption

\* A page: keys of the rest, in order, none left out before its last.
LEMMA PageShape ==
  ASSUME NEW rest \in SUBSET Keys, NEW page \in Pages(rest)
  PROVE  /\ page \in Seq(Keys) /\ Range(page) \subseteq rest /\ Increasing(page)
         /\ \A i \in DOMAIN page, other \in rest \ Range(page) : page[i] < other
         /\ Range(page) # rest =>
              /\ page # <<>> /\ Last(page) \in Range(page)
              /\ \A i \in DOMAIN page : page[i] <= Last(page)
              /\ \A other \in rest : other <= Last(page) => other \in Range(page)
<1>1. PICK m \in 0..PageLimit : page \in [1..m -> rest]
  BY DEF Pages, SeqOf
<1>2. m \in Nat
  BY <1>1, ListingAssumption
<1>3. page \in Seq(Keys) /\ page \in Seq(rest) /\ Len(page) = m /\ DOMAIN page = 1..m
  BY <1>1, <1>2
<1>4. Range(page) \subseteq rest
  BY <1>1 DEF Range
<1>5. /\ Increasing(page)
      /\ page = <<>> => rest = {}
      /\ \A i \in DOMAIN page, other \in rest \ Range(page) : page[i] < other
  BY DEF Pages
<1>6. ASSUME Range(page) # rest
      PROVE  /\ page # <<>> /\ Last(page) \in Range(page)
             /\ \A i \in DOMAIN page : page[i] <= Last(page)
             /\ \A other \in rest : other <= Last(page) => other \in Range(page)
  <2>1. page # <<>>
    <3>1. page = <<>> => rest = {}
      BY <1>5
    <3>2. rest = {} => Range(page) = rest
      BY <1>4
    <3>3. QED
      BY <1>6, <3>1, <3>2
  <2>2. m \in DOMAIN page /\ Last(page) = page[m]
    BY <1>2, <1>3, <2>1, EmptySeq DEF Last
  <2>3. Last(page) \in Range(page)
    BY <2>2 DEF Range
  <2>4. \A i \in DOMAIN page : page[i] \in Nat
    BY <1>1, <1>3, KeysAreNumbers
  <2>5. \A i \in DOMAIN page : page[i] <= Last(page)
    <3> TAKE i \in DOMAIN page
    <3>1. i = m \/ i < m
      BY <1>2, <1>3
    <3>2. QED
      <4>1. i < m => page[i] < page[m]
        BY <1>5, <2>2 DEF Increasing
      <4>2. page[i] \in Nat /\ page[m] \in Nat
        BY <2>2, <2>4
      <4>3. QED
        BY <2>2, <3>1, <4>1, <4>2
  <2>6. ASSUME NEW other \in rest, other <= Last(page)
        PROVE  other \in Range(page)
    <3>1. Last(page) \in Nat /\ other \in Nat
      BY <2>2, <2>4, KeysAreNumbers
    <3>2. other \notin Range(page) => Last(page) < other
      BY <1>5, <2>2
    <3>3. QED
      BY <2>6, <3>1, <3>2
  <2>7. QED
    BY <2>1, <2>3, <2>5, <2>6
<1>7. QED
  BY <1>3, <1>4, <1>5, <1>6

\* Appending what lies behind keeps the order.
LEMMA IncreasingConcat ==
  ASSUME NEW s \in Seq(Keys), NEW t \in Seq(Keys), Increasing(s), Increasing(t),
         \A i \in DOMAIN s, j \in DOMAIN t : s[i] < t[j]
  PROVE  /\ s \o t \in Seq(Keys) /\ Increasing(s \o t)
         /\ Range(s \o t) = Range(s) \cup Range(t)
<1>1. /\ s \o t \in Seq(Keys) /\ Len(s) \in Nat /\ Len(t) \in Nat
      /\ DOMAIN s = 1..Len(s) /\ DOMAIN t = 1..Len(t)
      /\ DOMAIN (s \o t) = 1..(Len(s) + Len(t))
      /\ \A i \in 1..(Len(s) + Len(t)) :
           (s \o t)[i] = IF i <= Len(s) THEN s[i] ELSE t[i - Len(s)]
  BY ConcatProperties, LenProperties
<1>2. Increasing(s \o t)
  <2> SUFFICES ASSUME NEW i \in 1..(Len(s) + Len(t)), NEW j \in 1..(Len(s) + Len(t)), i < j
               PROVE  (s \o t)[i] < (s \o t)[j]
    BY <1>1 DEF Increasing
  <2>1. CASE j <= Len(s)
    BY <1>1, <2>1 DEF Increasing
  <2>2. CASE i <= Len(s) /\ ~(j <= Len(s))
    <3>1. i \in DOMAIN s /\ j - Len(s) \in DOMAIN t
      BY <1>1, <2>2
    <3>2. QED
      BY <1>1, <2>2, <3>1
  <2>3. CASE ~(i <= Len(s))
    <3>1. /\ i - Len(s) \in DOMAIN t /\ j - Len(s) \in DOMAIN t
          /\ i - Len(s) < j - Len(s) /\ ~(j <= Len(s))
      BY <1>1, <2>3
    <3>2. QED
      BY <1>1, <2>3, <3>1 DEF Increasing
  <2>4. QED
    BY <1>1, <2>1, <2>2, <2>3
<1>3. Range(s \o t) = Range(s) \cup Range(t)
  <2>1. \A i \in DOMAIN s : i \in DOMAIN (s \o t) /\ (s \o t)[i] = s[i]
    BY <1>1
  <2>2. \A j \in DOMAIN t : Len(s) + j \in DOMAIN (s \o t) /\ (s \o t)[Len(s) + j] = t[j]
    BY <1>1
  <2>3. \A i \in DOMAIN (s \o t) :
          \/ i \in DOMAIN s /\ (s \o t)[i] = s[i]
          \/ i - Len(s) \in DOMAIN t /\ (s \o t)[i] = t[i - Len(s)]
    BY <1>1
  <2>4. QED
    BY <2>1, <2>2, <2>3, SMTT(30) DEF Range
<1>4. QED
  BY <1>1, <1>2, <1>3

LEMMA IncreasingInjective ==
  ASSUME NEW s \in Seq(Keys), Increasing(s)
  PROVE  IsInjective(s)
<1>1. /\ s \in [1..Len(s) -> Keys] /\ DOMAIN s = 1..Len(s) /\ Len(s) \in Nat
      /\ \A i \in DOMAIN s : s[i] \in Nat
  <2>1. s \in [1..Len(s) -> Keys] /\ DOMAIN s = 1..Len(s) /\ Len(s) \in Nat
    BY LenProperties
  <2>2. QED
    BY <2>1, KeysAreNumbers
<1>2. \A i, j \in DOMAIN s : i = j \/ i < j \/ j < i
  BY <1>1
<1>3. QED
  BY <1>1, <1>2 DEF Increasing, IsInjective

---------------------------------------------------------------------------

\* A page takes the listing on, or ends it.
LEMMA PageKeeps ==
  ASSUME ListingInv, NEW c \in Clients, Page(c)
  PROVE  TypeOK' /\ Collected(c)' /\ Faithful(c)'
<1>1. /\ at[c] = "listing" /\ items[c] \in Seq(Keys) /\ token[c] \in Keys \cup {None}
      /\ bucket \subseteq Keys /\ UNCHANGED <<bucket, kept, met>>
  BY DEF Page, ListingInv, TypeOK
<1>2. PICK page \in Pages(After(token[c])) :
        /\ items' = [items EXCEPT ![c] = @ \o page]
        /\ \/ /\ Range(page) # After(token[c])
              /\ token' = [token EXCEPT ![c] = Last(page)] /\ UNCHANGED at
           \/ /\ Range(page) = After(token[c])
              /\ at' = [at EXCEPT ![c] = "answered"] /\ UNCHANGED token
  BY DEF Page
<1>3. /\ After(token[c]) \in SUBSET Keys /\ After(token[c]) \subseteq bucket
      /\ \A k \in bucket : k \in After(token[c]) <=> k > token[c]
  BY <1>1 DEF After
<1>4. /\ page \in Seq(Keys) /\ Range(page) \subseteq After(token[c]) /\ Increasing(page)
      /\ Range(page) # After(token[c]) =>
           /\ Last(page) \in Range(page)
           /\ \A i \in DOMAIN page : page[i] <= Last(page)
           /\ \A other \in After(token[c]) : other <= Last(page) => other \in Range(page)
  BY <1>3, PageShape
<1>5. /\ \A k \in Keys : k \in Nat
      /\ token[c] \in Nat
  <2>1. \A k \in Keys : k \in Nat
    BY KeysAreNumbers
  <2>2. token[c] \in Keys \cup {None}
    BY <1>1
  <2>3. QED
    BY <2>1, <2>2 DEF None
<1>6. \A k \in Range(page) : k \in bucket /\ k > token[c]
  <2>1. Range(page) \subseteq After(token[c])
    BY <1>4
  <2>2. QED
    BY <1>3, <2>1
<1>7. /\ \A i \in DOMAIN items[c] : items[c][i] \in Keys
      /\ \A i \in DOMAIN items[c] : items[c][i] <= token[c]
      /\ \A i \in DOMAIN page : page[i] \in Range(page)
  <2>1. \A i \in DOMAIN items[c] : items[c][i] \in Keys
    BY <1>1, ElementOfSeq, LenProperties
  <2>2. \A i \in DOMAIN items[c] : items[c][i] <= token[c]
    BY <1>1 DEF ListingInv, Collected
  <2>3. QED
    BY <2>1, <2>2 DEF Range
<1>8. \A i \in DOMAIN items[c], j \in DOMAIN page : items[c][i] < page[j]
  BY <1>1, <1>5, <1>6, <1>7
<1>9. /\ items[c] \o page \in Seq(Keys) /\ Increasing(items[c] \o page)
      /\ Range(items[c] \o page) = Range(items[c]) \cup Range(page)
  BY <1>1, <1>4, <1>8, IncreasingConcat DEF ListingInv, Collected
<1>10. items'[c] = items[c] \o page
  BY <1>2 DEF ListingInv, TypeOK
<1>11. TypeOK'
  <2>1. items' \in [Clients -> Seq(Keys)]
    BY <1>2, <1>9 DEF ListingInv, TypeOK
  <2>2. at' \in [Clients -> {"idle", "listing", "answered", "failed"}]
    BY <1>2 DEF ListingInv, TypeOK
  <2>3. token' \in [Clients -> Keys \cup {None}]
    BY <1>2, <1>3, <1>4 DEF ListingInv, TypeOK
  <2>4. QED
    BY <1>1, <2>1, <2>2, <2>3 DEF ListingInv, TypeOK
<1>12. /\ kept[c] \subseteq bucket /\ bucket \subseteq met[c]
       /\ \A k \in kept[c] : k <= token[c] => k \in Range(items[c])
       /\ Range(items[c]) \subseteq met[c]
  BY <1>1 DEF ListingInv, Faithful
<1>13. Range(items'[c]) \subseteq met[c]
  BY <1>6, <1>9, <1>10, <1>12
<1>14. CASE Range(page) # After(token[c])
  <2>1. token'[c] = Last(page) /\ at'[c] = "listing"
    BY <1>1, <1>2, <1>14 DEF ListingInv, TypeOK
  <2>2. Last(page) \in Nat /\ token[c] < Last(page)
    BY <1>1, <1>4, <1>5, <1>6, <1>14
  <2>3. \A k \in Range(items'[c]) : k <= Last(page)
    <3>1. \A k \in Range(items[c]) : k \in Nat /\ k <= token[c]
      BY <1>5, <1>7 DEF Range
    <3>2. \A k \in Range(page) : k <= Last(page)
      BY <1>4, <1>14 DEF Range
    <3>3. QED
      BY <1>5, <1>9, <1>10, <2>2, <3>1, <3>2
  <2>4. \A i \in DOMAIN items'[c] : items'[c][i] <= token'[c]
    BY <2>1, <2>3 DEF Range
  <2>5. \A k \in kept[c] : k <= Last(page) => k \in Range(items'[c])
    <3> SUFFICES ASSUME NEW k \in kept[c], k <= Last(page) PROVE k \in Range(items'[c])
      OBVIOUS
    <3>1. k \in bucket /\ k \in Nat
      BY <1>1, <1>5, <1>12
    <3>2. k <= token[c] \/ k > token[c]
      BY <1>5, <3>1
    <3>3. k > token[c] => k \in Range(page)
      BY <1>3, <1>4, <1>14, <3>1
    <3>4. QED
      BY <1>9, <1>10, <1>12, <3>2, <3>3
  <2>6. Collected(c)'
    BY <1>9, <1>10, <2>4 DEF Collected
  <2>7. Faithful(c)'
    BY <1>1, <1>12, <1>13, <2>1, <2>5 DEF Faithful
  <2>8. QED
    BY <1>11, <2>6, <2>7
<1>15. CASE Range(page) = After(token[c])
  <2>1. at'[c] = "answered"
    BY <1>2, <1>15 DEF ListingInv, TypeOK
  <2>2. \A k \in kept[c] : k \in Range(items'[c])
    BY <1>1, <1>3, <1>5, <1>9, <1>10, <1>12, <1>15
  <2>3. Collected(c)'
    BY <1>9, <1>10, <2>1 DEF Collected
  <2>4. Faithful(c)'
    BY <1>1, <1>13, <2>1, <2>2 DEF Faithful
  <2>5. QED
    BY <1>11, <2>3, <2>4
<1>16. QED
  BY <1>14, <1>15

LEMMA ListingInvariant == Spec => []ListingInv
<1>1. Init => ListingInv
  <2> SUFFICES ASSUME Init PROVE ListingInv
    OBVIOUS
  <2>1. TypeOK
    BY EmptySeq DEF Init, TypeOK
  <2>2. \A c \in Clients : at[c] = "idle" /\ items[c] = <<>>
    BY DEF Init
  <2>3. Increasing(<<>>) /\ Range(<<>>) = {}
    BY DEF Increasing, Range
  <2>4. QED
    BY <2>1, <2>2, <2>3 DEF ListingInv, Collected, Faithful
<1>2. ListingInv /\ [Next]_vars => ListingInv'
  <2> SUFFICES ASSUME ListingInv, [Next]_vars PROVE ListingInv'
    OBVIOUS
  <2> USE DEF listing
  <2>1. ASSUME NEW k \in Keys, SaveItem(k) PROVE ListingInv'
    BY <2>1 DEF SaveItem, ListingInv, TypeOK, Collected, Faithful
  <2>2. ASSUME NEW k \in Keys, DeleteItem(k) PROVE ListingInv'
    BY <2>2 DEF DeleteItem, ListingInv, TypeOK, Collected, Faithful
  <2>3. ASSUME NEW c \in Clients, ListItems(c) \/ Page(c) \/ Fail(c) PROVE ListingInv'
    <3>1. Increasing(<<>>) /\ Range(<<>>) = {} /\ <<>> \in Seq(Keys) /\ DOMAIN <<>> = {}
      BY EmptySeq DEF Increasing, Range
    <3>2. TypeOK' /\ Collected(c)' /\ Faithful(c)'
      <4>1. CASE ListItems(c)
        <5>1. TypeOK' /\ at'[c] = "listing" /\ items'[c] = <<>> /\ token'[c] = None
              /\ kept'[c] = bucket /\ met'[c] = bucket /\ bucket' = bucket
          BY <4>1, <3>1 DEF ListItems, ListingInv, TypeOK
        <5>2. \A k \in bucket : ~(k <= None)
          BY KeysAreNumbers DEF ListingInv, TypeOK, None
        <5>3. QED
          BY <3>1, <5>1, <5>2 DEF Collected, Faithful
      <4>2. CASE Page(c)
        BY <4>2, PageKeeps
      <4>3. CASE Fail(c)
        <5>1. TypeOK' /\ at'[c] = "failed" /\ items'[c] = <<>>
          BY <4>3, <3>1 DEF Fail, ListingInv, TypeOK
        <5>2. QED
          BY <3>1, <5>1 DEF Collected, Faithful
      <4>4. QED
        BY <2>3, <4>1, <4>2, <4>3
    <3>3. \A d \in Clients \ {c} :
            /\ at'[d] = at[d] /\ items'[d] = items[d] /\ token'[d] = token[d]
            /\ kept'[d] = kept[d] /\ met'[d] = met[d]
      BY <2>3 DEF ListItems, Page, Fail, ListingInv, TypeOK
    <3>4. bucket' = bucket
      BY <2>3 DEF ListItems, Page, Fail
    <3>5. \A d \in Clients \ {c} : Collected(d)' /\ Faithful(d)'
      BY <3>3, <3>4 DEF ListingInv, Collected, Faithful
    <3>6. QED
      BY <3>2, <3>5 DEF ListingInv
  <2>4. CASE UNCHANGED vars
    BY <2>4 DEF vars, ListingInv, TypeOK, Collected, Faithful
  <2>5. QED
    BY <2>1, <2>2, <2>3, <2>4 DEF Next
<1>3. QED
  BY <1>1, <1>2, PTL DEF Spec

\* The listings and the bucket stay within their types; no item is made up from
\* a page without contents.
THEOREM ListingTypeCorrect == Spec => []TypeOK
BY ListingInvariant, PTL DEF ListingInv

\* An answered listing names each object once, those that stayed all, and none
\* that was never there, however the bucket changed between its pages.
THEOREM ListingAlwaysSound == Spec => []ListingSound
<1>1. ListingInv => ListingSound
  BY IncreasingInjective DEF ListingInv, TypeOK, Collected, Faithful, ListingSound
<1>2. QED
  BY <1>1, ListingInvariant, PTL

=============================================================================
