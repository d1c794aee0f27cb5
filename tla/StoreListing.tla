---------------------------- MODULE StoreListing ----------------------------
(***************************************************************************)
(* Listing an S3 bucket while it changes (S3Store::list_items in           *)
(* src/src/infrastructure/s3_store.rs): the pages are asked for one by     *)
(* one, and scripts save and delete objects in between.  The bucket and    *)
(* its pages are external: a page holds the next keys, in order, after the *)
(* last key of the page before, and a truncated page has a token.          *)
(***************************************************************************)
EXTENDS Naturals, Sequences, FiniteSets, SequencesExt

CONSTANTS
  Clients,   \* callers of list_items: the HTTP route and scripts
  Keys,      \* the keys that begin with the prefix, as ordered by S3
  PageLimit  \* how many keys S3 puts into a page at most

ASSUME ListingAssumption ==
  /\ Keys \subseteq Nat \ {0}
  /\ IsFiniteSet(Keys)
  /\ PageLimit \in Nat \ {0}

VARIABLES
  bucket,  \* the keys of the objects
  at,      \* at[c]: idle, listing, answered or failed
  token,   \* token[c]: the key that the continuation token stands for, or None
  items,   \* items[c]: what list_items has collected
  kept,    \* kept[c]: the keys in the bucket ever since c began (history)
  met      \* met[c]: the keys in the bucket at some time since (history)

vars == <<bucket, at, token, items, kept, met>>
listing == <<at, token, items>>

None == 0

TypeOK ==
  /\ bucket \subseteq Keys
  /\ at \in [Clients -> {"idle", "listing", "answered", "failed"}]
  /\ token \in [Clients -> Keys \cup {None}]
  /\ items \in [Clients -> Seq(Keys)]
  /\ kept \in [Clients -> SUBSET Keys]
  /\ met \in [Clients -> SUBSET Keys]

Init ==
  /\ bucket \in SUBSET Keys
  /\ at = [c \in Clients |-> "idle"]
  /\ token = [c \in Clients |-> None]
  /\ items = [c \in Clients |-> <<>>]
  /\ kept = [c \in Clients |-> {}]
  /\ met = [c \in Clients |-> {}]

---------------------------------------------------------------------------
(* The other methods of the store *)

SaveItem(k) ==
  /\ bucket' = bucket \cup {k}
  /\ met' = [c \in Clients |-> met[c] \cup {k}]
  /\ UNCHANGED <<listing, kept>>

DeleteItem(k) ==
  /\ bucket' = bucket \ {k}
  /\ kept' = [c \in Clients |-> kept[c] \ {k}]
  /\ UNCHANGED <<listing, met>>

---------------------------------------------------------------------------
(* list_items *)

ListItems(c) ==
  /\ at[c] # "listing"
  /\ at' = [at EXCEPT ![c] = "listing"]
  /\ token' = [token EXCEPT ![c] = None]
  /\ items' = [items EXCEPT ![c] = <<>>]
  /\ kept' = [kept EXCEPT ![c] = bucket]
  /\ met' = [met EXCEPT ![c] = bucket]
  /\ UNCHANGED bucket

After(start) == {k \in bucket : k > start}

Increasing(s) == \A i, j \in DOMAIN s : i < j => s[i] < s[j]

\* The pages S3 may answer: it may stop before the limit.
Pages(rest) ==
  {page \in SeqOf(rest, PageLimit) :
    /\ page = <<>> => rest = {}
    /\ Increasing(page)
    /\ \A i \in DOMAIN page, other \in rest \ Range(page) : page[i] < other}

\* A variant of Page that asks for every page without the token.
PageWithoutToken(c) ==
  /\ at[c] = "listing"
  /\ \E page \in Pages(After(None)) :
       LET last == Range(page) = After(None)
       IN  /\ items' = [items EXCEPT ![c] = @ \o page]
           /\ token' = [token EXCEPT ![c] = IF last THEN @ ELSE Last(page)]
           /\ at' = [at EXCEPT ![c] = IF last THEN "answered" ELSE @]
  /\ UNCHANGED <<bucket, kept, met>>

\* A variant of Page that starts over after a page without a token.
PageWithoutEnd(c) ==
  /\ at[c] = "listing"
  /\ \E page \in Pages(After(token[c])) :
       LET last == Range(page) = After(token[c])
       IN  /\ items' = [items EXCEPT ![c] = IF last THEN <<>> ELSE @ \o page]
           /\ token' = [token EXCEPT ![c] = IF last THEN None ELSE Last(page)]
  /\ UNCHANGED <<bucket, at, kept, met>>

\* A variant of Page that adds the default key for a page without contents.
PageOfDefault(c) ==
  /\ at[c] = "listing"
  /\ \E page \in Pages(After(token[c])) :
       LET last == Range(page) = After(token[c])
       IN  /\ items' = [items EXCEPT ![c] = @ \o IF page = <<>> THEN <<None>> ELSE page]
           /\ token' = [token EXCEPT ![c] = IF last THEN @ ELSE Last(page)]
           /\ at' = [at EXCEPT ![c] = IF last THEN "answered" ELSE @]
  /\ UNCHANGED <<bucket, kept, met>>

\* A page is appended; the last one ends the loop.
Page(c) ==
  /\ at[c] = "listing"
  /\ \E page \in Pages(After(token[c])) :
       /\ items' = [items EXCEPT ![c] = @ \o page]
       /\ \/ /\ Range(page) # After(token[c])
             /\ token' = [token EXCEPT ![c] = Last(page)] /\ UNCHANGED at
          \/ /\ Range(page) = After(token[c])
             /\ at' = [at EXCEPT ![c] = "answered"] /\ UNCHANGED token
  /\ UNCHANGED <<bucket, kept, met>>

\* An error of one page loses the others.
Fail(c) ==
  /\ at[c] = "listing"
  /\ at' = [at EXCEPT ![c] = "failed"]
  /\ items' = [items EXCEPT ![c] = <<>>]
  /\ UNCHANGED <<bucket, token, kept, met>>

---------------------------------------------------------------------------

Next ==
  \/ \E k \in Keys : SaveItem(k) \/ DeleteItem(k)
  \/ \E c \in Clients : ListItems(c) \/ Page(c) \/ Fail(c)

Spec == Init /\ [][Next]_vars

\* S3 answers every request, with a page or with an error.
FairSpec == Spec /\ \A c \in Clients : WF_vars(Page(c) \/ Fail(c))

---------------------------------------------------------------------------

\* Although the bucket changes between the pages, an answered listing names each
\* object at most once, every object that was there all the time, and none that
\* was never there.
ListingSound ==
  \A c \in Clients :
    at[c] = "answered" =>
      /\ IsInjective(items[c])
      /\ kept[c] \subseteq Range(items[c])
      /\ Range(items[c]) \subseteq met[c]

\* The loop ends, even if objects are saved and deleted all the while: each token
\* lies behind the one before.
ListingEnds == \A c \in Clients : at[c] = "listing" ~> at[c] # "listing"

=============================================================================
