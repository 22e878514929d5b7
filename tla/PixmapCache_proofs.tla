------------------------ MODULE PixmapCache_proofs ------------------------
(***************************************************************************)
(* The types of the shared pixmap cache and of its mirror, and the size of   *)
(* what is cached, for any number of channels, images and messages.          *)
(***************************************************************************)
EXTENDS PixmapCache, SequenceParts_proofs, WellFoundedInduction

\* No item of a cache, and no list of evicted images, is stamped with the serial of a message
\* that has no number yet: n are the numbers that the channels have reached.
Stamps(lru, n) == \A j \in DOMAIN lru : \A c \in Channels : lru[j].sync[c] <= n[c]
Accounted(k) ==
    /\ k.available >= 0 => k.available + Pixels(k.lru) = k.size
    /\ k.available < 0 => k.lru = <<>>
Good(k, n) == k \in Cache /\ Stamps(k.lru, n) /\ Accounted(k)

\* Only the last message of a channel that moves to the target is MIGRATE_DATA.
PlainOp == [op : ImageOps, id : Images] \cup [op : {"wait"}, until : Serials] \cup [op : {"clear"}]
Plain == [serial : Nat, ops : Seq(PlainOp)]
LastOne(n) == [serial |-> n, ops |-> <<[op |-> "migrate"]>>]
OnWire(w, h) == IF h = "moving" THEN \E q \in Seq(Plain), n \in Nat : w = Append(q, LastOne(n))
                ELSE w \in Seq(Plain)

\* The message that a channel marshals, with its number n[c], while the channel is served at h.
Draft == [ops : Seq(PlainOp), freed : Seq(Images), sync : Serials, items : Seq(Images),
          calls : 0 .. mode.calls, active : BOOLEAN, urgent : BOOLEAN]
GoodDraft(d, c, n, h) ==
    /\ d \in Draft
    /\ \A e \in Channels : d.sync[e] <= n[e]
    /\ d.urgent => d.active /\ n[c] > 0
    /\ d.active => h \in Hosts

\* What is around the caches.
Around ==
    /\ host \in [Channels -> {"src", "moving", "arrived", "dst"}]
    /\ used \in [Channels -> 0 .. MaxItems]
    /\ gen \in [Channels -> Nat]
    /\ pipe \in [Channels -> SUBSET {"sync", "reset"}]
    /\ data \in [Channels -> [freezer : BOOLEAN, sync : Serials]]
    /\ last \in Serials
    /\ images \in [Images -> [refs : Nat, lossy : BOOLEAN]]
    /\ wire = [x \in Channels |-> wire[x]] /\ \A c \in Channels : OnWire(wire[c], host[c])

CacheInv ==
    /\ mode \in Modes /\ serial \in Serials /\ Around
    /\ cache \in [Hosts -> Cache] /\ \A h \in Hosts : Good(cache[h], serial)
    /\ draft \in [Channels -> Draft]
    /\ \A c \in Channels : GoodDraft(draft[c], c, serial, host[c])

\* One channel at most has frozen the cache, and it alone resets the cache of the target, which
\* is of no size until then.
FreezeInv ==
    /\ \A c \in Channels : data[c].freezer => cache["src"].frozen /\ host[c] # "src"
    /\ \A c, d \in Channels : data[c].freezer /\ data[d].freezer => c = d
    /\ \A c \in Channels : "reset" \in pipe[c] => data[c].freezer /\ host[c] = "dst"
    /\ (\A c \in Channels : data[c].freezer => host[c] # "dst") => cache["dst"].available < 0

-----------------------------------------------------------------------------
(* Largest and smallest numbers. *)

\* A set of natural numbers has a least element.
LEMMA SmallestOf ==
  ASSUME NEW S, S \subseteq Nat, S # {}
  PROVE  Min(S) \in S /\ \A y \in S : Min(S) <= y
<1>1. PICK x \in S : \A y \in S : ~(<<y, x>> \in OpToRel(<, Nat))
  BY NatLessThanWellFounded, WFMin
<1>2. \A y \in S : <<y, x>> \in OpToRel(<, Nat) <=> y < x
  BY DEF OpToRel
<1>3. \A y \in S : x <= y
  <2> TAKE y \in S
  <2>1. ~(y < x) /\ y \in Nat /\ x \in Nat
    BY <1>1, <1>2
  <2> QED
    BY <2>1
<1> QED
  BY <1>3 DEF Min

\* A set of natural numbers that has a bound has a largest element.
LEMMA LargestOf ==
  ASSUME NEW S, S \subseteq Nat, S # {}, NEW b \in Nat, \A x \in S : x <= b
  PROVE  Max(S) \in S /\ \A y \in S : Max(S) >= y
<1> DEFINE D == {b - x : x \in S}
<1>1. D \subseteq Nat
  <2> SUFFICES ASSUME NEW x \in S PROVE b - x \in Nat
    OBVIOUS
  <2>1. x \in Nat /\ x <= b
    OBVIOUS
  <2> QED
    BY <2>1
<1>2. D # {}
  OBVIOUS
<1> HIDE DEF D
<1>3. Min(D) \in D /\ \A e \in D : Min(D) <= e
  BY <1>1, <1>2, SmallestOf
<1>4. PICK x \in S : Min(D) = b - x
  BY <1>3 DEF D
<1>5. \A y \in S : x >= y
  <2> TAKE y \in S
  <2>1. b - y \in D
    BY DEF D
  <2>2. b - x <= b - y /\ x \in Nat /\ y \in Nat
    BY <1>3, <1>4, <2>1
  <2> QED
    BY <2>2
<1> QED
  BY <1>5 DEF Max

\* The larger of two numbers.
LEMMA LargerOf == \A a \in Int, b \in Int : Max({a, b}) \in {a, b} /\ Max({a, b}) >= a /\ Max({a, b}) >= b
<1> TAKE a \in Int, b \in Int
<1>1. \E x \in {a, b} : \A y \in {a, b} : x >= y
  <2>1. CASE a >= b
    BY <2>1
  <2>2. CASE b >= a
    BY <2>2
  <2> QED
    BY <2>1, <2>2
<1> QED
  BY <1>1 DEF Max

-----------------------------------------------------------------------------
(* The sizes of images. *)

\* The images of two units.
BigItems == [id : Big, sync : Serials, lossy : BOOLEAN]

\* The size of a list, and those of its parts.
LEMMA PixelsCount == \A s \in Seq(Item) : Pixels(s) = Len(s) + Count(s, BigItems) /\ Pixels(s) \in Nat
<1> TAKE s \in Seq(Item)
<1>1. \A j \in DOMAIN s : s[j].id \in Big <=> s[j] \in BigItems
  <2> TAKE j \in DOMAIN s
  <2>1. s[j] \in Item
    OBVIOUS
  <2> QED
    BY <2>1 DEF BigItems, Item
<1>2. {j \in DOMAIN s : s[j].id \in Big} = {j \in DOMAIN s : s[j] \in BigItems}
  BY <1>1
<1>3. Count(s, BigItems) \in Nat
  BY CountType
<1>4. Pixels(s) = Len(s) + Count(s, BigItems)
  BY <1>2 DEF Pixels, Count
<1> QED
  BY <1>3, <1>4

\* The size of one image, and what is in front of others.
LEMMA PixelsParts ==
  /\ Pixels(<<>>) = 0
  /\ \A x \in Item : Pixels(<<x>>) = PixelsOf(x.id)
  /\ \A s \in Seq(Item), t \in Seq(Item) : Pixels(s \o t) = Pixels(s) + Pixels(t)
<1>1. Pixels(<<>>) = 0
  <2>1. <<>> \in Seq(Item) /\ Len(<<>>) = 0
    OBVIOUS
  <2>2. Pixels(<<>>) = Len(<<>>) + Count(<<>>, BigItems)
    BY <2>1, PixelsCount
  <2> QED
    BY <2>1, <2>2, CountShort
<1>2. ASSUME NEW x \in Item PROVE Pixels(<<x>>) = PixelsOf(x.id)
  <2>1. <<x>> \in Seq(Item) /\ Len(<<x>>) = 1
    OBVIOUS
  <2>2. x \in BigItems <=> x.id \in Big
    BY DEF BigItems, Item
  <2>3. Count(<<x>>, BigItems) = One(x \in BigItems)
    BY CountShort
  <2>4. Pixels(<<x>>) = Len(<<x>>) + Count(<<x>>, BigItems)
    BY <2>1, PixelsCount
  <2> QED
    BY <2>1, <2>2, <2>3, <2>4 DEF One, PixelsOf
<1>3. ASSUME NEW s \in Seq(Item), NEW t \in Seq(Item) PROVE Pixels(s \o t) = Pixels(s) + Pixels(t)
  <2>1. s \o t \in Seq(Item) /\ Len(s \o t) = Len(s) + Len(t)
    OBVIOUS
  <2>2. Count(s \o t, BigItems) = Count(s, BigItems) + Count(t, BigItems)
    BY CountConcat
  <2>3. Count(s, BigItems) \in Nat /\ Count(t, BigItems) \in Nat
    BY CountType
  <2>4. Pixels(s \o t) = Len(s \o t) + Count(s \o t, BigItems)
    BY <2>1, PixelsCount
  <2>5. /\ Pixels(s) = Len(s) + Count(s, BigItems)
        /\ Pixels(t) = Len(t) + Count(t, BigItems)
    BY PixelsCount
  <2> QED
    BY <2>1, <2>2, <2>3, <2>4, <2>5
<1> QED
  BY <1>1, <1>2, <1>3

\* Lists of as many images, the same ones place by place, have the same size.
LEMMA PixelsSame ==
  ASSUME NEW s \in Seq(Item), NEW t \in Seq(Item), Len(s) = Len(t),
         \A j \in 1 .. Len(s) : s[j].id = t[j].id
  PROVE  Pixels(s) = Pixels(t)
<1>1. DOMAIN s = 1 .. Len(s) /\ DOMAIN t = 1 .. Len(s)
  OBVIOUS
<1>2. {j \in DOMAIN s : s[j].id \in Big} = {j \in DOMAIN t : t[j].id \in Big}
  BY <1>1
<1> QED
  BY <1>2 DEF Pixels

-----------------------------------------------------------------------------
(* The operations on a cache. *)

\* The record of a cache, field by field.
LEMMA CacheFields ==
  ASSUME NEW k \in Cache
  PROVE  /\ k.lru \in Seq(Item) /\ k.available \in Int /\ k.size \in Int /\ k.frozen \in BOOLEAN
         /\ k.generation \in Nat /\ k.sync \in Serials /\ k.initiator \in Serials
         /\ \A l \in Seq(Item), a \in Int, y \in Serials :
              [k EXCEPT !.lru = l, !.available = a, !.sync = y] \in Cache
BY DEF Cache

\* Setting one channel's serial, and no serial at all.
LEMMA SerialSet ==
  /\ NoSerials \in Serials
  /\ \A y \in Serials, c \in Channels, n \in Nat : [y EXCEPT ![c] = n] \in Serials
BY DEF Serials, NoSerials

\* The position of a cached image.
LEMMA PositionOf ==
  ASSUME NEW k \in Cache, NEW i \in Images, Cached(k, i)
  PROVE  /\ At(k, i) \in 1 .. Len(k.lru) /\ ItemOf(k, i) \in Item /\ ItemOf(k, i).id = i
         /\ ItemOf(k, i) = k.lru[At(k, i)]
<1>1. k.lru \in Seq(Item)
  BY DEF Cache
<1>2. DOMAIN k.lru = 1 .. Len(k.lru)
  BY <1>1
<1>3. At(k, i) \in DOMAIN k.lru /\ k.lru[At(k, i)].id = i
  BY DEF Cached, At
<1> QED
  BY <1>1, <1>2, <1>3 DEF ItemOf

\* Taking an image out of a list.
LEMMA TakenOut ==
  ASSUME NEW s \in Seq(Item), NEW n \in 1 .. Len(s)
  PROVE  /\ RemoveAt(s, n) \in Seq(Item)
         /\ \A j \in DOMAIN RemoveAt(s, n) : \E m \in DOMAIN s : RemoveAt(s, n)[j] = s[m]
         /\ Pixels(RemoveAt(s, n)) + PixelsOf(s[n].id) = Pixels(s)
<1>1. n \in Nat /\ Len(s) \in Nat /\ n - 1 \in 0 .. Len(s) /\ n \in 0 .. Len(s)
  OBVIOUS
<1> DEFINE a == SubSeq(s, 1, n - 1)
           b == SubSeq(s, n + 1, Len(s))
<1>2. a \in Seq(Item) /\ b \in Seq(Item) /\ RemoveAt(s, n) = a \o b
  BY <1>1, CutSeq DEF RemoveAt
<1>3. s = SubSeq(s, 1, n) \o b /\ SubSeq(s, 1, n) \in Seq(Item)
  BY <1>1, CutSeq
<1>4. s[n] \in Item
  BY <1>1
<1>5. SubSeq(s, 1, n) = a \o <<s[n]>>
  BY <1>1, <1>4
<1>6. /\ Len(a) = n - 1 /\ \A j \in 1 .. n - 1 : a[j] = s[j]
      /\ Len(b) = Len(s) - n /\ \A j \in 1 .. Len(s) - n : b[j] = s[n + j]
  BY <1>1
<1> HIDE DEF a, b
<1>7. a \o b \in Seq(Item)
  BY <1>2
<1>8. ASSUME NEW j \in DOMAIN (a \o b) PROVE \E m \in DOMAIN s : (a \o b)[j] = s[m]
  <2>1. j \in 1 .. Len(s) - 1 /\ DOMAIN s = 1 .. Len(s)
    BY <1>1, <1>2, <1>6
  <2>2. CASE j <= n - 1
    <3>1. (a \o b)[j] = s[j] /\ j \in DOMAIN s
      BY <1>1, <1>2, <1>6, <2>1, <2>2
    <3> QED
      BY <3>1
  <2>3. CASE j > n - 1
    <3>1. (a \o b)[j] = b[j - (n - 1)]
      BY <1>1, <1>2, <1>6, <2>1, <2>3
    <3>2. j - (n - 1) \in 1 .. Len(s) - n /\ n + (j - (n - 1)) = j + 1 /\ j + 1 \in DOMAIN s
      BY <1>1, <2>1, <2>3
    <3>3. b[j - (n - 1)] = s[j + 1]
      BY <1>6, <3>2
    <3> QED
      BY <3>1, <3>2, <3>3
  <2> QED
    BY <1>1, <2>1, <2>2, <2>3
<1>9. Pixels(s) = Pixels(a) + Pixels(<<s[n]>>) + Pixels(b)
  <2>1. <<s[n]>> \in Seq(Item)
    BY <1>4
  <2>2. Pixels(s) = Pixels(SubSeq(s, 1, n)) + Pixels(b)
    BY <1>2, <1>3, PixelsParts
  <2>3. Pixels(SubSeq(s, 1, n)) = Pixels(a) + Pixels(<<s[n]>>)
    BY <1>2, <1>5, <2>1, PixelsParts
  <2> QED
    BY <2>2, <2>3
<1>10. Pixels(a \o b) = Pixels(a) + Pixels(b) /\ Pixels(<<s[n]>>) = PixelsOf(s[n].id)
  BY <1>2, <1>4, PixelsParts
<1>11. Pixels(a) \in Nat /\ Pixels(b) \in Nat /\ PixelsOf(s[n].id) \in Nat
  BY <1>2, PixelsCount DEF PixelsOf
<1>12. Pixels(a \o b) + PixelsOf(s[n].id) = Pixels(s)
  BY <1>9, <1>10, <1>11
<1> QED
  BY <1>2, <1>7, <1>8, <1>12

\* Putting an image in front.
LEMMA PutInFront ==
  ASSUME NEW s \in Seq(Item), NEW x \in Item, NEW n \in Serials, Stamps(s, n),
         \A c \in Channels : x.sync[c] <= n[c]
  PROVE  /\ <<x>> \o s \in Seq(Item) /\ Stamps(<<x>> \o s, n)
         /\ Pixels(<<x>> \o s) = PixelsOf(x.id) + Pixels(s)
<1>1. <<x>> \in Seq(Item) /\ <<x>> \o s \in Seq(Item)
  OBVIOUS
<1>2. Pixels(<<x>> \o s) = PixelsOf(x.id) + Pixels(s)
  BY <1>1, PixelsParts
<1>3. ASSUME NEW j \in DOMAIN (<<x>> \o s), NEW c \in Channels
      PROVE  (<<x>> \o s)[j].sync[c] <= n[c]
  <2>1. j \in 1 .. Len(s) + 1
    OBVIOUS
  <2>2. CASE j = 1
    BY <2>2
  <2>3. CASE j > 1
    <3>1. (<<x>> \o s)[j] = s[j - 1] /\ j - 1 \in DOMAIN s
      BY <2>1, <2>3
    <3> QED
      BY <3>1 DEF Stamps
  <2> QED
    BY <2>1, <2>2, <2>3
<1> QED
  BY <1>1, <1>2, <1>3 DEF Stamps

\* An item that is stamped anew.
LEMMA ItemStamped ==
  ASSUME NEW x \in Item, NEW c \in Channels, NEW n \in Serials,
         \A d \in Channels : x.sync[d] <= n[d]
  PROVE  LET y == [x EXCEPT !.sync[c] = n[c]]
         IN  y \in Item /\ y.id = x.id /\ \A d \in Channels : y.sync[d] <= n[d]
<1>1. x.sync \in Serials /\ x.id \in Images /\ x.lossy \in BOOLEAN /\ n[c] \in Nat
  BY DEF Item, Serials
<1>2. PICK z : z = [x.sync EXCEPT ![c] = n[c]]
  OBVIOUS
<1>3. z \in Serials /\ \A d \in Channels : z[d] <= n[d]
  BY <1>1, <1>2 DEF Serials
<1>4. [x EXCEPT !.sync[c] = n[c]] = [x EXCEPT !.sync = z]
  BY <1>2
<1>5. [x EXCEPT !.sync = z] \in Item /\ [x EXCEPT !.sync = z].id = x.id /\ [x EXCEPT !.sync = z].sync = z
  BY <1>1, <1>3 DEF Item
<1> QED
  BY <1>3, <1>4, <1>5

\* pixmap_cache_unlocked_hit moves an item to the front and leaves the sizes alone.
LEMMA StampedGood ==
  ASSUME serial \in Serials, NEW k, Good(k, serial), NEW c \in Channels, NEW i \in Images, Cached(k, i)
  PROVE  Good(Stamped(k, c, i), serial)
<1>1. k \in Cache /\ Stamps(k.lru, serial) /\ Accounted(k)
  BY DEF Good
<1>2. k.lru \in Seq(Item) /\ k.available \in Int /\ k.size \in Int /\ k.sync \in Serials
  BY <1>1, CacheFields
<1>3. PICK p : p = At(k, i)
  OBVIOUS
<1>4. p \in 1 .. Len(k.lru) /\ k.lru[p] \in Item /\ ItemOf(k, i) = k.lru[p] /\ p \in DOMAIN k.lru
  BY <1>1, <1>2, <1>3, PositionOf
<1>5. PICK y : y = [k.lru[p] EXCEPT !.sync[c] = serial[c]]
  OBVIOUS
<1>6. y \in Item /\ y.id = k.lru[p].id /\ \A d \in Channels : y.sync[d] <= serial[d]
  <2>1. \A d \in Channels : k.lru[p].sync[d] <= serial[d]
    BY <1>1, <1>4 DEF Stamps
  <2> QED
    BY <1>4, <1>5, <2>1, ItemStamped
<1>7. PICK q : q = RemoveAt(k.lru, p)
  OBVIOUS
<1>8. q \in Seq(Item) /\ Stamps(q, serial) /\ Pixels(q) + PixelsOf(y.id) = Pixels(k.lru)
  <2>1. /\ q \in Seq(Item) /\ Pixels(q) + PixelsOf(y.id) = Pixels(k.lru)
        /\ \A j \in DOMAIN q : \E m \in DOMAIN k.lru : q[j] = k.lru[m]
    BY <1>2, <1>4, <1>6, <1>7, TakenOut
  <2> QED
    BY <1>1, <2>1 DEF Stamps
<1>9. PICK l : l = <<y>> \o q
  OBVIOUS
<1>10. l \in Seq(Item) /\ Stamps(l, serial) /\ Pixels(l) = PixelsOf(y.id) + Pixels(q)
  BY <1>6, <1>8, <1>9, PutInFront
<1>11. Pixels(l) = Pixels(k.lru)
  <2>1. Pixels(q) \in Nat /\ PixelsOf(y.id) \in Nat
    BY <1>8, PixelsCount DEF PixelsOf
  <2> QED
    BY <1>8, <1>10, <2>1
<1>12. PICK w : w = [k.sync EXCEPT ![c] = serial[c]]
  OBVIOUS
<1>13. w \in Serials
  <2>1. serial[c] \in Nat
    BY DEF Serials
  <2> QED
    BY <1>2, <1>12, <2>1, SerialSet
<1>14. PICK r : r = [k EXCEPT !.lru = l, !.available = k.available, !.sync = w]
  OBVIOUS
<1>15. Stamped(k, c, i) = r
  BY <1>1, <1>3, <1>4, <1>5, <1>7, <1>9, <1>12, <1>14 DEF Stamped, Cache
<1>16. r \in Cache
  BY <1>1, <1>2, <1>10, <1>13, <1>14, CacheFields
<1>17. r.lru = l /\ r.available = k.available /\ r.size = k.size
  BY <1>1, <1>14 DEF Cache
<1>18. k.available < 0 => FALSE
  BY <1>1, <1>2, <1>4 DEF Accounted
<1>19. Accounted(r)
  BY <1>1, <1>2, <1>11, <1>17, <1>18 DEF Accounted
<1> QED
  BY <1>10, <1>15, <1>16, <1>17, <1>19 DEF Good

\* pixmap_cache_unlocked_set_lossy changes no image.
LEMMA SetLosslessGood ==
  ASSUME serial \in Serials, NEW k, Good(k, serial), NEW i \in Images
  PROVE  Good(SetLossless(k, i), serial)
<1>1. k \in Cache /\ Stamps(k.lru, serial) /\ Accounted(k)
  BY DEF Good
<1>2. k.lru \in Seq(Item) /\ k.available \in Int /\ k.size \in Int /\ k.sync \in Serials
  BY <1>1, CacheFields
<1>3. PICK l : l = [j \in DOMAIN k.lru |-> IF k.lru[j].id = i THEN [k.lru[j] EXCEPT !.lossy = FALSE]
                                         ELSE k.lru[j]]
  OBVIOUS
<1>4. ASSUME NEW j \in DOMAIN k.lru
      PROVE  l[j] \in Item /\ l[j].id = k.lru[j].id /\ l[j].sync = k.lru[j].sync
  <2>1. k.lru[j] \in Item
    BY <1>2
  <2>2. /\ [k.lru[j] EXCEPT !.lossy = FALSE] \in Item
        /\ [k.lru[j] EXCEPT !.lossy = FALSE].id = k.lru[j].id
        /\ [k.lru[j] EXCEPT !.lossy = FALSE].sync = k.lru[j].sync
    BY <2>1 DEF Item
  <2> QED
    BY <1>3, <2>1, <2>2
<1>5. DOMAIN k.lru = 1 .. Len(k.lru) /\ DOMAIN l = DOMAIN k.lru /\ Len(k.lru) \in Nat
  BY <1>2, <1>3
<1>6. l \in [1 .. Len(k.lru) -> Item]
  BY <1>3, <1>4, <1>5
<1>7. l \in Seq(Item) /\ Len(l) = Len(k.lru)
  BY <1>5, <1>6
<1>8. Pixels(l) = Pixels(k.lru)
  BY <1>2, <1>4, <1>5, <1>7, PixelsSame
<1>9. Stamps(l, serial)
  BY <1>1, <1>4, <1>5 DEF Stamps
<1>10. PICK r : r = [k EXCEPT !.lru = l, !.available = k.available, !.sync = k.sync]
  OBVIOUS
<1>11. SetLossless(k, i) = r
  BY <1>1, <1>3, <1>10 DEF SetLossless, Cache
<1>12. r \in Cache
  BY <1>1, <1>2, <1>7, <1>10, CacheFields
<1>13. r.lru = l /\ r.available = k.available /\ r.size = k.size
  BY <1>1, <1>10 DEF Cache
<1>14. k.lru = <<>> => l = <<>>
  BY <1>2, <1>7
<1>15. Accounted(r)
  BY <1>1, <1>8, <1>13, <1>14 DEF Accounted
<1> QED
  BY <1>9, <1>11, <1>12, <1>13, <1>15 DEF Good

\* The loop of pixmap_cache_unlocked_add ends, and evicts no more images than there are.
LEMMA EvictionsBound ==
  ASSUME NEW k \in Cache, NEW c \in Channels, NEW i \in Images
  PROVE  Evictions(k, c, i) \in 0 .. Len(k.lru)
<1>1. k.lru \in Seq(Item) /\ Len(k.lru) \in Nat
  <2>1. k.lru \in Seq(Item)
    BY CacheFields
  <2> QED
    BY <2>1
<1> DEFINE M == {n \in 0 .. Len(k.lru) : \A x \in Range(LastItems(k.lru, n)) : x.sync[c] # serial[c]}
<1>2. 0 \in M
  <2>1. LastItems(k.lru, 0) = <<>>
    BY <1>1 DEF LastItems
  <2>2. Range(<<>>) = {}
    BY DEF Range
  <2> QED
    BY <1>1, <2>1, <2>2
<1>3. M \subseteq Nat /\ M # {} /\ \A x \in M : x <= Len(k.lru)
  BY <1>1, <1>2
<1>4. Evictable(k, c) = Max(M)
  BY DEF Evictable
<1> HIDE DEF M
<1>5. Evictable(k, c) \in M
  BY <1>1, <1>3, <1>4, LargestOf
<1>6. Evictable(k, c) \in 0 .. Len(k.lru)
  BY <1>5 DEF M
<1> DEFINE S == {Evictable(k, c)} \cup {n \in 0 .. Len(k.lru) : Fits(k, i, n)}
<1>7. S \subseteq 0 .. Len(k.lru) /\ S # {}
  BY <1>6
<1>8. Evictions(k, c, i) = Min(S)
  BY DEF Evictions
<1> HIDE DEF S
<1>9. S \subseteq Nat
  BY <1>1, <1>7
<1>10. Min(S) \in S
  BY <1>7, <1>9, SmallestOf
<1> QED
  BY <1>7, <1>8, <1>10

\* What is evicted and what is left are parts of the list.
LEMMA EvictedParts ==
  ASSUME serial \in Serials, NEW k, Good(k, serial), NEW c \in Channels, NEW i \in Images
  PROVE  LET e == Evicted(k, c, i)
             l == SubSeq(k.lru, 1, Len(k.lru) - Len(e))
         IN  /\ e \in Seq(Item) /\ Stamps(e, serial)
             /\ l \in Seq(Item) /\ Stamps(l, serial)
             /\ Pixels(l) + Pixels(e) = Pixels(k.lru)
             /\ ~Outdated(k, c) => Pixels(e) = Pixels(LastItems(k.lru, Evictions(k, c, i)))
             /\ k.lru = <<>> => e = <<>> /\ l = <<>>
<1>1. k \in Cache /\ Stamps(k.lru, serial)
  BY DEF Good
<1>2. k.lru \in Seq(Item)
  BY <1>1, CacheFields
<1>3. Len(k.lru) \in Nat
  BY <1>2
<1>4. PICK n : n = Evictions(k, c, i)
  OBVIOUS
<1>5. n \in 0 .. Len(k.lru)
  BY <1>1, <1>4, EvictionsBound
<1>6. CASE Outdated(k, c)
  <2>1. PICK e : e = <<>>
    OBVIOUS
  <2>2. Evicted(k, c, i) = e
    BY <1>6, <2>1 DEF Evicted
  <2>3. Len(e) = 0 /\ e \in Seq(Item) /\ Pixels(e) = 0 /\ Stamps(e, serial)
    BY <2>1, PixelsParts DEF Stamps
  <2>4. SubSeq(k.lru, 1, Len(k.lru) - Len(e)) = k.lru
    BY <1>2, <1>3, <2>3
  <2>5. Pixels(k.lru) \in Nat
    BY <1>2, PixelsCount
  <2>6. Pixels(k.lru) + Pixels(e) = Pixels(k.lru)
    BY <2>3, <2>5
  <2> QED
    BY <1>1, <1>2, <1>6, <2>1, <2>2, <2>3, <2>4, <2>6
<1>7. CASE ~Outdated(k, c)
  <2>1. PICK m : m = Len(k.lru) - n
    OBVIOUS
  <2>2. m \in 0 .. Len(k.lru)
    BY <1>3, <1>5, <2>1
  <2>3. PICK f, l : f = SubSeq(k.lru, m + 1, Len(k.lru)) /\ l = SubSeq(k.lru, 1, m)
    OBVIOUS
  <2>4. f \in Seq(Item) /\ l \in Seq(Item) /\ k.lru = l \o f
    BY <1>2, <2>2, <2>3, CutSeq
  <2>5. LastItems(k.lru, n) = f
    <3>1. Len(k.lru) - n + 1 = m + 1
      BY <1>3, <1>5, <2>1
    <3> QED
      BY <2>3, <3>1 DEF LastItems
  <2>6. Len(f) = n /\ Len(l) = m
    BY <1>2, <1>3, <1>5, <2>1, <2>2, <2>3
  <2>7. PICK e : e = Reverse(f)
    OBVIOUS
  <2>8. Evicted(k, c, i) = e
    BY <1>4, <1>7, <2>5, <2>7 DEF Evicted
  <2>9. e \in Seq(Item) /\ ToSet(e) = ToSet(f)
    BY <2>4, <2>7, ReverseElements
  <2>10. Len(e) = n /\ DOMAIN e = 1 .. n /\ DOMAIN f = 1 .. n
         /\ \A j \in 1 .. n : e[j] = f[(n - j) + 1]
    BY <1>5, <2>4, <2>6, <2>7 DEF Reverse
  <2>11. Count(e, BigItems) = Count(f, BigItems)
    BY <2>4, <2>7, ReverseCount
  <2>12. Pixels(e) = Pixels(f)
    <3>1. Pixels(e) = Len(e) + Count(e, BigItems) /\ Pixels(f) = Len(f) + Count(f, BigItems)
      BY <2>4, <2>9, PixelsCount
    <3> QED
      BY <2>6, <2>10, <2>11, <3>1
  <2>13. Pixels(l) + Pixels(e) = Pixels(k.lru)
    BY <2>4, <2>12, PixelsParts
  <2>14. \A j \in DOMAIN l : j \in DOMAIN k.lru /\ l[j] = k.lru[j]
    BY <1>2, <1>3, <2>2, <2>3
  <2>15. \A j \in DOMAIN e : \E p \in DOMAIN k.lru : e[j] = k.lru[p]
    <3> TAKE j \in DOMAIN e
    <3>1. j \in 1 .. n /\ (n - j) + 1 \in 1 .. n /\ e[j] = f[(n - j) + 1]
      BY <1>5, <2>10
    <3>2. PICK a : a = (n - j) + 1
      OBVIOUS
    <3>3. f[a] = k.lru[m + a]
      <4>1. a \in 1 .. Len(f) /\ Len(l) = m /\ f \in Seq(Item) /\ l \in Seq(Item)
        BY <2>4, <2>6, <3>1, <3>2
      <4>2. (l \o f)[m + a] = f[a]
        BY <4>1
      <4> QED
        BY <2>4, <4>2
    <3>4. m + a \in DOMAIN k.lru
      BY <1>2, <1>3, <1>5, <2>1, <2>2, <3>1, <3>2
    <3> QED
      BY <3>1, <3>2, <3>3, <3>4
  <2>16. Stamps(l, serial) /\ Stamps(e, serial)
    BY <1>1, <2>14, <2>15 DEF Stamps
  <2>17. Len(k.lru) - Len(e) = m
    BY <2>1, <2>10
  <2>18. k.lru = <<>> => e = <<>> /\ l = <<>>
    <3> HAVE k.lru = <<>>
    <3>1. Len(k.lru) = 0
      OBVIOUS
    <3>2. n = 0 /\ m = 0
      BY <1>5, <2>2, <3>1
    <3> QED
      BY <2>4, <2>6, <2>9, <2>10, <3>2
  <2> QED
    BY <1>4, <2>3, <2>4, <2>5, <2>8, <2>9, <2>12, <2>13, <2>16, <2>17, <2>18
<1> QED
  BY <1>6, <1>7

\* pixmap_cache_unlocked_add: the room of what is evicted is free again.
LEMMA ShrunkGood ==
  ASSUME serial \in Serials, NEW k, Good(k, serial), NEW c \in Channels, NEW i \in Images
  PROVE  LET r == Shrunk(k, c, i)
         IN  /\ Good(r, serial) /\ r.available = k.available + Pixels(Evicted(k, c, i))
             /\ r.sync \in Serials
<1>1. k \in Cache /\ Stamps(k.lru, serial) /\ Accounted(k)
  BY DEF Good
<1>2. k.lru \in Seq(Item) /\ k.available \in Int /\ k.size \in Int /\ k.sync \in Serials
  BY <1>1, CacheFields
<1>3. PICK e, l : e = Evicted(k, c, i) /\ l = SubSeq(k.lru, 1, Len(k.lru) - Len(e))
  OBVIOUS
<1>4. /\ e \in Seq(Item) /\ l \in Seq(Item) /\ Stamps(l, serial)
      /\ Pixels(l) + Pixels(e) = Pixels(k.lru)
      /\ k.lru = <<>> => e = <<>> /\ l = <<>>
  BY <1>3, EvictedParts
<1>5. Pixels(e) \in Nat /\ Pixels(l) \in Nat
  BY <1>4, PixelsCount
<1>6. PICK w : w = [k.sync EXCEPT ![c] = IF Len(e) > 0 THEN serial[c] ELSE k.sync[c]]
  OBVIOUS
<1>7. w \in Serials
  <2>1. (IF Len(e) > 0 THEN serial[c] ELSE k.sync[c]) \in Nat
    BY <1>2 DEF Serials
  <2> QED
    BY <1>2, <1>6, <2>1, SerialSet
<1>8. PICK a \in Int : a = k.available + Pixels(e)
  BY <1>2, <1>5
<1>9. PICK r : r = [k EXCEPT !.lru = l, !.available = a, !.sync = w]
  OBVIOUS
<1>10. Shrunk(k, c, i) = r
  BY <1>1, <1>3, <1>6, <1>8, <1>9 DEF Shrunk, Cache
<1>11. r \in Cache
  BY <1>1, <1>4, <1>7, <1>8, <1>9, CacheFields
<1>12. r.lru = l /\ r.available = a /\ r.size = k.size /\ r.sync = w
  BY <1>1, <1>9 DEF Cache
<1>13. Accounted(r)
  <2>1. CASE k.available >= 0
    <3>1. k.available + Pixels(k.lru) = k.size
      BY <1>1, <2>1 DEF Accounted
    <3>2. a >= 0 /\ a + Pixels(l) = k.size
      BY <1>2, <1>4, <1>5, <1>8, <2>1, <3>1
    <3> QED
      BY <1>8, <1>12, <3>2 DEF Accounted
  <2>2. CASE k.available < 0
    <3>1. e = <<>> /\ l = <<>>
      BY <1>1, <1>4, <2>2 DEF Accounted
    <3>2. a < 0
      BY <1>2, <1>8, <2>2, <3>1, PixelsParts
    <3> QED
      BY <1>8, <1>12, <3>1, <3>2 DEF Accounted
  <2> QED
    BY <1>2, <2>1, <2>2
<1> QED
  BY <1>3, <1>4, <1>7, <1>8, <1>10, <1>11, <1>12, <1>13 DEF Good

\* The new image goes to the front, if there is room for it.
LEMMA AddedGood ==
  ASSUME serial \in Serials, NEW k, Good(k, serial), NEW c \in Channels, NEW i \in Images,
         NEW lossy \in BOOLEAN
  PROVE  Good(Added(k, c, i, lossy), serial)
<1>1. PICK t : t = Shrunk(k, c, i)
  OBVIOUS
<1>2. /\ Good(t, serial) /\ t.available = k.available + Pixels(Evicted(k, c, i))
      /\ t.sync \in Serials
  BY <1>1, ShrunkGood
<1>3. CASE ~CanAdd(k, c, i)
  BY <1>1, <1>2, <1>3 DEF Added
<1>4. CASE CanAdd(k, c, i)
  <2>1. k.available + Pixels(LastItems(k.lru, Evictions(k, c, i))) >= PixelsOf(i) /\ ~Outdated(k, c)
    BY <1>4 DEF CanAdd, Fits
  <2>2. Pixels(Evicted(k, c, i)) = Pixels(LastItems(k.lru, Evictions(k, c, i)))
    BY <2>1, EvictedParts
  <2>3. PixelsOf(i) \in Nat /\ PixelsOf(i) > 0
    BY DEF PixelsOf
  <2>4. t.available >= PixelsOf(i)
    BY <1>2, <2>1, <2>2
  <2>5. t \in Cache /\ Stamps(t.lru, serial) /\ Accounted(t)
    BY <1>2 DEF Good
  <2>6. t.lru \in Seq(Item) /\ t.available \in Int /\ t.size \in Int
    BY <2>5, CacheFields
  <2>7. PICK x : x = [id |-> i, lossy |-> lossy, sync |-> [NoSerials EXCEPT ![c] = serial[c]]]
    OBVIOUS
  <2>8. x \in Item /\ x.id = i /\ \A d \in Channels : x.sync[d] <= serial[d]
    <3>1. serial[c] \in Nat /\ \A d \in Channels : serial[d] \in Nat
      BY DEF Serials
    <3>2. PICK z : z = [NoSerials EXCEPT ![c] = serial[c]]
      OBVIOUS
    <3>3. z \in Serials /\ \A d \in Channels : z[d] <= serial[d]
      BY <3>1, <3>2 DEF Serials, NoSerials
    <3> QED
      BY <2>7, <3>2, <3>3 DEF Item
  <2>9. PICK l : l = <<x>> \o t.lru
    OBVIOUS
  <2>10. l \in Seq(Item) /\ Stamps(l, serial) /\ Pixels(l) = PixelsOf(i) + Pixels(t.lru)
    BY <2>5, <2>6, <2>8, <2>9, PutInFront
  <2>11. PICK a \in Int : a = t.available - PixelsOf(i)
    BY <2>3, <2>6
  <2>12. PICK w : w = [t.sync EXCEPT ![c] = serial[c]]
    OBVIOUS
  <2>13. w \in Serials
    <3>1. serial[c] \in Nat
      BY DEF Serials
    <3> QED
      BY <1>2, <2>12, <3>1, SerialSet
  <2>14. PICK r : r = [t EXCEPT !.lru = l, !.available = a, !.sync = w]
    OBVIOUS
  <2>15. Added(k, c, i, lossy) = r
    BY <1>1, <1>4, <2>5, <2>7, <2>9, <2>11, <2>12, <2>14 DEF Added, Cache
  <2>16. r \in Cache
    BY <2>5, <2>10, <2>11, <2>13, <2>14, CacheFields
  <2>17. r.lru = l /\ r.available = a /\ r.size = t.size
    BY <2>5, <2>14 DEF Cache
  <2>18. a >= 0
    BY <2>3, <2>4, <2>6, <2>11
  <2>19. Pixels(t.lru) \in Nat /\ t.available >= 0
    BY <2>3, <2>4, <2>6, PixelsCount
  <2>20. t.available + Pixels(t.lru) = t.size
    BY <2>5, <2>19 DEF Accounted
  <2>21. a + Pixels(l) = t.size
    BY <2>3, <2>6, <2>10, <2>11, <2>19, <2>20
  <2>22. Accounted(r)
    BY <2>17, <2>18, <2>21 DEF Accounted
  <2> QED
    BY <2>10, <2>15, <2>16, <2>17, <2>22 DEF Good
<1> QED
  BY <1>3, <1>4

\* A cache that is reset, frozen or made.
LEMMA EmptyGood ==
  ASSUME NEW k \in Cache, k.lru = <<>>, k.available = k.size \/ k.available < 0, NEW n
  PROVE  Good(k, n)
<1>1. k.available \in Int /\ k.size \in Int
  BY CacheFields
<1>2. Stamps(k.lru, n)
  BY DEF Stamps
<1>3. k.available >= 0 => k.available + Pixels(k.lru) = k.size
  BY <1>1, PixelsParts
<1> QED
  BY <1>2, <1>3 DEF Good, Accounted

\* The numbers only grow.
LEMMA GoodLater ==
  ASSUME NEW k, NEW m \in Serials, NEW n \in Serials, Good(k, m), \A c \in Channels : m[c] <= n[c]
  PROVE  Good(k, n)
<1>1. k.lru \in Seq(Item) /\ Stamps(k.lru, m)
  BY CacheFields DEF Good
<1>2. ASSUME NEW j \in DOMAIN k.lru, NEW c \in Channels PROVE k.lru[j].sync[c] <= n[c]
  <2>1. k.lru[j] \in Item
    BY <1>1
  <2>2. k.lru[j].sync[c] \in Nat /\ m[c] \in Nat /\ n[c] \in Nat
    BY <2>1 DEF Item, Serials
  <2>3. k.lru[j].sync[c] <= m[c] /\ m[c] <= n[c]
    BY <1>1 DEF Stamps
  <2> QED
    BY <2>2, <2>3
<1> QED
  BY <1>2 DEF Good, Stamps

-----------------------------------------------------------------------------
(* What a step leaves in order. *)

\* A message that is being marshalled, once the numbers have grown.
LEMMA DraftLater ==
  ASSUME NEW d, NEW c \in Channels, NEW h, NEW m \in Serials, NEW n \in Serials,
         \A e \in Channels : m[e] <= n[e], GoodDraft(d, c, m, h)
  PROVE  GoodDraft(d, c, n, h)
<1>1. \A e \in Channels : d.sync[e] <= n[e]
  <2> TAKE e \in Channels
  <2>1. d.sync[e] \in Nat /\ m[e] \in Nat /\ n[e] \in Nat
    BY DEF Serials, Draft, GoodDraft
  <2>2. d.sync[e] <= m[e] /\ m[e] <= n[e]
    BY DEF GoodDraft
  <2> QED
    BY <2>1, <2>2
<1>2. d.urgent => n[c] > 0
  <2> HAVE d.urgent
  <2>1. m[c] \in Nat /\ n[c] \in Nat /\ m[c] > 0 /\ m[c] <= n[c]
    BY DEF Serials, GoodDraft
  <2> QED
    BY <2>1
<1> QED
  BY <1>1, <1>2 DEF GoodDraft

\* A step of channel c that changes one cache and its own message.
LEMMA CacheStep ==
  ASSUME CacheInv, NEW c \in Channels, mode' = mode,
         serial' \in Serials, \A e \in Channels : serial[e] <= serial'[e],
         NEW h \in Hosts, NEW k, Good(k, serial'), cache' = [cache EXCEPT ![h] = k],
         NEW d, GoodDraft(d, c, serial', host'[c]), draft' = [draft EXCEPT ![c] = d],
         Around', \A e \in Channels \ {c} : host'[e] = host[e]
  PROVE  CacheInv'
<1>1. /\ mode \in Modes /\ serial \in Serials
      /\ cache \in [Hosts -> Cache] /\ draft \in [Channels -> Draft]
      /\ \A g \in Hosts : Good(cache[g], serial)
      /\ \A e \in Channels : GoodDraft(draft[e], e, serial, host[e])
  BY DEF CacheInv
<1>2. k \in Cache /\ d \in Draft
  BY DEF Good, GoodDraft
<1>3. cache' \in [Hosts -> Cache] /\ draft' \in [Channels -> Draft]
  BY <1>1, <1>2
<1>4. \A g \in Hosts : Good(cache'[g], serial')
  <2> TAKE g \in Hosts
  <2>1. CASE g = h
    BY <1>1, <2>1
  <2>2. CASE g # h
    <3>1. cache'[g] = cache[g]
      BY <1>1, <2>2
    <3>2. Good(cache[g], serial')
      BY <1>1, GoodLater
    <3> QED
      BY <3>1, <3>2
  <2> QED
    BY <2>1, <2>2
<1>5. \A e \in Channels : GoodDraft(draft'[e], e, serial', host'[e])
  <2> TAKE e \in Channels
  <2>1. CASE e = c
    BY <1>1, <2>1
  <2>2. CASE e # c
    <3>1. /\ draft'[e] = draft[e] /\ draft[e] \in Draft /\ draft[e].sync \in Serials
          /\ host'[e] = host[e] /\ GoodDraft(draft[e], e, serial, host[e])
      BY <1>1, <2>2 DEF Draft
    <3> QED
      BY <1>1, <3>1, DraftLater
  <2> QED
    BY <2>1, <2>2
<1>6. mode' \in Modes /\ Draft' = Draft
  BY <1>1 DEF Draft
<1>7. \A e \in Channels : GoodDraft(draft[e], e, serial, host[e])'
  BY <1>5, <1>6 DEF GoodDraft
<1>8. \A g \in Hosts : Good(cache[g], serial)'
  BY <1>4 DEF Good, Cache, Item, Serials, Stamps, Accounted, Pixels
<1> QED
  BY <1>3, <1>6, <1>7, <1>8 DEF CacheInv

\* What is known of channel c.
LEMMA InvFacts ==
  ASSUME CacheInv, NEW c \in Channels
  PROVE  /\ mode \in Modes /\ serial \in Serials /\ serial[c] \in Nat /\ Around
         /\ cache \in [Hosts -> Cache] /\ draft \in [Channels -> Draft]
         /\ \A h \in Hosts : Good(cache[h], serial)
         /\ draft[c] \in Draft /\ GoodDraft(draft[c], c, serial, host[c])
         /\ draft = [draft EXCEPT ![c] = draft[c]]
         /\ \A h \in Hosts : cache = [cache EXCEPT ![h] = cache[h]]
         /\ \A e \in Channels : serial[e] \in Nat /\ serial[e] <= serial[e]
<1>1. /\ mode \in Modes /\ serial \in Serials /\ Around
      /\ cache \in [Hosts -> Cache] /\ draft \in [Channels -> Draft]
      /\ \A h \in Hosts : Good(cache[h], serial)
      /\ \A e \in Channels : GoodDraft(draft[e], e, serial, host[e])
  BY DEF CacheInv
<1>2. \A e \in Channels : serial[e] \in Nat /\ serial[e] <= serial[e]
  BY <1>1 DEF Serials
<1> QED
  BY <1>1, <1>2

\* A step that leaves the caches alone.
LEMMA DraftStep ==
  ASSUME CacheInv, NEW c \in Channels, mode' = mode,
         serial' \in Serials, \A e \in Channels : serial[e] <= serial'[e], cache' = cache,
         NEW d, GoodDraft(d, c, serial', host'[c]), draft' = [draft EXCEPT ![c] = d],
         Around', \A e \in Channels \ {c} : host'[e] = host[e]
  PROVE  CacheInv'
<1>1. /\ "src" \in Hosts /\ Good(cache["src"], serial) /\ serial \in Serials
      /\ cache = [cache EXCEPT !["src"] = cache["src"]]
  BY InvFacts DEF Hosts
<1>2. Good(cache["src"], serial')
  BY <1>1, GoodLater
<1>3. cache' = [cache EXCEPT !["src"] = cache["src"]]
  BY <1>1
<1> QED
  BY <1>1, <1>2, <1>3, CacheStep

\* A step of the client, of which the message being marshalled knows nothing.
LEMMA ClientStep ==
  ASSUME CacheInv, NEW c \in Channels, ServerUnchanged, Around', UNCHANGED host
  PROVE  CacheInv'
<1>1. /\ serial \in Serials /\ GoodDraft(draft[c], c, serial, host[c]) /\ draft = [draft EXCEPT ![c] = draft[c]]
      /\ \A e \in Channels : serial[e] <= serial[e]
  BY InvFacts
<1>2. /\ mode' = mode /\ cache' = cache /\ serial' = serial /\ draft' = draft
  BY DEF ServerUnchanged
<1>3. /\ serial' \in Serials /\ GoodDraft(draft[c], c, serial', host'[c]) /\ draft' = [draft EXCEPT ![c] = draft[c]]
      /\ \A e \in Channels : serial[e] <= serial'[e]
  BY <1>1, <1>2
<1> QED
  BY <1>2, <1>3, DraftStep

\* One channel's number grows by one.
LEMMA NextSerial ==
  ASSUME serial \in Serials, NEW c \in Channels, serial' = [serial EXCEPT ![c] = @ + 1]
  PROVE  /\ serial' \in Serials /\ serial'[c] = serial[c] + 1 /\ serial'[c] > 0
         /\ \A e \in Channels : serial[e] <= serial'[e]
<1>1. \A e \in Channels : serial[e] \in Nat
  BY DEF Serials
<1>2. \A e \in Channels : serial'[e] = IF e = c THEN serial[e] + 1 ELSE serial[e]
  BY DEF Serials
<1>3. serial' \in Serials
  BY <1>1 DEF Serials
<1> QED
  BY <1>1, <1>2, <1>3

\* An empty message.
LEMMA NoneGood ==
  ASSUME mode \in Modes, NEW c \in Channels, NEW n \in Serials, NEW h
  PROVE  /\ GoodDraft(None, c, n, h)
         /\ h \in Hosts => GoodDraft([None EXCEPT !.active = TRUE], c, n, h)
<1>1. mode \in Mode /\ 0 \in 0 .. mode.calls
  BY PixmapAssumption DEF Mode
<1>2. NoSerials \in Serials /\ \A e \in Channels : NoSerials[e] <= n[e]
  BY DEF NoSerials, Serials
<1>3. None \in Draft /\ None.sync = NoSerials /\ None.urgent = FALSE /\ None.active = FALSE
  BY <1>1, <1>2 DEF None, Draft
<1>4. /\ [None EXCEPT !.active = TRUE] \in Draft
      /\ [None EXCEPT !.active = TRUE].sync = NoSerials /\ [None EXCEPT !.active = TRUE].urgent = FALSE
  BY <1>3 DEF Draft
<1> QED
  BY <1>2, <1>3, <1>4 DEF GoodDraft

\* The operations of messages.
LEMMA OpTypes ==
  /\ \A op \in ImageOps, i \in Images : ImageOp(op, i) \in PlainOp
  /\ \A u \in Serials : WaitFor(u) \in Seq(PlainOp)
  /\ [op |-> "clear"] \in PlainOp
<1>1. \A op \in ImageOps, i \in Images : ImageOp(op, i) \in PlainOp
  BY DEF ImageOp, PlainOp
<1>2. ASSUME NEW u \in Serials PROVE WaitFor(u) \in Seq(PlainOp)
  <2>1. [op |-> "wait", until |-> u] \in PlainOp
    BY DEF PlainOp
  <2>2. <<[op |-> "wait", until |-> u]>> \in Seq(PlainOp)
    BY <2>1
  <2> QED
    BY <2>2 DEF WaitFor
<1>3. [op |-> "clear"] \in PlainOp
  BY DEF PlainOp
<1> QED
  BY <1>1, <1>2, <1>3

\* A message more on the wire of a channel that is served.
LEMMA WireTypes ==
  ASSUME Around, NEW c \in Channels, Serving(c), NEW n \in Nat, NEW q \in Seq(PlainOp),
         wire' = [wire EXCEPT ![c] = Append(@, [serial |-> n, ops |-> q])], UNCHANGED host
  PROVE  wire' = [x \in Channels |-> wire'[x]] /\ \A e \in Channels : OnWire(wire'[e], host'[e])
<1>1. PICK m : m = [serial |-> n, ops |-> q]
  OBVIOUS
<1>2. m \in Plain
  BY <1>1 DEF Plain
<1>3. wire[c] \in Seq(Plain)
  BY DEF Around, OnWire, Serving, Hosts
<1>4. Append(wire[c], m) \in Seq(Plain)
  BY <1>2, <1>3
<1>5. wire' = [wire EXCEPT ![c] = Append(wire[c], m)] /\ wire = [x \in Channels |-> wire[x]] /\ host[c] # "moving"
  BY <1>1 DEF Around, Serving, Hosts
<1>6. \A e \in Channels : OnWire(wire'[e], host[e])
  <2> TAKE e \in Channels
  <2>1. CASE e = c
    BY <1>4, <1>5, <2>1 DEF OnWire
  <2>2. CASE e # c
    BY <1>5, <2>2 DEF Around
  <2> QED
    BY <2>1, <2>2
<1> QED
  BY <1>5, <1>6

\* The list of what was evicted, behind what has to be waited for.
LEMMA FreeListType == ASSUME CacheInv, NEW c \in Channels PROVE FreeList(c) \in Seq(PlainOp)
<1>1. draft[c].freed \in Seq(Images) /\ draft[c].sync \in Serials
  BY InvFacts DEF Draft
<1>2. [draft[c].sync EXCEPT ![c] = 0] \in Serials
  BY <1>1, SerialSet
<1>3. PICK a : a = WaitFor([draft[c].sync EXCEPT ![c] = 0])
  OBVIOUS
<1>4. a \in Seq(PlainOp)
  BY <1>2, <1>3, OpTypes
<1>5. PICK f : f = draft[c].freed
  OBVIOUS
<1>6. PICK b : b = [j \in DOMAIN f |-> ImageOp("inval", f[j])]
  OBVIOUS
<1>7. b \in Seq(PlainOp)
  <2>1. DOMAIN f = 1 .. Len(f) /\ Len(f) \in Nat
    BY <1>1, <1>5
  <2>2. \A j \in DOMAIN f : ImageOp("inval", f[j]) \in PlainOp
    BY <1>1, <1>5, OpTypes DEF ImageOps
  <2>3. b \in [1 .. Len(f) -> PlainOp]
    BY <1>6, <2>1, <2>2
  <2> QED
    BY <2>1, <2>3
<1>8. FreeList(c) = a \o b
  BY <1>3, <1>5, <1>6 DEF FreeList
<1> QED
  BY <1>4, <1>7, <1>8

-----------------------------------------------------------------------------
(* The worker's steps. *)

\* A drawable is taken from the pipe.
LEMMA StartDrawableStep == ASSUME CacheInv, NEW c \in Channels, StartDrawable(c) PROVE CacheInv'
<1>1. mode \in Modes /\ serial \in Serials /\ Around
  BY InvFacts
<1>2. serial' = [serial EXCEPT ![c] = @ + 1]
  BY DEF StartDrawable
<1>3. serial' \in Serials /\ \A e \in Channels : serial[e] <= serial'[e]
  BY <1>1, <1>2, NextSerial
<1>4. PICK d : d = [None EXCEPT !.active = TRUE]
  OBVIOUS
<1>5. GoodDraft(d, c, serial', host'[c]) /\ draft' = [draft EXCEPT ![c] = d]
  BY <1>1, <1>3, <1>4, NoneGood DEF StartDrawable, Serving
<1>6. used' \in [Channels -> 0 .. MaxItems]
  <2>1. used[c] \in 0 .. MaxItems /\ used[c] < MaxItems
    BY <1>1 DEF Around, StartDrawable
  <2>2. used[c] + 1 \in 0 .. MaxItems
    BY <2>1, PixmapAssumption
  <2> QED
    BY <1>1, <2>2 DEF Around, StartDrawable
<1>7. Around' /\ mode' = mode /\ cache' = cache /\ host' = host
  BY <1>1, <1>6 DEF Around, StartDrawable
<1> QED
  BY <1>3, <1>5, <1>7, DraftStep

\* A message that changes and the numbers that do not: what the other steps of composing have in common.
LEMMA ComposeStep ==
  ASSUME CacheInv, NEW c \in Channels, Serving(c), UNCHANGED <<mode, serial, host>>,
         NEW k, Good(k, serial), cache' = [cache EXCEPT ![host[c]] = k],
         NEW d, GoodDraft(d, c, serial, host[c]), draft' = [draft EXCEPT ![c] = d],
         Around'
  PROVE  CacheInv'
<1>1. serial \in Serials /\ \A e \in Channels : serial[e] <= serial[e]
  BY InvFacts
<1>2. host[c] \in Hosts
  BY DEF Serving
<1>3. /\ serial' \in Serials /\ \A e \in Channels : serial[e] <= serial'[e]
      /\ Good(k, serial') /\ GoodDraft(d, c, serial', host'[c]) /\ mode' = mode
  BY <1>1
<1> QED
  BY <1>2, <1>3, CacheStep

\* A channel that composes a message is served, and knows its cache.
LEMMA ComposingFacts ==
  ASSUME CacheInv, NEW c \in Channels, draft[c].active
  PROVE  Serving(c) /\ host[c] \in Hosts /\ Good(CacheOf(c), serial) /\ CacheOf(c) = cache[host[c]]
BY InvFacts DEF GoodDraft, Serving, CacheOf

\* is_bitmap_lossy stamps the image.
LEMMA IsBitmapLossyStep ==
  ASSUME CacheInv, NEW c \in Channels, NEW i \in Images, IsBitmapLossy(c, i)
  PROVE  CacheInv'
<1>1. draft[c].active /\ Cached(CacheOf(c), i)
  BY DEF IsBitmapLossy, Composing
<1>2. Serving(c) /\ Good(CacheOf(c), serial) /\ CacheOf(c) = cache[host[c]] /\ serial \in Serials
  BY <1>1, ComposingFacts, InvFacts
<1>3. PICK k : k = Stamped(CacheOf(c), c, i)
  OBVIOUS
<1>4. Good(k, serial) /\ cache' = [cache EXCEPT ![host[c]] = k]
  BY <1>1, <1>2, <1>3, StampedGood DEF IsBitmapLossy
<1>5. GoodDraft(draft[c], c, serial, host[c]) /\ draft' = [draft EXCEPT ![c] = draft[c]] /\ Around
  BY InvFacts DEF IsBitmapLossy
<1>6. Around' /\ UNCHANGED <<mode, serial, host>>
  BY <1>5 DEF IsBitmapLossy, Around
<1> QED
  BY <1>2, <1>4, <1>5, <1>6, ComposeStep

\* A message with an image more in it.
LEMMA DraftGrows ==
  ASSUME NEW d, NEW c \in Channels, NEW n, NEW h, GoodDraft(d, c, n, h), mode \in Modes,
         d.calls < mode.calls
  PROVE  /\ GoodDraft([d EXCEPT !.calls = @ + 1], c, n, h)
         /\ \A o \in PlainOp, i \in Images :
              GoodDraft([d EXCEPT !.calls = @ + 1, !.items = Append(@, i), !.ops = Append(@, o)], c, n, h)
<1>1. d \in Draft /\ d.calls \in 0 .. mode.calls /\ d.items \in Seq(Images) /\ d.ops \in Seq(PlainOp)
  BY DEF GoodDraft, Draft
<1>2. d.calls + 1 \in 0 .. mode.calls
  BY <1>1, PixmapAssumption DEF Mode
<1>3. PICK m : m = d.calls + 1
  OBVIOUS
<1>4. PICK a : a = [d EXCEPT !.calls = m]
  OBVIOUS
<1>5. a \in Draft /\ a.sync = d.sync /\ a.urgent = d.urgent /\ a.active = d.active
  BY <1>1, <1>2, <1>3, <1>4 DEF Draft
<1>6. [d EXCEPT !.calls = @ + 1] = a
  BY <1>3, <1>4
<1>7. GoodDraft(a, c, n, h)
  BY <1>5 DEF GoodDraft
<1>8. ASSUME NEW o \in PlainOp, NEW i \in Images
      PROVE  GoodDraft([d EXCEPT !.calls = @ + 1, !.items = Append(@, i), !.ops = Append(@, o)], c, n, h)
  <2>1. PICK it, op : it = Append(d.items, i) /\ op = Append(d.ops, o)
    OBVIOUS
  <2>2. it \in Seq(Images) /\ op \in Seq(PlainOp)
    BY <1>1, <2>1
  <2>3. PICK b : b = [d EXCEPT !.calls = m, !.items = it, !.ops = op]
    OBVIOUS
  <2>4. b \in Draft /\ b.sync = d.sync /\ b.urgent = d.urgent /\ b.active = d.active
    BY <1>1, <1>2, <1>3, <2>2, <2>3 DEF Draft
  <2>5. [d EXCEPT !.calls = @ + 1, !.items = Append(@, i), !.ops = Append(@, o)] = b
    BY <1>3, <2>1, <2>3
  <2> QED
    BY <2>4, <2>5 DEF GoodDraft
<1> QED
  BY <1>6, <1>7, <1>8

\* fill_bits finds the image.
LEMMA FillFromCacheStep ==
  ASSUME CacheInv, NEW c \in Channels, NEW i \in Images, NEW b \in BOOLEAN, FillFromCache(c, i, b)
  PROVE  CacheInv'
<1>1. draft[c].active /\ Cached(CacheOf(c), i) /\ draft[c].calls < mode.calls
  BY DEF FillFromCache, Composing
<1>2. Serving(c) /\ Good(CacheOf(c), serial) /\ CacheOf(c) = cache[host[c]] /\ serial \in Serials
  BY <1>1, ComposingFacts, InvFacts
<1>3. PICK k : k = Stamped(CacheOf(c), c, i)
  OBVIOUS
<1>4. Good(k, serial) /\ Good(SetLossless(k, i), serial)
  <2>1. Good(k, serial)
    BY <1>1, <1>2, <1>3, StampedGood
  <2> QED
    BY <1>2, <2>1, SetLosslessGood
<1>5. PICK op \in {"replace", "get", "get_lossless"} :
         /\ cache' = [cache EXCEPT ![host[c]] = IF op = "replace" THEN SetLossless(k, i) ELSE k]
         /\ draft' = [draft EXCEPT ![c].ops = Append(@, ImageOp(op, i)),
                                   ![c].items = Append(@, i), ![c].calls = @ + 1]
  BY <1>3 DEF FillFromCache
<1>6. PICK r : r = IF op = "replace" THEN SetLossless(k, i) ELSE k
  OBVIOUS
<1>7. Good(r, serial) /\ cache' = [cache EXCEPT ![host[c]] = r]
  BY <1>4, <1>5, <1>6
<1>8. PICK o : o = ImageOp(op, i)
  OBVIOUS
<1>9. o \in PlainOp
  BY <1>8, OpTypes DEF ImageOps
<1>10. /\ draft \in [Channels -> Draft] /\ GoodDraft(draft[c], c, serial, host[c]) /\ mode \in Modes
       /\ Around
  BY InvFacts
<1>11. PICK d : d = [draft[c] EXCEPT !.calls = @ + 1, !.items = Append(@, i), !.ops = Append(@, o)]
  OBVIOUS
<1>12. GoodDraft(d, c, serial, host[c])
  BY <1>1, <1>9, <1>10, <1>11, DraftGrows
<1>13. draft' = [draft EXCEPT ![c] = d]
  BY <1>5, <1>8, <1>10, <1>11 DEF Draft
<1>14. Around' /\ UNCHANGED <<mode, serial, host>>
  BY <1>10 DEF FillFromCache, Around
<1> QED
  BY <1>2, <1>7, <1>12, <1>13, <1>14, ComposeStep

\* display_channel_push_release records what was evicted and the numbers to wait for.
LEMMA PushReleaseGood ==
  ASSUME NEW d, NEW c \in Channels, NEW n \in Serials, NEW h, GoodDraft(d, c, n, h),
         NEW e \in Seq(Item), Stamps(e, n)
  PROVE  GoodDraft(PushRelease(d, e), c, n, h) /\ PushRelease(d, e).calls = d.calls
<1>1. d \in Draft /\ d.freed \in Seq(Images) /\ d.sync \in Serials
  BY DEF GoodDraft, Draft
<1>2. PICK f : f = [j \in DOMAIN e |-> e[j].id]
  OBVIOUS
<1>3. f \in Seq(Images)
  <2>1. DOMAIN e = 1 .. Len(e) /\ Len(e) \in Nat
    OBVIOUS
  <2>2. \A j \in DOMAIN e : e[j].id \in Images
    <3> TAKE j \in DOMAIN e
    <3>1. e[j] \in Item
      OBVIOUS
    <3> QED
      BY <3>1 DEF Item
  <2>3. f \in [1 .. Len(e) -> Images]
    BY <1>2, <2>1, <2>2
  <2> QED
    BY <2>1, <2>3
<1>4. d.freed \o f \in Seq(Images)
  BY <1>1, <1>3
<1>5. ASSUME NEW g \in Channels
      PROVE  /\ Max({d.sync[g]} \cup {x.sync[g] : x \in Range(e)}) \in Nat
             /\ Max({d.sync[g]} \cup {x.sync[g] : x \in Range(e)}) <= n[g]
  <2> DEFINE S == {d.sync[g]} \cup {x.sync[g] : x \in Range(e)}
  <2>1. n[g] \in Nat /\ d.sync[g] \in Nat /\ d.sync[g] <= n[g]
    BY <1>1 DEF Serials, GoodDraft
  <2>2. \A x \in Range(e) : x.sync[g] \in Nat /\ x.sync[g] <= n[g]
    <3> TAKE x \in Range(e)
    <3>1. PICK j \in DOMAIN e : x = e[j]
      BY DEF Range
    <3>2. x \in Item
      BY <3>1
    <3> QED
      BY <3>1, <3>2 DEF Item, Serials, Stamps
  <2>3. S \subseteq Nat /\ S # {} /\ \A x \in S : x <= n[g]
    BY <2>1, <2>2
  <2> HIDE DEF S
  <2>4. Max(S) \in S
    BY <2>1, <2>3, LargestOf
  <2> QED
    BY <2>3, <2>4 DEF S
<1>6. PICK y : y = [g \in Channels |-> Max({d.sync[g]} \cup {x.sync[g] : x \in Range(e)})]
  OBVIOUS
<1>7. y \in Serials /\ \A g \in Channels : y[g] <= n[g]
  BY <1>5, <1>6 DEF Serials
<1>8. PICK q : q = d.freed \o f
  OBVIOUS
<1>9. PICK r : r = [d EXCEPT !.freed = q, !.sync = y]
  OBVIOUS
<1>10. r \in Draft /\ r.sync = y /\ r.urgent = d.urgent /\ r.active = d.active /\ r.calls = d.calls
  BY <1>1, <1>4, <1>7, <1>8, <1>9 DEF Draft
<1>11. PushRelease(d, e) = r
  BY <1>1, <1>2, <1>6, <1>8, <1>9 DEF PushRelease, Draft
<1> QED
  BY <1>7, <1>10, <1>11 DEF GoodDraft

\* fill_bits does not find the image, and adds it if it can.
LEMMA FillAndAddStep ==
  ASSUME CacheInv, NEW c \in Channels, NEW i \in Images, NEW b \in BOOLEAN, FillAndAdd(c, i, b)
  PROVE  CacheInv'
<1>1. draft[c].active /\ draft[c].calls < mode.calls
  BY DEF FillAndAdd, Composing
<1>2. Serving(c) /\ Good(CacheOf(c), serial) /\ CacheOf(c) = cache[host[c]] /\ serial \in Serials
  BY <1>1, ComposingFacts, InvFacts
<1>3. PICK k : k = CacheOf(c)
  OBVIOUS
<1>4. PICK r : r = Added(k, c, i, b)
  OBVIOUS
<1>5. Good(r, serial) /\ cache' = [cache EXCEPT ![host[c]] = r]
  BY <1>2, <1>3, <1>4, AddedGood DEF FillAndAdd
<1>6. /\ draft \in [Channels -> Draft] /\ GoodDraft(draft[c], c, serial, host[c]) /\ mode \in Modes
      /\ Around
  BY InvFacts
<1>7. PICK e : e = Evicted(k, c, i)
  OBVIOUS
<1>8. e \in Seq(Item) /\ Stamps(e, serial)
  BY <1>2, <1>3, <1>7, EvictedParts
<1>9. PICK d : d = PushRelease(draft[c], e)
  OBVIOUS
<1>10. GoodDraft(d, c, serial, host[c]) /\ d.calls < mode.calls
  BY <1>1, <1>2, <1>6, <1>8, <1>9, PushReleaseGood
<1>11. PICK o : o = ImageOp(IF b THEN "put_lossy" ELSE "put", i)
  OBVIOUS
<1>12. o \in PlainOp
  <2>1. (IF b THEN "put_lossy" ELSE "put") \in ImageOps
    BY DEF ImageOps
  <2> QED
    BY <1>11, <2>1, OpTypes
<1>13. PICK f : f = IF ~CanAdd(k, c, i) THEN [d EXCEPT !.calls = @ + 1]
                    ELSE [d EXCEPT !.calls = @ + 1, !.items = Append(@, i), !.ops = Append(@, o)]
  OBVIOUS
<1>14. GoodDraft(f, c, serial, host[c])
  BY <1>6, <1>10, <1>12, <1>13, DraftGrows
<1>15. draft' = [draft EXCEPT ![c] = f]
  BY <1>3, <1>7, <1>9, <1>11, <1>13 DEF FillAndAdd
<1>16. pipe' \in [Channels -> SUBSET {"sync", "reset"}]
  BY <1>6 DEF FillAndAdd, Around
<1>17. Around' /\ UNCHANGED <<mode, serial, host>>
  BY <1>6, <1>16 DEF FillAndAdd, Around
<1> QED
  BY <1>2, <1>5, <1>14, <1>15, <1>17, ComposeStep

\* A step that only sends: what those that send have in common.
LEMMA SendStep ==
  ASSUME CacheInv, NEW c \in Channels, UNCHANGED <<mode, host, cache, serial>>,
         draft' = [draft EXCEPT ![c] = None], Around'
  PROVE  CacheInv'
<1>1. mode \in Modes /\ serial \in Serials /\ \A e \in Channels : serial[e] <= serial[e]
  BY InvFacts
<1>2. GoodDraft(None, c, serial', host'[c]) /\ \A e \in Channels : serial[e] <= serial'[e]
  BY <1>1, NoneGood
<1> QED
  BY <1>1, <1>2, DraftStep

\* The message goes out, behind its free list if it has one.
LEMMA SendDrawableStep == ASSUME CacheInv, NEW c \in Channels, SendDrawable(c) PROVE CacheInv'
<1>1. draft[c].active
  BY DEF SendDrawable, Composing
<1>2. Serving(c) /\ Around /\ serial[c] \in Nat /\ draft[c].ops \in Seq(PlainOp)
  BY <1>1, ComposingFacts, InvFacts DEF Draft
<1>3. PICK q : q = (IF draft[c].freed = <<>> THEN <<>> ELSE FreeList(c)) \o draft[c].ops
  OBVIOUS
<1>4. q \in Seq(PlainOp)
  <2>1. FreeList(c) \in Seq(PlainOp)
    BY FreeListType
  <2>2. (IF draft[c].freed = <<>> THEN <<>> ELSE FreeList(c)) \in Seq(PlainOp)
    BY <2>1
  <2> QED
    BY <1>2, <1>3, <2>2
<1>5. wire' = [wire EXCEPT ![c] = Append(@, [serial |-> serial[c], ops |-> q])] /\ UNCHANGED host
  BY <1>3 DEF SendDrawable
<1>6. wire' = [x \in Channels |-> wire'[x]] /\ \A e \in Channels : OnWire(wire'[e], host'[e])
  BY <1>2, <1>4, <1>5, WireTypes
<1>7. Around'
  BY <1>2, <1>6 DEF Around, SendDrawable
<1> QED
  BY <1>7, SendStep DEF SendDrawable

\* The free list takes the number of the message, and the message the next one.
LEMMA SwitchToUrgentStep == ASSUME CacheInv, NEW c \in Channels, SwitchToUrgent(c) PROVE CacheInv'
<1>1. draft[c].active
  BY DEF SwitchToUrgent, Composing
<1>2. /\ serial \in Serials /\ Around /\ draft \in [Channels -> Draft]
      /\ draft[c] \in Draft /\ GoodDraft(draft[c], c, serial, host[c])
  BY InvFacts
<1>3. serial' = [serial EXCEPT ![c] = @ + 1]
  BY DEF SwitchToUrgent
<1>4. serial' \in Serials /\ serial'[c] > 0 /\ \A e \in Channels : serial[e] <= serial'[e]
  BY <1>2, <1>3, NextSerial
<1>5. PICK d : d = [draft[c] EXCEPT !.urgent = TRUE]
  OBVIOUS
<1>6. draft' = [draft EXCEPT ![c] = d]
  BY <1>2, <1>5 DEF SwitchToUrgent
<1>7. d \in Draft /\ d.sync = draft[c].sync /\ d.sync \in Serials /\ d.active
  BY <1>1, <1>2, <1>5 DEF Draft
<1>8. \A e \in Channels : d.sync[e] <= serial'[e]
  <2> TAKE e \in Channels
  <2>1. d.sync[e] \in Nat /\ serial[e] \in Nat /\ serial'[e] \in Nat
    BY <1>2, <1>4, <1>7 DEF Serials
  <2>2. d.sync[e] <= serial[e] /\ serial[e] <= serial'[e]
    BY <1>2, <1>4, <1>7 DEF GoodDraft
  <2> QED
    BY <2>1, <2>2
<1>9. GoodDraft(d, c, serial', host'[c])
  BY <1>1, <1>2, <1>4, <1>7, <1>8 DEF GoodDraft, SwitchToUrgent
<1>10. Around' /\ UNCHANGED <<mode, cache, host>>
  BY <1>2 DEF Around, SwitchToUrgent
<1> QED
  BY <1>4, <1>6, <1>9, <1>10, DraftStep

\* pixmap_cache_hit for the images of the message.
LEMMA UpdateSerialStep == ASSUME CacheInv, NEW c \in Channels, UpdateSerial(c) PROVE CacheInv'
<1>1. /\ serial \in Serials /\ Around /\ draft \in [Channels -> Draft] /\ cache \in [Hosts -> Cache]
      /\ draft[c] \in Draft /\ GoodDraft(draft[c], c, serial, host[c])
  BY InvFacts
<1>2. draft[c].urgent /\ draft[c].active
  BY <1>1 DEF UpdateSerial, GoodDraft
<1>3. Serving(c) /\ host[c] \in Hosts /\ Good(CacheOf(c), serial) /\ CacheOf(c) = cache[host[c]]
  BY <1>2, ComposingFacts
<1>4. draft[c].items \in Seq(Images) /\ draft[c].items # <<>>
  BY <1>1 DEF Draft, UpdateSerial
<1>5. PICK i : i = Head(draft[c].items)
  OBVIOUS
<1>6. i \in Images /\ Tail(draft[c].items) \in Seq(Images)
  BY <1>4, <1>5
<1>7. PICK k : k = IF Cached(cache[host[c]], i) THEN Stamped(cache[host[c]], c, i) ELSE cache[host[c]]
  OBVIOUS
<1>8. Good(k, serial)
  BY <1>1, <1>3, <1>6, <1>7, StampedGood
<1>9. cache' = [cache EXCEPT ![host[c]] = k]
  BY <1>1, <1>3, <1>5, <1>7 DEF UpdateSerial
<1>10. PICK q : q = Tail(draft[c].items)
  OBVIOUS
<1>11. PICK d : d = [draft[c] EXCEPT !.items = q]
  OBVIOUS
<1>12. draft' = [draft EXCEPT ![c] = d]
  BY <1>1, <1>10, <1>11 DEF UpdateSerial
<1>13. d \in Draft /\ d.sync = draft[c].sync /\ d.active = draft[c].active /\ d.urgent = draft[c].urgent
  BY <1>1, <1>6, <1>10, <1>11 DEF Draft
<1>14. GoodDraft(d, c, serial, host[c])
  BY <1>1, <1>13 DEF GoodDraft
<1>15. Around' /\ UNCHANGED <<mode, serial, host>>
  BY <1>1 DEF Around, UpdateSerial
<1> QED
  BY <1>3, <1>8, <1>9, <1>12, <1>14, <1>15, ComposeStep

\* Both messages go out.
LEMMA SendUrgentStep == ASSUME CacheInv, NEW c \in Channels, SendUrgent(c) PROVE CacheInv'
<1>1. /\ serial[c] \in Nat /\ Around /\ draft[c] \in Draft /\ GoodDraft(draft[c], c, serial, host[c])
      /\ draft[c].ops \in Seq(PlainOp)
  BY InvFacts DEF Draft
<1>2. draft[c].urgent /\ draft[c].active /\ serial[c] > 0
  BY <1>1 DEF SendUrgent, GoodDraft
<1>3. Serving(c) /\ host[c] # "moving"
  BY <1>2, ComposingFacts DEF Serving, Hosts
<1>4. PICK m, n : /\ m = [serial |-> serial[c] - 1, ops |-> FreeList(c)]
                  /\ n = [serial |-> serial[c], ops |-> draft[c].ops]
  OBVIOUS
<1>5. m \in Plain /\ n \in Plain
  <2>1. FreeList(c) \in Seq(PlainOp) /\ serial[c] - 1 \in Nat
    BY <1>1, <1>2, FreeListType
  <2> QED
    BY <1>1, <1>4, <2>1 DEF Plain
<1>6. wire[c] \in Seq(Plain) /\ wire = [x \in Channels |-> wire[x]]
  BY <1>1, <1>3 DEF Around, OnWire
<1>7. PICK w : w = wire[c] \o <<m, n>>
  OBVIOUS
<1>8. w \in Seq(Plain)
  <2>1. <<m, n>> \in Seq(Plain)
    BY <1>5
  <2> QED
    BY <1>6, <1>7, <2>1
<1>9. wire' = [wire EXCEPT ![c] = w]
  BY <1>4, <1>7 DEF SendUrgent
<1>10. \A e \in Channels : OnWire(wire'[e], host[e])
  <2> TAKE e \in Channels
  <2>1. CASE e = c
    BY <1>3, <1>6, <1>8, <1>9, <2>1 DEF OnWire
  <2>2. CASE e # c
    BY <1>1, <1>6, <1>9, <2>2 DEF Around
  <2> QED
    BY <2>1, <2>2
<1>11. Around'
  BY <1>1, <1>6, <1>9, <1>10 DEF Around, SendUrgent
<1> QED
  BY <1>11, SendStep DEF SendUrgent

\* PIXMAP_SYNC: a message that waits for the channel that reset the cache.
LEMMA PixmapSyncStep == ASSUME CacheInv, NEW c \in Channels, PixmapSync(c) PROVE CacheInv'
<1>1. /\ serial \in Serials /\ serial[c] \in Nat /\ Around /\ draft = [draft EXCEPT ![c] = draft[c]]
      /\ draft[c] \in Draft /\ GoodDraft(draft[c], c, serial, host[c])
      /\ \A h \in Hosts : Good(cache[h], serial)
  BY InvFacts
<1>2. Serving(c) /\ host[c] \in Hosts
  BY DEF PixmapSync, Serving
<1>3. PICK k : k = CacheOf(c)
  OBVIOUS
<1>4. k \in Cache /\ k.initiator \in Serials /\ k.generation \in Nat
  <2>1. k \in Cache
    BY <1>1, <1>2, <1>3 DEF Good, CacheOf
  <2> QED
    BY <2>1, CacheFields
<1>5. serial' = [serial EXCEPT ![c] = @ + 1]
  BY DEF PixmapSync
<1>6. serial' \in Serials /\ serial'[c] > 0 /\ \A e \in Channels : serial[e] <= serial'[e]
  BY <1>1, <1>5, NextSerial
<1>7. PICK q : q = WaitFor(k.initiator)
  OBVIOUS
<1>8. PICK n : n = serial[c] + 1
  OBVIOUS
<1>9. q \in Seq(PlainOp) /\ n \in Nat
  BY <1>1, <1>4, <1>7, <1>8, OpTypes
<1>10. wire' = [wire EXCEPT ![c] = Append(@, [serial |-> n, ops |-> q])] /\ UNCHANGED host
  BY <1>3, <1>7, <1>8 DEF PixmapSync
<1>11. wire' = [x \in Channels |-> wire'[x]] /\ \A e \in Channels : OnWire(wire'[e], host'[e])
  BY <1>1, <1>2, <1>9, <1>10, WireTypes
<1>12. gen' \in [Channels -> Nat] /\ pipe' \in [Channels -> SUBSET {"sync", "reset"}]
  BY <1>1, <1>3, <1>4 DEF PixmapSync, Around
<1>13. Around' /\ UNCHANGED <<mode, cache, host, draft>>
  BY <1>1, <1>11, <1>12 DEF PixmapSync, Around
<1>14. GoodDraft(draft[c], c, serial', host'[c]) /\ draft' = [draft EXCEPT ![c] = draft[c]]
  BY <1>1, <1>6, <1>13, DraftLater
<1> QED
  BY <1>6, <1>13, <1>14, DraftStep

\* PIXMAP_RESET empties the cache, or thaws it.
LEMMA PixmapResetStep == ASSUME CacheInv, NEW c \in Channels, PixmapReset(c) PROVE CacheInv'
<1>1. /\ serial \in Serials /\ serial[c] \in Nat /\ Around /\ draft = [draft EXCEPT ![c] = draft[c]]
      /\ GoodDraft(draft[c], c, serial, host[c])
      /\ \A h \in Hosts : Good(cache[h], serial)
  BY InvFacts
<1>2. Serving(c) /\ host[c] \in Hosts
  BY DEF PixmapReset, Serving
<1>3. PICK k : k = CacheOf(c)
  OBVIOUS
<1>4. k \in Cache
  BY <1>1, <1>2, <1>3 DEF Good, CacheOf
<1>5. PICK n : n = serial[c] + 1
  OBVIOUS
<1>6. n \in Nat
  BY <1>1, <1>5
<1>7. PICK r : r = ResetCache(k, c, n)
  OBVIOUS
<1>8. r \in Cache /\ r.lru = <<>> /\ r.available = r.size
  <2>1. PICK w, z : w = [k.sync EXCEPT ![c] = n] /\ z = [NoSerials EXCEPT ![c] = n]
    OBVIOUS
  <2>2. w \in Serials /\ z \in Serials /\ k.size \in Int /\ k.generation \in Nat
    BY <1>4, <1>6, <2>1, SerialSet, CacheFields
  <2>3. PICK g \in Nat : g = k.generation + 1
    BY <2>2
  <2>0. <<>> \in Seq(Item)
    OBVIOUS
  <2>4. PICK l, a : l = <<>> /\ a = k.size /\ l \in Seq(Item) /\ a \in Int
    BY <2>0, <2>2, Zenon
  <2>5. r = [k EXCEPT !.lru = l, !.available = a, !.frozen = FALSE, !.generation = g,
                      !.sync = w, !.initiator = z]
    BY <1>4, <1>7, <2>1, <2>3, <2>4 DEF ResetCache, Cache
  <2>6. r \in Cache /\ r.lru = l /\ r.available = a /\ r.size = k.size
    BY <1>4, <2>2, <2>3, <2>4, <2>5 DEF Cache
  <2> QED
    BY <2>4, <2>6
<1>9. serial' = [serial EXCEPT ![c] = @ + 1]
  BY <1>5 DEF PixmapReset
<1>10. serial' \in Serials /\ \A e \in Channels : serial[e] <= serial'[e]
  BY <1>1, <1>9, NextSerial
<1>11. Good(r, serial') /\ cache' = [cache EXCEPT ![host[c]] = r]
  BY <1>3, <1>5, <1>7, <1>8, EmptyGood DEF PixmapReset
<1>12. PICK q : q = Append(WaitFor([k.sync EXCEPT ![c] = 0]), [op |-> "clear"])
  OBVIOUS
<1>13. q \in Seq(PlainOp)
  <2>1. [k.sync EXCEPT ![c] = 0] \in Serials
    BY <1>4, CacheFields, SerialSet
  <2>2. WaitFor([k.sync EXCEPT ![c] = 0]) \in Seq(PlainOp) /\ [op |-> "clear"] \in PlainOp
    BY <2>1, OpTypes
  <2> QED
    BY <1>12, <2>2
<1>14. wire' = [wire EXCEPT ![c] = Append(@, [serial |-> n, ops |-> q])] /\ UNCHANGED host
  BY <1>3, <1>5, <1>12 DEF PixmapReset
<1>15. wire' = [x \in Channels |-> wire'[x]] /\ \A e \in Channels : OnWire(wire'[e], host'[e])
  BY <1>1, <1>2, <1>6, <1>13, <1>14, WireTypes
<1>16. gen' \in [Channels -> Nat] /\ pipe' \in [Channels -> SUBSET {"sync", "reset"}]
  <2>1. k.generation \in Nat
    BY <1>4, CacheFields
  <2>2. k.generation + 1 \in Nat
    BY <2>1
  <2> QED
    BY <1>1, <1>3, <2>2 DEF PixmapReset, Around
<1>17. Around' /\ UNCHANGED <<mode, host, draft>>
  BY <1>1, <1>15, <1>16 DEF PixmapReset, Around
<1>18. GoodDraft(draft[c], c, serial', host'[c]) /\ draft' = [draft EXCEPT ![c] = draft[c]]
  BY <1>1, <1>10, <1>17, DraftLater
<1> QED
  BY <1>2, <1>10, <1>11, <1>17, <1>18, CacheStep

\* MIGRATE_DATA: the cache is frozen, and the channel sends nothing more from here.
LEMMA MigrateDataStep == ASSUME CacheInv, NEW c \in Channels, MigrateData(c) PROVE CacheInv'
<1>1. /\ serial \in Serials /\ serial[c] \in Nat /\ Around /\ draft = [draft EXCEPT ![c] = draft[c]]
      /\ GoodDraft(draft[c], c, serial, host[c])
      /\ \A h \in Hosts : Good(cache[h], serial)
  BY InvFacts
<1>2. "src" \in Hosts /\ cache["src"] \in Cache /\ host[c] = "src"
  BY <1>1 DEF Hosts, Good, MigrateData
<1>3. serial' = [serial EXCEPT ![c] = @ + 1]
  BY DEF MigrateData
<1>4. serial' \in Serials /\ \A e \in Channels : serial[e] <= serial'[e]
  BY <1>1, <1>3, NextSerial
<1>5. PICK k : k = Freeze(cache["src"])
  OBVIOUS
<1>6. Good(k, serial')
  <2>1. CASE cache["src"].frozen
    <3>1. k = cache["src"]
      BY <1>5, <2>1 DEF Freeze
    <3> QED
      BY <1>1, <1>2, <1>4, <3>1, GoodLater
  <2>2. CASE ~cache["src"].frozen
    <3>1. k = [cache["src"] EXCEPT !.lru = <<>>, !.available = -1, !.frozen = TRUE]
      BY <1>5, <2>2 DEF Freeze
    <3>0. <<>> \in Seq(Item) /\ -1 \in Int
      OBVIOUS
    <3>2. PICK l, a : l = <<>> /\ a = -1 /\ l \in Seq(Item) /\ a \in Int
      BY <3>0, Zenon
    <3>3. k = [cache["src"] EXCEPT !.lru = l, !.available = a, !.frozen = TRUE]
      BY <3>1, <3>2
    <3>4. k \in Cache /\ k.lru = l /\ k.available = a
      BY <1>2, <3>2, <3>3 DEF Cache
    <3>5. k.available < 0 /\ k.lru = <<>>
      BY <3>2, <3>4
    <3> QED
      BY <3>4, <3>5, EmptyGood
  <2> QED
    BY <2>1, <2>2
<1>7. cache' = [cache EXCEPT !["src"] = k]
  BY <1>5 DEF MigrateData
<1>8. used' \in [Channels -> 0 .. MaxItems]
  <2>1. used[c] \in 0 .. MaxItems /\ used[c] < MaxItems
    BY <1>1 DEF Around, MigrateData
  <2>2. used[c] + 1 \in 0 .. MaxItems
    BY <2>1, PixmapAssumption
  <2> QED
    BY <1>1, <2>2 DEF Around, MigrateData
<1>9. data' \in [Channels -> [freezer : BOOLEAN, sync : Serials]]
  <2>1. cache["src"].frozen \in BOOLEAN /\ cache["src"].sync \in Serials
    BY <1>2, CacheFields
  <2>2. [freezer |-> ~cache["src"].frozen, sync |-> cache["src"].sync] \in [freezer : BOOLEAN, sync : Serials]
    BY <2>1
  <2> QED
    BY <1>1, <2>2 DEF Around, MigrateData
<1>10. PICK n \in Nat : n = serial[c] + 1
  BY <1>1
<1>11. wire[c] \in Seq(Plain) /\ wire = [x \in Channels |-> wire[x]]
  BY <1>1, <1>2 DEF Around, OnWire
<1>12. PICK w : w = Append(wire[c], LastOne(n))
  OBVIOUS
<1>13. wire' = [wire EXCEPT ![c] = w] /\ host' = [host EXCEPT ![c] = "moving"]
  BY <1>10, <1>12 DEF MigrateData, LastOne
<1>14. host' \in [Channels -> {"src", "moving", "arrived", "dst"}] /\ host'[c] = "moving"
       /\ \A e \in Channels \ {c} : host'[e] = host[e]
  BY <1>1, <1>13 DEF Around
<1>15. \A e \in Channels : OnWire(wire'[e], host'[e])
  <2> TAKE e \in Channels
  <2>1. CASE e = c
    BY <1>10, <1>11, <1>12, <1>13, <1>14, <2>1 DEF OnWire
  <2>2. CASE e # c
    BY <1>1, <1>11, <1>13, <1>14, <2>2 DEF Around
  <2> QED
    BY <2>1, <2>2
<1>16. Around'
  BY <1>1, <1>8, <1>9, <1>11, <1>13, <1>14, <1>15 DEF Around, MigrateData
<1>17. GoodDraft(draft[c], c, serial', host'[c]) /\ draft' = [draft EXCEPT ![c] = draft[c]]
  <2>1. ~draft[c].active
    BY DEF MigrateData
  <2>2. GoodDraft(draft[c], c, serial', host[c])
    BY <1>1, <1>4, DraftLater
  <2> QED
    BY <1>1, <2>1, <2>2 DEF GoodDraft, MigrateData
<1> QED
  BY <1>2, <1>4, <1>6, <1>7, <1>14, <1>16, <1>17, CacheStep DEF MigrateData

\* The target learns the numbers, and the size from the channel that froze the cache.
LEMMA HandleMigrateDataStep == ASSUME CacheInv, FreezeInv, NEW c \in Channels, HandleMigrateData(c) PROVE CacheInv'
<1>1. /\ serial \in Serials /\ Around /\ draft = [draft EXCEPT ![c] = draft[c]]
      /\ GoodDraft(draft[c], c, serial, host[c]) /\ cache \in [Hosts -> Cache]
      /\ \A h \in Hosts : Good(cache[h], serial)
      /\ \A e \in Channels : serial[e] <= serial[e]
  BY InvFacts
<1>2. PICK k : k = cache["dst"]
  OBVIOUS
<1>3. /\ "dst" \in Hosts /\ k \in Cache /\ k.sync \in Serials /\ k.size \in Int /\ k.available \in Int
      /\ Accounted(k) /\ Stamps(k.lru, serial)
  BY <1>1, <1>2, CacheFields DEF Hosts, Good
<1>4. data[c].sync \in Serials /\ data[c].freezer \in BOOLEAN
  BY <1>1 DEF Around
<1>5. PICK y : y = [d \in Channels |-> Max({k.sync[d], data[c].sync[d]})]
  OBVIOUS
<1>6. y \in Serials
  <2>1. \A d \in Channels : Max({k.sync[d], data[c].sync[d]}) \in Nat
    <3> TAKE d \in Channels
    <3>1. k.sync[d] \in Nat /\ data[c].sync[d] \in Nat
      BY <1>3, <1>4 DEF Serials
    <3>2. PICK a \in Nat, b \in Nat : a = k.sync[d] /\ b = data[c].sync[d]
      BY <3>1
    <3>3. a \in Int /\ b \in Int
      OBVIOUS
    <3>4. Max({a, b}) \in {a, b}
      BY <3>3, LargerOf
    <3> QED
      BY <3>2, <3>4
  <2> QED
    BY <1>5, <2>1 DEF Serials
<1>7. PICK z : z = IF data[c].freezer THEN Size ELSE k.size
  OBVIOUS
<1>8. z \in Int
  BY <1>3, <1>7, PixmapAssumption
<1>9. PICK r : r = [k EXCEPT !.sync = y, !.size = z]
  OBVIOUS
<1>10. r \in Cache /\ r.lru = k.lru /\ r.available = k.available /\ r.size = z
  BY <1>3, <1>6, <1>8, <1>9 DEF Cache
<1>11. cache' = [cache EXCEPT !["dst"] = r]
  BY <1>1, <1>2, <1>3, <1>5, <1>7, <1>9 DEF HandleMigrateData, Cache
<1>12. data[c].freezer => k.available < 0
  <2> HAVE data[c].freezer
  <2>1. \A d \in Channels : data[d].freezer => host[d] # "dst"
    <3> TAKE d \in Channels
    <3> HAVE data[d].freezer
    <3>1. d = c
      BY DEF FreezeInv
    <3> QED
      BY <3>1 DEF HandleMigrateData
  <2> QED
    BY <1>2, <2>1 DEF FreezeInv
<1>13. Accounted(r)
  BY <1>3, <1>4, <1>7, <1>10, <1>12 DEF Accounted
<1>14. Good(r, serial)
  BY <1>3, <1>10, <1>13 DEF Good
<1>15. host' = [host EXCEPT ![c] = "dst"] /\ host[c] = "arrived"
  BY DEF HandleMigrateData
<1>16. /\ host' \in [Channels -> {"src", "moving", "arrived", "dst"}] /\ host'[c] = "dst"
       /\ \A e \in Channels \ {c} : host'[e] = host[e]
  BY <1>1, <1>15 DEF Around
<1>17. \A e \in Channels : OnWire(wire[e], host'[e])
  <2> TAKE e \in Channels
  <2>1. CASE e = c
    BY <1>1, <1>15, <1>16, <2>1 DEF Around, OnWire
  <2>2. CASE e # c
    BY <1>1, <1>16, <2>2 DEF Around
  <2> QED
    BY <2>1, <2>2
<1>18. pipe' \in [Channels -> SUBSET {"sync", "reset"}]
  BY <1>1 DEF HandleMigrateData, Around
<1>19. Around'
  BY <1>1, <1>16, <1>17, <1>18 DEF Around, HandleMigrateData
<1>20. GoodDraft(draft[c], c, serial, host'[c])
  BY <1>1, <1>16 DEF GoodDraft, Hosts
<1> QED
  BY <1>1, <1>3, <1>11, <1>14, <1>16, <1>19, <1>20, CacheStep DEF HandleMigrateData

-----------------------------------------------------------------------------
(* The client's steps. *)

\* The first operation of a wire.  It is MIGRATE_DATA only if nothing else is left.
LEMMA FirstMessage ==
  ASSUME NEW w, NEW h, OnWire(w, h), w # <<>>
  PROVE  /\ Head(w).serial \in Nat /\ w \in Seq(Message)
         /\ \/ Head(w).ops \in Seq(PlainOp) /\ \A q \in Seq(PlainOp) :
                 OnWire(Tail(w), h) /\ OnWire(<<[Head(w) EXCEPT !.ops = q]>> \o Tail(w), h)
            \/ Head(w).ops = <<[op |-> "migrate"]>> /\ h = "moving" /\ Tail(w) = <<>>
<1>1. ASSUME NEW p \in Plain
      PROVE  p.serial \in Nat /\ p.ops \in Seq(PlainOp) /\ \A q \in Seq(PlainOp) : [p EXCEPT !.ops = q] \in Plain
  BY DEF Plain
<1>2. Plain \subseteq Message
  <2>1. PlainOp \subseteq Op
    BY DEF PlainOp, Op
  <2>2. Seq(PlainOp) \subseteq Seq(Op)
    BY <2>1
  <2> QED
    BY <2>2 DEF Plain, Message
<1>3. CASE h # "moving"
  <2>1. w \in Seq(Plain)
    BY <1>3 DEF OnWire
  <2>2. Head(w) \in Plain /\ Tail(w) \in Seq(Plain)
    BY <2>1
  <2>3. w \in Seq(Message)
    BY <1>2, <2>1
  <2>4. ASSUME NEW q \in Seq(PlainOp)
        PROVE  OnWire(Tail(w), h) /\ OnWire(<<[Head(w) EXCEPT !.ops = q]>> \o Tail(w), h)
    <3>1. PICK m \in Plain : m = [Head(w) EXCEPT !.ops = q]
      BY <1>1, <2>2
    <3>2. <<m>> \o Tail(w) \in Seq(Plain)
      BY <2>2
    <3> QED
      BY <1>3, <2>2, <3>1, <3>2 DEF OnWire
  <2> QED
    BY <1>1, <2>2, <2>3, <2>4
<1>4. CASE h = "moving"
  <2>1. PICK q \in Seq(Plain), n \in Nat : w = Append(q, LastOne(n))
    BY <1>4 DEF OnWire
  <2>2. LastOne(n) \in Message
    <3>1. [op |-> "migrate"] \in Op
      BY DEF Op
    <3>2. <<[op |-> "migrate"]>> \in Seq(Op)
      BY <3>1
    <3> QED
      BY <3>2 DEF LastOne, Message
  <2>3. w \in Seq(Message)
    <3>1. q \in Seq(Message)
      BY <1>2
    <3> QED
      BY <2>1, <2>2, <3>1
  <2>4. CASE q = <<>>
    <3>1. w = <<LastOne(n)>>
      BY <2>1, <2>4
    <3>2. Head(w) = LastOne(n) /\ Tail(w) = <<>>
      BY <3>1
    <3> QED
      BY <1>4, <2>3, <3>2 DEF LastOne
  <2>5. CASE q # <<>>
    <3>1. Head(q) \in Plain /\ Tail(q) \in Seq(Plain)
      BY <2>5
    <3>2. PICK m : m = LastOne(n)
      OBVIOUS
    <3>3. Head(w) = Head(q) /\ Tail(w) = Append(Tail(q), m)
      BY <2>1, <2>5, <3>2
    <3>4. ASSUME NEW o \in Seq(PlainOp)
          PROVE  OnWire(Tail(w), h) /\ OnWire(<<[Head(w) EXCEPT !.ops = o]>> \o Tail(w), h)
      <4>1. PICK p \in Plain : p = [Head(w) EXCEPT !.ops = o]
        BY <1>1, <3>1, <3>3
      <4>2. <<p>> \o Tail(q) \in Seq(Plain)
        BY <3>1
      <4>3. <<p>> \o Append(Tail(q), m) = Append(<<p>> \o Tail(q), m)
        BY <3>1
      <4> QED
        BY <1>4, <3>1, <3>2, <3>3, <4>1, <4>2, <4>3 DEF OnWire
    <3> QED
      BY <1>1, <2>3, <3>1, <3>3, <3>4
  <2> QED
    BY <2>4, <2>5
<1> QED
  BY <1>3, <1>4

\* An operation that is done, and is not MIGRATE_DATA.
LEMMA OpDoneTypes ==
  ASSUME CacheInv, NEW c \in Channels, wire[c] # <<>>, OpDone(c),
         Head(wire[c]).ops # <<>> => NextOp(c).op # "migrate"
  PROVE  /\ last' \in Serials /\ wire' = [x \in Channels |-> wire'[x]]
         /\ \A e \in Channels : OnWire(wire'[e], host[e])
         /\ Head(wire[c]).ops \in Seq(PlainOp)
<1>1. /\ wire = [x \in Channels |-> wire[x]] /\ \A e \in Channels : OnWire(wire[e], host[e])
      /\ last \in Serials
  BY InvFacts DEF Around
<1>2. PICK m : m = Head(wire[c])
  OBVIOUS
<1>3. /\ m.serial \in Nat /\ m.ops \in Seq(PlainOp)
      /\ \A q \in Seq(PlainOp) : OnWire(Tail(wire[c]), host[c])
                                  /\ OnWire(<<[m EXCEPT !.ops = q]>> \o Tail(wire[c]), host[c])
  <2>1. OnWire(wire[c], host[c])
    BY <1>1
  <2>2. \/ /\ m.serial \in Nat /\ m.ops \in Seq(PlainOp)
           /\ \A q \in Seq(PlainOp) : OnWire(Tail(wire[c]), host[c])
                                  /\ OnWire(<<[m EXCEPT !.ops = q]>> \o Tail(wire[c]), host[c])
        \/ m.ops = <<[op |-> "migrate"]>>
    BY <1>2, <2>1, FirstMessage
  <2>3. m.ops # <<[op |-> "migrate"]>>
    <3> SUFFICES ASSUME m.ops = <<[op |-> "migrate"]>> PROVE FALSE
      OBVIOUS
    <3>1. NextOp(c).op = "migrate" /\ Head(wire[c]).ops # <<>>
      BY <1>2 DEF NextOp
    <3> QED
      BY <3>1
  <2> QED
    BY <2>2, <2>3
<1>4. PICK w : OnWire(w, host[c]) /\ wire' = [wire EXCEPT ![c] = w]
  <2>1. CASE Len(m.ops) > 1
    <3>1. m.ops # <<>>
      BY <1>3, <2>1
    <3>2. Tail(m.ops) \in Seq(PlainOp)
      BY <1>3, <3>1
    <3>3. wire' = [wire EXCEPT ![c] = <<[m EXCEPT !.ops = Tail(m.ops)]>> \o Tail(wire[c])]
      BY <1>1, <1>2, <2>1 DEF OpDone
    <3> QED
      BY <1>3, <3>2, <3>3
  <2>2. CASE ~(Len(m.ops) > 1)
    <3>1. wire' = [wire EXCEPT ![c] = Tail(wire[c])]
      BY <1>1, <1>2, <2>2 DEF OpDone
    <3> QED
      BY <1>3, <3>1
  <2> QED
    BY <2>1, <2>2
<1>5. \A e \in Channels : OnWire(wire'[e], host[e])
  <2> TAKE e \in Channels
  <2>1. CASE e = c
    BY <1>1, <1>4, <2>1
  <2>2. CASE e # c
    BY <1>1, <1>4, <2>2
  <2> QED
    BY <2>1, <2>2
<1>6. last' \in Serials
  <2>1. last' = last \/ last' = [last EXCEPT ![c] = m.serial]
    BY <1>2 DEF OpDone
  <2> QED
    BY <1>1, <1>3, <2>1, SerialSet
<1> QED
  BY <1>1, <1>2, <1>3, <1>4, <1>5, <1>6

\* An operation on an image names one.
LEMMA ImageOfOp ==
  ASSUME NEW o \in PlainOp, o.op \in ImageOps
  PROVE  o.id \in Images
BY DEF PlainOp, ImageOps

\* What the handlers of the client have in common.
LEMMA HandledStep ==
  ASSUME CacheInv, NEW c \in Channels, wire[c] # <<>>, OpDone(c),
         Head(wire[c]).ops # <<>> => NextOp(c).op # "migrate",
         ServerUnchanged, UNCHANGED host, images' \in [Images -> [refs : Nat, lossy : BOOLEAN]]
  PROVE  CacheInv'
<1>1. /\ last' \in Serials /\ wire' = [x \in Channels |-> wire'[x]]
      /\ \A e \in Channels : OnWire(wire'[e], host[e])
  BY OpDoneTypes
<1>2. Around
  BY InvFacts
<1>3. Around'
  BY <1>1, <1>2 DEF Around, ServerUnchanged
<1> QED
  BY <1>3, ClientStep

\* The next operation is one of the given ones.
LEMMA TheOp ==
  ASSUME CacheInv, NEW c \in Channels, NEW S, S \subseteq ImageOps \cup {"wait", "clear"}, HasOp(c, S), OpDone(c)
  PROVE  /\ wire[c] # <<>> /\ (Head(wire[c]).ops # <<>> => NextOp(c).op # "migrate")
         /\ NextOp(c) \in PlainOp /\ NextOp(c).op \in S
<1>1. wire[c] # <<>> /\ Head(wire[c]).ops # <<>> /\ NextOp(c).op \in S
  BY DEF HasOp
<1>2. NextOp(c).op # "migrate"
  BY <1>1 DEF ImageOps
<1>3. Head(wire[c]).ops \in Seq(PlainOp)
  BY <1>1, <1>2, OpDoneTypes
<1>4. NextOp(c) \in PlainOp
  BY <1>1, <1>3 DEF NextOp
<1> QED
  BY <1>1, <1>2, <1>4

\* The handlers of the client, except for MIGRATE_DATA.
LEMMA HandlersStep ==
  ASSUME CacheInv, NEW c \in Channels,
         \/ HandleOther(c) \/ HandleWait(c) \/ HandlePut(c) \/ HandleGet(c)
         \/ HandleInval(c) \/ HandleInvalAll(c)
  PROVE  CacheInv'
<1>1. images \in [Images -> [refs : Nat, lossy : BOOLEAN]]
  BY InvFacts DEF Around
<1>2. CASE HandleOther(c)
  BY <1>1, <1>2, HandledStep DEF HandleOther
<1>3. CASE HandleWait(c)
  <2>1. HasOp(c, {"wait"}) /\ OpDone(c) /\ ServerUnchanged /\ UNCHANGED <<host, images>>
    BY <1>3 DEF HandleWait
  <2>2. wire[c] # <<>> /\ (Head(wire[c]).ops # <<>> => NextOp(c).op # "migrate")
    BY <2>1, TheOp
  <2> QED
    BY <1>1, <2>1, <2>2, HandledStep
<1>4. CASE HandlePut(c)
  <2>1. /\ HasOp(c, {"put", "put_lossy", "replace"}) /\ OpDone(c) /\ ServerUnchanged /\ UNCHANGED host
        /\ images' = [images EXCEPT ![NextOp(c).id] =
                         [refs |-> @.refs + 1, lossy |-> NextOp(c).op = "put_lossy"]]
    BY <1>4 DEF HandlePut
  <2>2. /\ wire[c] # <<>> /\ (Head(wire[c]).ops # <<>> => NextOp(c).op # "migrate")
        /\ NextOp(c) \in PlainOp /\ NextOp(c).op \in {"put", "put_lossy", "replace"}
    BY <2>1, TheOp DEF ImageOps
  <2>3. PICK i \in Images : i = NextOp(c).id
    BY <2>2, ImageOfOp DEF ImageOps
  <2>4. images[i].refs + 1 \in Nat
    BY <1>1
  <2>5. PICK n \in Nat, b \in BOOLEAN : n = images[i].refs + 1 /\ b = (NextOp(c).op = "put_lossy")
    BY <2>4
  <2>6. images' = [images EXCEPT ![i] = [refs |-> n, lossy |-> b]]
    BY <1>1, <2>1, <2>3, <2>5
  <2>7. images' \in [Images -> [refs : Nat, lossy : BOOLEAN]]
    BY <1>1, <2>6
  <2> QED
    BY <2>1, <2>2, <2>7, HandledStep
<1>5. CASE HandleGet(c)
  <2>1. HasOp(c, {"get", "get_lossless"}) /\ OpDone(c) /\ ServerUnchanged /\ UNCHANGED <<host, images>>
    BY <1>5 DEF HandleGet
  <2>2. wire[c] # <<>> /\ (Head(wire[c]).ops # <<>> => NextOp(c).op # "migrate")
    BY <2>1, TheOp DEF ImageOps
  <2> QED
    BY <1>1, <2>1, <2>2, HandledStep
<1>6. CASE HandleInval(c)
  <2>1. /\ HasOp(c, {"inval"}) /\ OpDone(c) /\ ServerUnchanged /\ UNCHANGED host
        /\ images' = [images EXCEPT ![NextOp(c).id].refs = Max({@ - 1, 0})]
    BY <1>6 DEF HandleInval
  <2>2. /\ wire[c] # <<>> /\ (Head(wire[c]).ops # <<>> => NextOp(c).op # "migrate")
        /\ NextOp(c) \in PlainOp /\ NextOp(c).op = "inval"
    BY <2>1, TheOp DEF ImageOps
  <2>3. PICK i \in Images : i = NextOp(c).id
    BY <2>2, ImageOfOp DEF ImageOps
  <2>4. PICK a \in Int : a = images[i].refs - 1
    BY <1>1
  <2>5. PICK m : m = Max({a, 0})
    OBVIOUS
  <2>6. m \in Nat
    <3>1. m \in {a, 0} /\ m >= 0
      BY <2>5, LargerOf
    <3> QED
      BY <3>1
  <2>7. images' = [images EXCEPT ![i].refs = m]
    BY <1>1, <2>1, <2>3, <2>4, <2>5
  <2>8. PICK r : r = [images[i] EXCEPT !.refs = m]
    OBVIOUS
  <2>9. r \in [refs : Nat, lossy : BOOLEAN] /\ images' = [images EXCEPT ![i] = r]
    BY <1>1, <2>6, <2>7, <2>8
  <2>10. images' \in [Images -> [refs : Nat, lossy : BOOLEAN]]
    BY <1>1, <2>9
  <2> QED
    BY <2>1, <2>2, <2>10, HandledStep
<1>7. CASE HandleInvalAll(c)
  <2>1. /\ HasOp(c, {"clear"}) /\ OpDone(c) /\ ServerUnchanged /\ UNCHANGED host
        /\ images' = [i \in Images |-> [images[i] EXCEPT !.refs = 0]]
    BY <1>7 DEF HandleInvalAll
  <2>2. wire[c] # <<>> /\ (Head(wire[c]).ops # <<>> => NextOp(c).op # "migrate")
    BY <2>1, TheOp
  <2>3. images' \in [Images -> [refs : Nat, lossy : BOOLEAN]]
    BY <1>1, <2>1
  <2> QED
    BY <2>1, <2>2, <2>3, HandledStep
<1> QED
  BY <1>2, <1>3, <1>4, <1>5, <1>6, <1>7

\* MIGRATE_DATA is passed on; it was the last message.
LEMMA ForwardMigrateDataStep == ASSUME CacheInv, NEW c \in Channels, ForwardMigrateData(c) PROVE CacheInv'
<1>1. /\ serial \in Serials /\ Around /\ draft = [draft EXCEPT ![c] = draft[c]]
      /\ GoodDraft(draft[c], c, serial, host[c]) /\ \A e \in Channels : serial[e] <= serial[e]
  BY InvFacts
<1>2. wire[c] # <<>> /\ Head(wire[c]).ops # <<>> /\ Head(Head(wire[c]).ops).op = "migrate" /\ OpDone(c)
  BY DEF ForwardMigrateData, HasOp, NextOp
<1>3. /\ Head(wire[c]).serial \in Nat
      /\ Head(wire[c]).ops = <<[op |-> "migrate"]>> /\ host[c] = "moving" /\ Tail(wire[c]) = <<>>
  <2>1. OnWire(wire[c], host[c])
    BY <1>1 DEF Around
  <2>2. \A o \in PlainOp : o.op # "migrate"
    BY DEF PlainOp, ImageOps
  <2>3. ~(Head(wire[c]).ops \in Seq(PlainOp))
    <3> SUFFICES ASSUME Head(wire[c]).ops \in Seq(PlainOp) PROVE FALSE
      OBVIOUS
    <3>1. Head(Head(wire[c]).ops) \in PlainOp
      BY <1>2
    <3> QED
      BY <1>2, <2>2, <3>1
  <2> QED
    BY <1>2, <2>1, <2>3, FirstMessage
<1>4. ~(Len(Head(wire[c]).ops) > 1)
  <2>1. PICK o : o = [op |-> "migrate"]
    OBVIOUS
  <2>2. PICK q : q = Head(wire[c]).ops
    OBVIOUS
  <2>3. q = <<o>>
    BY <1>3, <2>1, <2>2, Zenon
  <2>4. ~(Len(q) > 1)
    BY <2>3
  <2> QED
    BY <2>2, <2>4
<1>5. wire' = [wire EXCEPT ![c] = <<>>] /\ last' = [last EXCEPT ![c] = Head(wire[c]).serial]
  <2>1. wire' = [wire EXCEPT ![c] = Tail(wire[c])] /\ last' = [last EXCEPT ![c] = Head(wire[c]).serial]
    BY <1>2, <1>4 DEF OpDone
  <2> QED
    BY <1>3, <2>1
<1>6. host' = [host EXCEPT ![c] = "arrived"]
  BY DEF ForwardMigrateData
<1>7. /\ host' \in [Channels -> {"src", "moving", "arrived", "dst"}] /\ host'[c] = "arrived"
      /\ \A e \in Channels \ {c} : host'[e] = host[e]
  BY <1>1, <1>6 DEF Around
<1>8. wire' = [x \in Channels |-> wire'[x]] /\ \A e \in Channels : OnWire(wire'[e], host'[e])
  <2>1. wire = [x \in Channels |-> wire[x]]
    BY <1>1 DEF Around
  <2>2. OnWire(<<>>, "arrived")
    BY DEF OnWire
  <2>3. ASSUME NEW e \in Channels PROVE OnWire(wire'[e], host'[e])
    <3>1. CASE e = c
      BY <1>5, <1>7, <2>1, <2>2, <3>1
    <3>2. CASE e # c
      BY <1>1, <1>5, <1>7, <2>1, <3>2 DEF Around
    <3> QED
      BY <3>1, <3>2
  <2> QED
    BY <1>5, <2>1, <2>3
<1>9. last' \in Serials
  BY <1>1, <1>3, <1>5, SerialSet DEF Around
<1>10. ServerUnchanged /\ images' = images
  BY DEF ForwardMigrateData
<1>11. Around'
  BY <1>1, <1>7, <1>8, <1>9, <1>10 DEF Around, ServerUnchanged
<1>12. GoodDraft(draft[c], c, serial, host'[c])
  <2>1. ~draft[c].active
    BY <1>1, <1>3 DEF GoodDraft, Hosts
  <2> QED
    BY <1>1, <2>1 DEF GoodDraft
<1>13. /\ mode' = mode /\ cache' = cache /\ serial' = serial /\ draft' = draft
  BY <1>10 DEF ServerUnchanged
<1>14. /\ serial' \in Serials /\ GoodDraft(draft[c], c, serial', host'[c])
       /\ draft' = [draft EXCEPT ![c] = draft[c]] /\ \A e \in Channels : serial[e] <= serial'[e]
  BY <1>1, <1>12, <1>13
<1> QED
  BY <1>7, <1>11, <1>13, <1>14, DraftStep

-----------------------------------------------------------------------------
(* The cache that is frozen. *)

\* A hit and an add freeze or thaw nothing, and a cache without size stays one.
LEMMA KeepsFrozen ==
  ASSUME serial \in Serials, NEW k, Good(k, serial), NEW c \in Channels, NEW i \in Images
  PROVE  /\ Stamped(k, c, i).frozen = k.frozen /\ Stamped(k, c, i).available = k.available
         /\ SetLossless(k, i).frozen = k.frozen /\ SetLossless(k, i).available = k.available
         /\ \A b \in BOOLEAN : /\ Added(k, c, i, b).frozen = k.frozen
                               /\ k.available < 0 => Added(k, c, i, b).available < 0
<1>1. k \in Cache
  BY DEF Good
<1>2. /\ Stamped(k, c, i).frozen = k.frozen /\ Stamped(k, c, i).available = k.available
      /\ SetLossless(k, i).frozen = k.frozen /\ SetLossless(k, i).available = k.available
  BY <1>1 DEF Stamped, SetLossless, Cache
<1>3. PICK t : t = Shrunk(k, c, i)
  OBVIOUS
<1>4. Good(t, serial) /\ t.available = k.available + Pixels(Evicted(k, c, i))
  BY <1>3, ShrunkGood
<1>5. t.frozen = k.frozen
  BY <1>1, <1>3 DEF Shrunk, Cache
<1>6. ASSUME NEW b \in BOOLEAN PROVE Added(k, c, i, b).frozen = k.frozen
  <2>1. t \in Cache
    BY <1>4 DEF Good
  <2> QED
    BY <1>3, <1>5, <2>1 DEF Added, Cache
<1>7. ASSUME NEW b \in BOOLEAN, k.available < 0 PROVE Added(k, c, i, b).available < 0
  <2>1. k.lru = <<>> /\ k.available \in Int
    BY <1>1, <1>7, CacheFields DEF Good, Accounted
  <2>2. Evicted(k, c, i) = <<>>
    BY <2>1, EvictedParts
  <2>3. Pixels(<<>>) = 0 /\ PixelsOf(i) \in Nat
    BY PixelsParts DEF PixelsOf
  <2>4. t.available < 0
    BY <1>4, <1>7, <2>1, <2>2, <2>3
  <2>5. ~CanAdd(k, c, i)
    <3> SUFFICES ASSUME CanAdd(k, c, i) PROVE FALSE
      OBVIOUS
    <3>1. /\ k.available + Pixels(LastItems(k.lru, Evictions(k, c, i))) >= PixelsOf(i)
          /\ ~Outdated(k, c)
      BY DEF CanAdd, Fits
    <3>2. Pixels(LastItems(k.lru, Evictions(k, c, i))) = Pixels(<<>>)
      BY <2>2, <3>1, EvictedParts
    <3> QED
      BY <1>7, <2>1, <2>3, <3>1, <3>2
  <2> QED
    BY <1>3, <2>4, <2>5 DEF Added
<1> QED
  BY <1>2, <1>6, <1>7

\* Steps that move no channel and reset nothing.
LEMMA FreezeStays ==
  ASSUME CacheInv, FreezeInv, UNCHANGED <<host, data>>,
         \A c \in Channels : "reset" \in pipe'[c] => "reset" \in pipe[c],
         cache'["src"].frozen = cache["src"].frozen,
         cache["dst"].available < 0 => cache'["dst"].available < 0
  PROVE  FreezeInv'
BY DEF FreezeInv

\* Such a step of composing a message.
LEMMA FreezeCompose ==
  ASSUME CacheInv, FreezeInv, UNCHANGED <<host, data>>, NEW c \in Channels, Serving(c),
         \A e \in Channels : "reset" \in pipe'[e] => "reset" \in pipe[e],
         NEW k, cache' = [cache EXCEPT ![host[c]] = k],
         k.frozen = CacheOf(c).frozen, CacheOf(c).available < 0 => k.available < 0
  PROVE  FreezeInv'
<1>1. cache \in [Hosts -> Cache] /\ host[c] \in Hosts
  BY InvFacts DEF Serving
<1>2. cache'["src"].frozen = cache["src"].frozen
  BY <1>1 DEF CacheOf, Hosts
<1>3. cache["dst"].available < 0 => cache'["dst"].available < 0
  BY <1>1 DEF CacheOf, Hosts
<1> QED
  BY <1>2, <1>3, FreezeStays

\* Every step of a channel.
LEMMA FreezeStep ==
  ASSUME CacheInv, FreezeInv, NEW c \in Channels, Worker(c) \/ Client(c)
  PROVE  FreezeInv'
<1>0. /\ serial \in Serials /\ Around /\ cache \in [Hosts -> Cache]
      /\ draft[c].active => Serving(c) /\ Good(CacheOf(c), serial) /\ CacheOf(c) = cache[host[c]]
      /\ draft[c] \in Draft /\ GoodDraft(draft[c], c, serial, host[c])
  BY InvFacts, ComposingFacts
<1>1. CASE \/ StartDrawable(c) \/ SendDrawable(c) \/ SwitchToUrgent(c) \/ SendUrgent(c)
           \/ HandleOther(c) \/ HandleWait(c) \/ HandlePut(c) \/ HandleGet(c)
           \/ HandleInval(c) \/ HandleInvalAll(c)
  <2>1. UNCHANGED <<cache, host, data, pipe>>
    BY <1>1 DEF StartDrawable, SendDrawable, SwitchToUrgent, SendUrgent, HandleOther, HandleWait,
                HandlePut, HandleGet, HandleInval, HandleInvalAll, ServerUnchanged
  <2> QED
    BY <2>1, FreezeStays
<1>2. ASSUME NEW i \in Images, IsBitmapLossy(c, i) PROVE FreezeInv'
  <2>1. draft[c].active /\ UNCHANGED <<host, data, pipe>>
    BY <1>2 DEF IsBitmapLossy, Composing
  <2>2. PICK k : k = Stamped(CacheOf(c), c, i)
    OBVIOUS
  <2>3. cache' = [cache EXCEPT ![host[c]] = k]
    BY <1>0, <1>2, <2>1, <2>2 DEF IsBitmapLossy
  <2>4. k.frozen = CacheOf(c).frozen /\ k.available = CacheOf(c).available
    BY <1>0, <2>1, <2>2, KeepsFrozen
  <2> QED
    BY <1>0, <2>1, <2>3, <2>4, FreezeCompose
<1>3. ASSUME NEW i \in Images, NEW b \in BOOLEAN, FillFromCache(c, i, b) PROVE FreezeInv'
  <2>1. draft[c].active /\ UNCHANGED <<host, data, pipe>> /\ Cached(CacheOf(c), i)
    BY <1>3 DEF FillFromCache, Composing
  <2>2. PICK t : t = Stamped(CacheOf(c), c, i)
    OBVIOUS
  <2>3. PICK k : (k = t \/ k = SetLossless(t, i)) /\ cache' = [cache EXCEPT ![host[c]] = k]
    BY <1>3, <2>2 DEF FillFromCache
  <2>4. t.frozen = CacheOf(c).frozen /\ t.available = CacheOf(c).available /\ Good(t, serial)
    BY <1>0, <2>1, <2>2, KeepsFrozen, StampedGood
  <2>5. SetLossless(t, i).frozen = t.frozen /\ SetLossless(t, i).available = t.available
    BY <1>0, <2>4, KeepsFrozen
  <2> QED
    BY <1>0, <2>1, <2>3, <2>4, <2>5, FreezeCompose
<1>4. ASSUME NEW i \in Images, NEW b \in BOOLEAN, FillAndAdd(c, i, b) PROVE FreezeInv'
  <2>1. draft[c].active /\ UNCHANGED <<host, data>>
    BY <1>4 DEF FillAndAdd, Composing
  <2>2. PICK k : k = Added(CacheOf(c), c, i, b)
    OBVIOUS
  <2>3. cache' = [cache EXCEPT ![host[c]] = k]
    BY <1>4, <2>2 DEF FillAndAdd
  <2>4. k.frozen = CacheOf(c).frozen /\ (CacheOf(c).available < 0 => k.available < 0)
    BY <1>0, <2>1, <2>2, KeepsFrozen
  <2>5. \A e \in Channels : "reset" \in pipe'[e] => "reset" \in pipe[e]
    BY <1>0, <1>4 DEF FillAndAdd, Around
  <2> QED
    BY <1>0, <2>1, <2>3, <2>4, <2>5, FreezeCompose
<1>5. CASE UpdateSerial(c)
  <2>1. draft[c].active /\ UNCHANGED <<host, data, pipe>> /\ Serving(c) /\ host[c] \in Hosts
    BY <1>0, <1>5 DEF UpdateSerial, GoodDraft, Serving
  <2>2. PICK i : i = Head(draft[c].items)
    OBVIOUS
  <2>3. i \in Images
    BY <1>0, <1>5, <2>2 DEF Draft, UpdateSerial
  <2>4. PICK k : k = IF Cached(CacheOf(c), i) THEN Stamped(CacheOf(c), c, i) ELSE CacheOf(c)
    OBVIOUS
  <2>5. cache' = [cache EXCEPT ![host[c]] = k]
    BY <1>0, <1>5, <2>1, <2>2, <2>4 DEF UpdateSerial
  <2>6. k.frozen = CacheOf(c).frozen /\ k.available = CacheOf(c).available
    BY <1>0, <2>1, <2>3, <2>4, KeepsFrozen
  <2> QED
    BY <2>1, <2>5, <2>6, FreezeCompose
<1>6. CASE PixmapSync(c)
  <2>1. UNCHANGED <<cache, host, data>> /\ \A e \in Channels : "reset" \in pipe'[e] => "reset" \in pipe[e]
    BY <1>0, <1>6 DEF PixmapSync, Around
  <2> QED
    BY <2>1, FreezeStays
<1>7. CASE PixmapReset(c)
  <2>1. data[c].freezer /\ host[c] = "dst"
    BY <1>7 DEF FreezeInv, PixmapReset
  <2>2. UNCHANGED <<host, data>> /\ \A e \in Channels : "reset" \in pipe'[e] => "reset" \in pipe[e]
    BY <1>0, <1>7 DEF PixmapReset, Around
  <2>3. cache'["src"] = cache["src"]
    BY <1>0, <1>7, <2>1 DEF PixmapReset, Hosts
  <2> QED
    BY <2>1, <2>2, <2>3 DEF FreezeInv
<1>8. CASE MigrateData(c)
  <2>1. /\ host[c] = "src" /\ host' = [host EXCEPT ![c] = "moving"] /\ pipe' = pipe
        /\ data' = [data EXCEPT ![c] = [freezer |-> ~cache["src"].frozen, sync |-> cache["src"].sync]]
        /\ cache' = [cache EXCEPT !["src"] = Freeze(@)]
    BY <1>8 DEF MigrateData
  <2>2. /\ DOMAIN host = Channels /\ DOMAIN data = Channels
        /\ "src" \in Hosts /\ "dst" \in Hosts /\ cache["src"] \in Cache
    BY <1>0 DEF Around, Hosts
  <2>3. cache'["src"].frozen /\ cache'["dst"] = cache["dst"]
    BY <1>0, <2>1, <2>2 DEF Freeze, Cache
  <2>4. /\ host'[c] = "moving" /\ data'[c].freezer = ~cache["src"].frozen
        /\ \A e \in Channels \ {c} : host'[e] = host[e] /\ data'[e] = data[e]
    BY <2>1, <2>2
  <2>5. ~data[c].freezer
    BY <2>1 DEF FreezeInv
  <2>6. \A e \in Channels : data'[e].freezer => cache'["src"].frozen /\ host'[e] # "src"
    BY <2>3, <2>4 DEF FreezeInv
  <2>7. \A e, d \in Channels : data'[e].freezer /\ data'[d].freezer => e = d
    BY <2>4 DEF FreezeInv
  <2>8. \A e \in Channels : "reset" \in pipe'[e] => data'[e].freezer /\ host'[e] = "dst"
    BY <2>1, <2>4, <2>5 DEF FreezeInv
  <2>9. (\A e \in Channels : data'[e].freezer => host'[e] # "dst") => cache'["dst"].available < 0
    BY <2>1, <2>3, <2>4, <2>5 DEF FreezeInv
  <2> QED
    BY <2>6, <2>7, <2>8, <2>9 DEF FreezeInv
<1>9. CASE HandleMigrateData(c)
  <2>1. /\ host[c] = "arrived" /\ host' = [host EXCEPT ![c] = "dst"] /\ data' = data
        /\ pipe' = [pipe EXCEPT ![c] = IF data[c].freezer THEN @ \cup {"reset"} ELSE @]
    BY <1>9 DEF HandleMigrateData
  <2>2. cache'["src"] = cache["src"] /\ cache'["dst"].available = cache["dst"].available
    <3>1. "src" \in Hosts /\ "dst" \in Hosts /\ cache["dst"] \in Cache
      BY <1>0 DEF Hosts
    <3> QED
      BY <1>0, <1>9, <3>1 DEF HandleMigrateData, Cache
  <2>3. DOMAIN host = Channels /\ DOMAIN pipe = Channels
    BY <1>0 DEF Around
  <2>4. /\ host'[c] = "dst" /\ \A e \in Channels \ {c} : host'[e] = host[e] /\ pipe'[e] = pipe[e]
        /\ "reset" \in pipe'[c] => "reset" \in pipe[c] \/ data[c].freezer
    BY <2>1, <2>3
  <2>5. \A e \in Channels : data'[e].freezer => cache'["src"].frozen /\ host'[e] # "src"
    BY <2>1, <2>2, <2>4 DEF FreezeInv
  <2>6. \A e \in Channels : "reset" \in pipe'[e] => data'[e].freezer /\ host'[e] = "dst"
    BY <2>1, <2>4 DEF FreezeInv
  <2>7. (\A e \in Channels : data'[e].freezer => host'[e] # "dst") => cache'["dst"].available < 0
    BY <2>1, <2>2, <2>4 DEF FreezeInv
  <2> QED
    BY <2>1, <2>5, <2>6, <2>7 DEF FreezeInv
<1>10. CASE ForwardMigrateData(c)
  <2>1. /\ host' = [host EXCEPT ![c] = "arrived"] /\ data' = data /\ pipe' = pipe /\ cache' = cache
    BY <1>10 DEF ForwardMigrateData, ServerUnchanged
  <2>2. host[c] = "moving"
    <3>1. OnWire(wire[c], host[c]) /\ wire[c] # <<>> /\ Head(wire[c]).ops # <<>>
          /\ Head(Head(wire[c]).ops).op = "migrate"
      BY <1>0, <1>10 DEF Around, ForwardMigrateData, HasOp, NextOp
    <3>2. \A o \in PlainOp : o.op # "migrate"
      BY DEF PlainOp, ImageOps
    <3>3. Head(wire[c]).ops \in Seq(PlainOp) => Head(Head(wire[c]).ops) \in PlainOp
      BY <3>1
    <3>4. Head(wire[c]).ops \in Seq(PlainOp) \/ host[c] = "moving"
      BY <3>1, FirstMessage
    <3> QED
      BY <3>1, <3>2, <3>3, <3>4
  <2>3. DOMAIN host = Channels
    BY <1>0 DEF Around
  <2>4. host'[c] = "arrived" /\ \A e \in Channels \ {c} : host'[e] = host[e]
    BY <2>1, <2>3
  <2> QED
    BY <2>1, <2>2, <2>4 DEF FreezeInv
<1> QED
  BY <1>1, <1>2, <1>3, <1>4, <1>5, <1>6, <1>7, <1>8, <1>9, <1>10 DEF Worker, Client

-----------------------------------------------------------------------------
(* The theorems. *)

\* The initial states.
LEMMA InitCache == Init => CacheInv /\ FreezeInv
<1> SUFFICES ASSUME Init PROVE CacheInv /\ FreezeInv
  OBVIOUS
<1>1. NoSerials \in Serials
  BY SerialSet
<1>2. mode \in Modes /\ serial \in Serials /\ serial = NoSerials
  BY <1>1 DEF Init
<1>3. Around
  <2>1. \A c \in Channels : OnWire(wire[c], host[c])
    BY DEF Init, OnWire
  <2>2. used \in [Channels -> 0 .. MaxItems]
    BY PixmapAssumption DEF Init
  <2>3. data \in [Channels -> [freezer : BOOLEAN, sync : Serials]]
    BY <1>1 DEF Init
  <2> QED
    BY <1>1, <2>1, <2>2, <2>3 DEF Init, Around
<1>4. ASSUME NEW n \in Int PROVE NewCache(n) \in Cache /\ Good(NewCache(n), serial)
  <2>1. NewCache(n) \in Cache
    BY <1>1 DEF NewCache, Cache
  <2>2. NewCache(n).lru = <<>> /\ NewCache(n).available = NewCache(n).size
    BY DEF NewCache
  <2> QED
    BY <2>1, <2>2, EmptyGood
<1>5. Size \in Int /\ -1 \in Int
  BY PixmapAssumption
<1>6. cache = [h \in Hosts |-> NewCache(IF h = "src" THEN Size ELSE -1)]
  BY DEF Init
<1>7. \A h \in Hosts : cache[h] \in Cache /\ Good(cache[h], serial)
  BY <1>4, <1>5, <1>6
<1>8. cache \in [Hosts -> Cache]
  BY <1>6, <1>7
<1>9. \A c \in Channels : GoodDraft(draft[c], c, serial, host[c]) /\ draft[c] \in Draft
  BY <1>2, NoneGood DEF Init, GoodDraft
<1>10. draft \in [Channels -> Draft]
  BY <1>9 DEF Init
<1>11. cache["dst"].available < 0
  <2>1. cache["dst"] = NewCache(-1)
    BY <1>6 DEF Hosts
  <2>2. NewCache(-1).available = -1
    BY DEF NewCache
  <2> QED
    BY <2>1, <2>2
<1>12. FreezeInv
  BY <1>11 DEF FreezeInv, Init
<1> QED
  BY <1>2, <1>3, <1>7, <1>8, <1>9, <1>10, <1>12 DEF CacheInv

\* The inductive step.
LEMMA NextCache ==
  ASSUME CacheInv, FreezeInv, [Next]_vars
  PROVE  CacheInv' /\ FreezeInv'
<1>1. ASSUME NEW c \in Channels, Worker(c) \/ Client(c) PROVE CacheInv' /\ FreezeInv'
  <2>1. CacheInv'
    BY <1>1, StartDrawableStep, IsBitmapLossyStep, FillFromCacheStep, FillAndAddStep, SendDrawableStep,
       SwitchToUrgentStep, UpdateSerialStep, SendUrgentStep, PixmapSyncStep, PixmapResetStep,
       MigrateDataStep, HandleMigrateDataStep, HandlersStep, ForwardMigrateDataStep
    DEF Worker, Client
  <2> QED
    BY <1>1, <2>1, FreezeStep
<1>2. CASE UNCHANGED vars
  <2>1. Around'
    BY <1>2 DEF vars, CacheInv, Around, OnWire
  <2>2. \A h \in Hosts : Good(cache[h], serial)'
    BY <1>2 DEF vars, CacheInv, Good, Stamps, Accounted, Pixels
  <2>3. \A c \in Channels : GoodDraft(draft[c], c, serial, host[c])'
    BY <1>2 DEF vars, CacheInv, GoodDraft, Draft
  <2>4. (mode \in Modes)' /\ (serial \in Serials)' /\ (cache \in [Hosts -> Cache])'
    BY <1>2 DEF vars, CacheInv
  <2>5. (draft \in [Channels -> Draft])'
    BY <1>2 DEF vars, CacheInv, Draft
  <2>6. FreezeInv'
    BY <1>2 DEF vars, FreezeInv
  <2> QED
    BY <2>1, <2>2, <2>3, <2>4, <2>5, <2>6 DEF CacheInv
<1> QED
  BY <1>1, <1>2 DEF Next

\* CacheInv and FreezeInv hold in every state: they are inductive together.
THEOREM CacheInvariant == Spec => [](CacheInv /\ FreezeInv)
<1>1. CacheInv /\ FreezeInv /\ [Next]_vars => (CacheInv /\ FreezeInv)'
  BY NextCache
<1> QED
  BY <1>1, InitCache, PTL DEF Spec

\* The shared cache, what the workers marshal, the messages on the wire and the client's cache keep
\* their types: the loop of pixmap_cache_unlocked_add finds what it evicts, the serials of
\* WAIT_FOR_CHANNELS are numbers, and the urgent INVAL_LIST has one too.
THEOREM CacheTyped == Spec => []TypeOK
<1>1. CacheInv => TypeOK
  <2> SUFFICES ASSUME CacheInv PROVE TypeOK
    OBVIOUS
  <2>1. /\ mode \in Modes /\ serial \in Serials /\ Around /\ cache \in [Hosts -> Cache]
        /\ draft \in [Channels -> Draft]
    BY DEF CacheInv
  <2>2. wire \in [Channels -> Seq(Message)]
    <3>1. wire = [x \in Channels |-> wire[x]] /\ \A c \in Channels : OnWire(wire[c], host[c])
      BY <2>1 DEF Around
    <3>2. \A c \in Channels : wire[c] \in Seq(Message)
      <4> TAKE c \in Channels
      <4>1. <<>> \in Seq(Message)
        OBVIOUS
      <4>2. OnWire(wire[c], host[c]) /\ wire[c] # <<>> => wire[c] \in Seq(Message)
        BY FirstMessage
      <4> QED
        BY <3>1, <4>1, <4>2
    <3> QED
      BY <3>1, <3>2
  <2>3. PlainOp \subseteq Op
    BY DEF PlainOp, Op
  <2>4. Seq(PlainOp) \subseteq Seq(Op)
    BY <2>3
  <2>5. Draft \subseteq [ops : Seq(Op), freed : Seq(Images), sync : Serials, items : Seq(Images),
                         calls : 0 .. mode.calls, active : BOOLEAN, urgent : BOOLEAN]
    BY <2>4 DEF Draft
  <2> QED
    BY <2>1, <2>2, <2>5 DEF TypeOK, Around
<1> QED
  BY <1>1, CacheInvariant, PTL

\* The sizes of the cached images and the room left always make up the size, through hits, evictions
\* that make room, evictions that do not make enough, freezing, migration and reset; the size that
\* the target learns from the migration data changes no account, since nothing is cached there yet.
THEOREM SizeAlwaysAccounted == Spec => []SizeAccounted
<1>1. CacheInv => SizeAccounted
  BY DEF CacheInv, Good, Accounted, SizeAccounted
<1> QED
  BY <1>1, CacheInvariant, PTL
=============================================================================
