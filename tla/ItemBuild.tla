------------------------------ MODULE ItemBuild ------------------------------
(***************************************************************************)
(* The items of a player: phase 5 turns the shop events of a timeline into *)
(* purchases with a removal type, phase 5.5 turns the purchases into       *)
(* starters, boots and completed items.                                    *)
(*                                                                         *)
(* Code: extractTimeline of internal/crawler/phase5, classify of           *)
(* internal/crawler/phase55, internal/riotapi/cdragon.go, GetItemSets of   *)
(* internal/storage/items.go.  When the rows are stored is in              *)
(* MatchPipeline.                                                          *)
(*                                                                         *)
(* The game itself (external) is modelled by what a player holds and what  *)
(* the shop can still undo.  Gold is counted in units of 50, time in       *)
(* ticks of 45 seconds.                                                    *)
(***************************************************************************)
EXTENDS Naturals, Sequences, SequencesExt, FiniteSets

CONSTANTS
  Buyer,      \* participants of the match
  Catalog,    \* item -> its entry in the item list of the patch
  MaxShop,    \* shop events of the match (bound)
  MaxClock    \* last tick (bound)

Item == DOMAIN Catalog

ASSUME CatalogAssumption ==
  /\ \A i \in Item : Catalog[i].priceTotal \in Nat /\ Catalog[i].to \subseteq Item
  /\ \A i, j \in Item : i \in Catalog[j].from => j \in Catalog[i].to

StarterCutoff == 2      \* 90000 ms
StarterGoldLimit == 10  \* 500 gold, which is what a player starts with
MaxItems == 6

VARIABLES
  clock,
  held,      \* buyer -> purchases the player has (game)
  shop,      \* buyer -> operations the shop can undo, last one at the end (game)
  gold,      \* buyer -> gold left of the start (game)
  shopEvents,
  purchases, \* itemEvents: [buyer, item, time, removal]
  pending,   \* buyer -> purchases that are neither undone nor sold
  readEvents, \* rows classify went through, 0 when the game is still on
  starters, boots, builds,
  resold     \* items whose sale was undone (history)

itemVars == <<clock, held, shop, gold, shopEvents, purchases, pending, readEvents,
              starters, boots, builds, resold>>

-----------------------------------------------------------------------------
(* The catalog *)

IsCompletedItem(i) ==
  /\ Catalog[i].inStore /\ Catalog[i].to = {} /\ Catalog[i].from # {}
  /\ Catalog[i].priceTotal >= 20 /\ ~Catalog[i].skippable

IsBoots(i) == Catalog[i].boots

\* The rows of item_catalog for the patch: what the item list says of an item is
\* judged once, when the first match of the patch is classified.
ItemCatalog ==
  [i \in Item |-> [priceTotal |-> Catalog[i].priceTotal, isCompleted |-> IsCompletedItem(i),
                   isBoots |-> IsBoots(i), yellowTrinket |-> Catalog[i].yellowTrinket]]

ItemSets ==
  LET Having(F(_)) == {i \in Item : F(ItemCatalog[i])}
  IN  [completed |-> Having(LAMBDA row : row.isCompleted),
       boots |-> Having(LAMBDA row : row.isBoots),
       starterEligible |-> Having(LAMBDA row : row.priceTotal <= StarterGoldLimit
                                               /\ ~row.yellowTrinket)]

-----------------------------------------------------------------------------
ItemInit ==
  /\ clock = 0
  /\ held = [q \in Buyer |-> {}]
  /\ shop = [q \in Buyer |-> <<>>]
  /\ gold = [q \in Buyer |-> StarterGoldLimit]
  /\ shopEvents = 0
  /\ purchases = <<>>
  /\ pending = [q \in Buyer |-> <<>>]
  /\ readEvents = {0}
  /\ starters = [q \in Buyer |-> <<>>]
  /\ boots = [q \in Buyer |-> 0]
  /\ builds = [q \in Buyer |-> <<>>]
  /\ resold = {}

Playing == readEvents = {0}

-----------------------------------------------------------------------------
(* extractTimeline *)

OldestOf(q, i) ==                                                    \* mutant
  LET at == {n \in DOMAIN pending[q] : purchases[pending[q][n]].item = i}
  IN  IF at = {} THEN 0 ELSE CHOOSE n \in at : \A m \in at : n <= m

\* Where the search from the back of pending ends, 0 when it finds nothing.
LatestOf(q, i) ==
  LET at == {n \in DOMAIN pending[q] : purchases[pending[q][n]].item = i}
  IN  IF at = {} THEN 0 ELSE CHOOSE n \in at : \A m \in at : m <= n

Mark(q, i, removal) ==
  LET n == LatestOf(q, i)
  IN  IF n = 0 THEN UNCHANGED <<purchases, pending>>
      ELSE /\ purchases' = [purchases EXCEPT ![pending[q][n]].removal = removal]
           /\ pending' = [pending EXCEPT ![q] = RemoveAt(@, n)]

ShopEvent ==
  /\ Playing /\ shopEvents < MaxShop
  /\ shopEvents' = shopEvents + 1
  /\ UNCHANGED <<clock, readEvents, starters, boots, builds>>

\* The components a player has go into the item (ITEM_DESTROYED, which the code
\* ignores).
Components(q, i) ==
  {used \in SUBSET held[q] :
     /\ \A k \in used : purchases[k].item \in Catalog[i].from
     /\ \A k, l \in used : purchases[k].item = purchases[l].item => k = l}

ItemPurchased(q, i, used) ==
  LET idx == Len(purchases) + 1
  IN  /\ ShopEvent
      /\ clock < StarterCutoff => Catalog[i].priceTotal <= gold[q]
      /\ gold' = IF clock < StarterCutoff THEN [gold EXCEPT ![q] = @ - Catalog[i].priceTotal] ELSE gold
      /\ held' = [held EXCEPT ![q] = (@ \ used) \cup {idx}]
      /\ shop' = [shop EXCEPT ![q] = Append(@, [op |-> "buy", idx |-> idx, time |-> clock, used |-> used])]
      /\ purchases' = Append(purchases, [buyer |-> q, item |-> i, time |-> clock, removal |-> ""])
      /\ pending' = [pending EXCEPT ![q] = Append(@, idx)]
      /\ UNCHANGED resold

\* A deliberate sale; what the player gets for it is left out.
ItemSold(q, idx) ==
  /\ ShopEvent
  /\ idx \in held[q]
  /\ held' = [held EXCEPT ![q] = @ \ {idx}]
  /\ shop' = [shop EXCEPT ![q] = Append(@, [op |-> "sell", idx |-> idx, time |-> clock, used |-> {}])]
  /\ Mark(q, purchases[idx].item, "sold")
  /\ UNCHANGED <<gold, resold>>

\* ITEM_UNDO of a purchase names the item in beforeId.
UndoPurchase(q) ==
  /\ ShopEvent
  /\ shop[q] # <<>> /\ Last(shop[q]).op = "buy"
  /\ LET idx == Last(shop[q]).idx
         item == purchases[idx].item
     IN  /\ held' = [held EXCEPT ![q] = (@ \ {idx}) \cup Last(shop[q]).used]
         /\ gold' = IF Last(shop[q]).time < StarterCutoff
                      THEN [gold EXCEPT ![q] = @ + Catalog[item].priceTotal] ELSE gold
         /\ Mark(q, item, "undo")
  /\ shop' = [shop EXCEPT ![q] = Front(@)]
  /\ UNCHANGED resold

\* ITEM_UNDO of a sale has the item in afterId, which the code does not decode,
\* and beforeId 0: nothing is found.
UndoSale(q) ==
  /\ ShopEvent
  /\ shop[q] # <<>> /\ Last(shop[q]).op = "sell"
  /\ LET idx == Last(shop[q]).idx
     IN  /\ held' = [held EXCEPT ![q] = @ \cup {idx}]
         /\ resold' = resold \cup {<<q, purchases[idx].item>>}
  /\ shop' = [shop EXCEPT ![q] = Front(@)]
  /\ UNCHANGED <<gold, purchases, pending>>

\* Time passes; who leaves the shop cannot undo any more.
LeaveShop ==
  /\ Playing /\ clock < MaxClock
  /\ clock' = clock + 1
  /\ \E stay \in SUBSET Buyer : shop' = [q \in Buyer |-> IF q \in stay THEN shop[q] ELSE <<>>]
  /\ UNCHANGED <<held, gold, shopEvents, purchases, pending, readEvents, starters, boots, builds, resold>>

-----------------------------------------------------------------------------
(* classify *)

EndOfGame ==
  /\ Playing
  /\ readEvents' = {}
  /\ UNCHANGED <<clock, held, shop, gold, shopEvents, purchases, pending, starters, boots, builds, resold>>

Spent(q) == FoldSeq(LAMBDA k, s : s + Catalog[purchases[k].item].priceTotal, 0, starters[q])

Undershoots(q, i) == Spent(q) + Catalog[i].priceTotal < StarterGoldLimit   \* mutant
WithinGold(q, i) == Spent(q) + Catalog[i].priceTotal <= StarterGoldLimit

IsStarter(row) ==
  /\ row.time < StarterCutoff /\ row.removal # "undo" /\ row.item \in ItemSets.starterEligible
  /\ WithinGold(row.buyer, row.item)

\* The latest boots that were not undone; sold ones count.
IsNewBoots(row) ==
  /\ row.item \in ItemSets.boots /\ row.removal # "undo"
  /\ boots[row.buyer] = 0 \/ row.time > purchases[boots[row.buyer]].time

IsInBuild(row) ==
  row.removal = "" /\ row.item \in ItemSets.completed /\ Len(builds[row.buyer]) < MaxItems

\* GetItemEventsForMatch orders by time only.
ReadNext(k) ==
  k \notin readEvents /\ \A l \in DOMAIN purchases \ readEvents : purchases[k].time <= purchases[l].time

\* One turn of the loop.
ClassifyRow(k) ==
  LET row == purchases[k]
      Add(list) == [list EXCEPT ![row.buyer] = Append(@, k)]
  IN  /\ ~Playing /\ ReadNext(k)
      /\ readEvents' = readEvents \cup {k}
      /\ starters' = IF IsStarter(row) THEN Add(starters) ELSE starters
      /\ boots' = IF IsNewBoots(row) THEN [boots EXCEPT ![row.buyer] = k] ELSE boots
      /\ builds' = IF IsInBuild(row) THEN Add(builds) ELSE builds
      /\ UNCHANGED <<clock, held, shop, gold, shopEvents, purchases, pending, resold>>

ItemNext ==
  \/ \E q \in Buyer, i \in Item : \E used \in Components(q, i) : ItemPurchased(q, i, used)
  \/ \E q \in Buyer : \E idx \in held[q] : ItemSold(q, idx)
  \/ \E q \in Buyer : UndoPurchase(q) \/ UndoSale(q)
  \/ LeaveShop \/ EndOfGame
  \/ \E k \in DOMAIN purchases : ClassifyRow(k)

ItemSpec == ItemInit /\ [][ItemNext]_itemVars

-----------------------------------------------------------------------------
(* Properties *)

Rows(q, removals) ==
  {k \in DOMAIN purchases : purchases[k].buyer = q /\ purchases[k].removal \in removals}
Final(ks) == {k \in ks : Catalog[purchases[k].item].to = {}}
OfItem(ks, i) == {k \in ks : purchases[k].item = i}

\* Of items nothing is built from, the rows of a player who sells nothing name
\* exactly the purchases he still has; with sales the numbers agree for every
\* item, except that an item whose sale was undone may be missing.  No item is
\* counted that the player does not hold (phase5/phase.go:140-166).
KeptIsHeld ==
  \A q \in Buyer :
    /\ Rows(q, {"sold"}) = {} => Final(Rows(q, {""})) = Final(held[q])
    /\ \A i \in {j \in Item : Catalog[j].to = {}} :
         LET kept == Cardinality(OfItem(Rows(q, {""}), i))
             have == Cardinality(OfItem(held[q], i))
         IN  kept <= have /\ (<<q, i>> \notin resold => kept = have)

\* The gold limit of 500 never drops a real starter: without sales at the start,
\* all eligible purchases of the first 90 seconds that were not undone are
\* stored, in whatever order rows of one time are read (phase55/phase.go:142-157).
StartersAreStored ==
  ~Playing /\ readEvents = DOMAIN purchases =>
    \A q \in Buyer :
      (\A k \in Rows(q, {"sold"}) : purchases[k].time >= StarterCutoff) =>
        ToSet(starters[q]) = {k \in Rows(q, {"", "sold"}) :
                                purchases[k].time < StarterCutoff /\ purchases[k].item \in ItemSets.starterEligible}
=============================================================================
