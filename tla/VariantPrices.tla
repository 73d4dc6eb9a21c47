---------------------------- MODULE VariantPrices ----------------------------
(***************************************************************************)
(* The variants of a product, their channel prices and their sale prices.  *)
(*                                                                         *)
(* UpdateVariant reads the row before its transaction begins and writes    *)
(* every column back, then replaces the sale price: the active promotions  *)
(* are switched off by one statement and the new one is inserted by the    *)
(* next.  At read committed that would leave two of them, were it not for  *)
(* the lock the update of the variant's row holds until the commit.        *)
(*                                                                         *)
(* Sale prices are only ever made for the first active channel, and no     *)
(* code changes which that is.  The stock of a variant, the warehouse rows *)
(* an update writes and the copies of a variant are Inventory's.           *)
(***************************************************************************)
EXTENDS Naturals, FiniteSets

CONSTANTS
  NVariants,       \* variants of the product
  NVariantEdits,   \* UpdateVariant and UpsertDefaultVariant requests
  Colors, Urls,    \* values of a column, and of image_url and the media
  Channels, FirstChannel,
  MaxPrice         \* bound on a channel price

Unset == "unset"   \* NULL
Omit  == "omit"    \* not in the request
Clear == "clear"   \* the sale price ""
Sale  == "sale"    \* some sale price

ASSUME VariantPricesAssumption ==
  /\ NVariants \in Nat \ {0} /\ NVariantEdits \in Nat
  /\ {Unset, Omit} \cap (Colors \cup Urls) = {}
  /\ FirstChannel \in Channels /\ MaxPrice \in Nat \ {0}

VARIABLES
  variant,    \* the variants rows: there or not, color, image_url, first media
  price,      \* the channel_prices rows; price 0 where there is none
  onSale,     \* the active promotions, by the request each came from
  vedit,      \* the requests
  wanted,     \* color and image the committed requests have asked for
  crossing,   \* variants one request wrote from what another had overwritten
  quoted      \* the row as SetPrice says it is: all of it replaced

variantVars == <<variant, price, onSale, vedit, wanted, crossing, quoted>>

Variants     == 1..NVariants
VariantEdits == 1..NVariantEdits
AtCreation   == 0   \* the promotion a variant is made with
Untils       == {"never", "later", "past"}

NoVariant == [state |-> "none", color |-> Unset, image |-> Unset, media |-> Unset]
NoRow     == [price |-> 0, until |-> "never"]
NewVEdit  == [pc |-> "new", id |-> 1, row |-> NoVariant, color |-> Omit, image |-> Omit,
              media |-> Omit, price |-> 0, sale |-> Omit, off |-> {}]

VariantsInit ==
  /\ variant = [v \in Variants |-> NoVariant]
  /\ price = [v \in Variants |-> [c \in Channels |-> NoRow]]
  /\ onSale = [v \in Variants |-> {}]
  /\ vedit = [e \in VariantEdits |-> NewVEdit]
  /\ wanted = [v \in Variants |-> [color |-> Unset, image |-> Unset]]
  /\ crossing = {}
  /\ quoted = price

ThereIs(v) == variant[v].state = "there"
Unmade     == {v \in Variants : variant[v].state = "none"}
Answer(pc) == [NewVEdit EXCEPT !.pc = pc]

-----------------------------------------------------------------------------
(* Making a variant.  One transaction that nobody else can see into.       *)

InsertVariant(v, row, p, sale) ==
  /\ variant' = [variant EXCEPT ![v] = row]
  /\ price' = [price EXCEPT ![v] = p]
  /\ onSale' = [onSale EXCEPT ![v] = sale]
  /\ wanted' = [wanted EXCEPT ![v] = [color |-> row.color, image |-> row.image]]
  /\ quoted' = [quoted EXCEPT ![v] = p]

FirstPrice(p) == [c \in Channels |-> IF c = FirstChannel THEN [price |-> p, until |-> "never"] ELSE NoRow]

\* Also each variant of CreateProductWithVariants.  No price is price 0.
CreateVariantForProduct(v, color, url, p, sale) ==
  /\ InsertVariant(v, [NoVariant EXCEPT !.state = "there", !.color = color, !.media = url],
                   FirstPrice(p), IF sale = Sale THEN {AtCreation} ELSE {})
  /\ UNCHANGED <<vedit, crossing>>

-----------------------------------------------------------------------------
(* Changing one.                                                           *)

\* Only what the request names; an omitted image or color is kept.
ClearOmitted(row, r) ==  \* a mutant: an omitted column is a NULL
  [row EXCEPT !.color = IF r.color = Omit THEN Unset ELSE r.color,
              !.image = IF r.image = Omit THEN Unset ELSE r.image,
              !.media = IF r.media = Omit THEN @ ELSE r.media]
Merged(row, r) ==
  [row EXCEPT !.color = IF r.color = Omit THEN @ ELSE r.color,
              !.image = IF r.image = Omit THEN @ ELSE r.image,
              !.media = IF r.media = Omit THEN @ ELSE r.media]

\* ListVariantsByProduct shows the first of the media as a missing image,
\* and the row it gives is the one UpsertDefaultVariant writes back.
GetVariantByID(v)        == variant[v]
ListVariantsByProduct(v) ==
  IF variant[v].image = Unset THEN [variant[v] EXCEPT !.image = variant[v].media] ELSE variant[v]

Input(color, image, media, p, sale) ==
  [color |-> color, image |-> image, media |-> media, price |-> p, sale |-> sale]
BeginEdit(e, v, row, in) ==
  /\ vedit[e].pc = "new" /\ ThereIs(v)
  /\ vedit' = [vedit EXCEPT ![e] =
       [NewVEdit EXCEPT !.pc = "read", !.id = v, !.row = row, !.color = in.color,
                        !.image = in.image, !.media = in.media, !.price = in.price, !.sale = in.sale]]
  /\ UNCHANGED <<variant, price, onSale, wanted, crossing, quoted>>
UpdateVariant(e, v, in) == BeginEdit(e, v, GetVariantByID(v), in)

\* The one that sorts first; quantity and prices of the request are ignored.
UpsertDefaultVariantForProduct(e, v, in) ==
  BeginEdit(e, v, ListVariantsByProduct(v), [in EXCEPT !.price = 0, !.sale = Omit])

\* The update of the row waits for a request that has written it already.
RowAlwaysFree(v) == TRUE  \* a mutant: the row is not written first
RowFree(v) == \A f \in VariantEdits : ~(vedit[f].pc \in {"locked", "switched"} /\ vedit[f].id = v)
LockRow(e) ==
  /\ vedit[e].pc = "read" /\ RowFree(vedit[e].id)
  /\ vedit' = [vedit EXCEPT ![e].pc = "locked"]
  /\ UNCHANGED <<variant, price, onSale, wanted, crossing, quoted>>

\* is_active = FALSE for the promotions that statement sees.
DeactivateSales(e) ==
  /\ vedit[e].pc = "locked"
  /\ vedit' = [vedit EXCEPT ![e].pc = "switched",
                            ![e].off = IF vedit[e].sale = Omit THEN {} ELSE onSale[vedit[e].id]]
  /\ UNCHANGED <<variant, price, onSale, wanted, crossing, quoted>>

Priced(rows, p) ==
  CASE p = 0 -> rows
    [] \A c \in Channels : rows[c] = NoRow -> FirstPrice(p)
    [] OTHER -> [c \in Channels |-> IF rows[c] = NoRow THEN NoRow ELSE [rows[c] EXCEPT !.price = p]]

\* The rest and the commit.  A row that is gone is no error, unless a price
\* or a promotion refers to it.
CommitEdit(e) == LET r == vedit[e] IN
  /\ r.pc = "switched"
  /\ IF ThereIs(r.id)
     THEN /\ variant' = [variant EXCEPT ![r.id] = Merged(r.row, r)]
          /\ price' = [price EXCEPT ![r.id] = Priced(@, r.price)]
          /\ quoted' = [quoted EXCEPT ![r.id] = Priced(@, r.price)]
          /\ onSale' = [onSale EXCEPT ![r.id] = (@ \ r.off) \cup (IF r.sale = Sale THEN {e} ELSE {})]
          /\ wanted' = [wanted EXCEPT ![r.id] =
               [color |-> IF r.color = Omit THEN @.color ELSE r.color,
                image |-> IF r.image = Omit THEN @.image ELSE r.image]]
          /\ crossing' = IF \E f \in VariantEdits \ {e} : vedit[f].pc \in {"read", "locked", "switched"} /\ vedit[f].id = r.id
                         THEN crossing \cup {r.id} ELSE crossing
          /\ vedit' = [vedit EXCEPT ![e] = Answer("done")]
     ELSE /\ vedit' = [vedit EXCEPT ![e] = Answer(IF r.price = 0 /\ r.sale # Sale THEN "done" ELSE "failed")]
          /\ UNCHANGED <<variant, price, onSale, wanted, crossing, quoted>>

FailVariantEdit(e) ==
  /\ vedit[e].pc \in {"read", "locked", "switched"}
  /\ vedit' = [vedit EXCEPT ![e] = Answer("failed")]
  /\ UNCHANGED <<variant, price, onSale, wanted, crossing, quoted>>

\* All its other rows go first; an order, a movement or a warehouse row that
\* refers to the variant makes the last delete, and with it all of it, fail.
DeleteVariant(v) ==
  /\ ThereIs(v) /\ RowFree(v)
  /\ variant' = [variant EXCEPT ![v] = [NoVariant EXCEPT !.state = "gone"]]
  /\ price' = [price EXCEPT ![v] = [c \in Channels |-> NoRow]]
  /\ quoted' = [quoted EXCEPT ![v] = [c \in Channels |-> NoRow]]
  /\ onSale' = [onSale EXCEPT ![v] = {}]
  /\ wanted' = [wanted EXCEPT ![v] = [color |-> Unset, image |-> Unset]]
  /\ UNCHANGED <<vedit, crossing>>

-----------------------------------------------------------------------------
(* Channel prices.                                                         *)

\* A row that is there keeps its effective_until.
UpsertChannelPrice(row, p, until) ==
  IF row = NoRow THEN [price |-> p, until |-> until] ELSE [row EXCEPT !.price = p]
SetPrice(v, c, p, until) ==
  /\ ThereIs(v)
  /\ price' = [price EXCEPT ![v][c] = UpsertChannelPrice(@, p, until)]
  /\ quoted' = [quoted EXCEPT ![v][c] = [price |-> p, until |-> until]]
  /\ UNCHANGED <<variant, onSale, vedit, wanted, crossing>>

Aged(row) == IF row.until = "later" THEN [row EXCEPT !.until = "past"] ELSE row
ExpirePrices ==
  /\ \E v \in Variants, c \in Channels : "later" \in {price[v][c].until, quoted[v][c].until}
  /\ price' = [v \in Variants |-> [c \in Channels |-> Aged(price[v][c])]]
  /\ quoted' = [v \in Variants |-> [c \in Channels |-> Aged(quoted[v][c])]]
  /\ UNCHANGED <<variant, onSale, vedit, wanted, crossing>>

\* 0 is "no active price found".
InForce(row) == IF row.until = "past" THEN 0 ELSE row.price
GetPrice(v, c) == InForce(price[v][c])

-----------------------------------------------------------------------------
(* The routes.                                                             *)

PostVariant ==
  \E v \in Unmade, color \in Colors \cup {Unset}, url \in Urls \cup {Unset}, p \in 0..MaxPrice, s \in {Omit, Sale} :
    CreateVariantForProduct(v, color, url, p, s)
\* A bound: one request names the color, the image, the media or the prices.
ColumnInputs == {Input(c, Omit, Omit, 0, Omit) : c \in Colors \cup {Omit}} \cup
                {Input(Omit, u, Omit, 0, Omit) : u \in Urls} \cup
                {Input(Omit, Omit, m, 0, Omit) : m \in Urls \cup {Unset}}
PriceInputs  == {Input(Omit, Omit, Omit, p, s) : p \in 0..MaxPrice, s \in {Omit, Clear, Sale}}
PatchVariant(e)        == \E v \in Variants, in \in ColumnInputs \cup PriceInputs : UpdateVariant(e, v, in)
PutDefaultVariant(e)   == \E v \in Variants, in \in ColumnInputs : UpsertDefaultVariantForProduct(e, v, in)
DeleteVariantById      == \E v \in Variants : DeleteVariant(v)
PutPrice == \E v \in Variants, c \in Channels, p \in 1..MaxPrice, until \in {"never", "later"} : SetPrice(v, c, p, until)

VariantsNext ==
  \/ PostVariant \/ DeleteVariantById \/ PutPrice \/ ExpirePrices
  \/ \E e \in VariantEdits :
       \/ PatchVariant(e) \/ PutDefaultVariant(e)
       \/ LockRow(e) \/ DeactivateSales(e) \/ CommitEdit(e) \/ FailVariantEdit(e)

VariantsSpec == VariantsInit /\ [][VariantsNext]_variantVars

-----------------------------------------------------------------------------
PriceRows == [price : 0..MaxPrice, until : Untils]

\* Rows, requests and prices have the shapes the code gives them.
VariantsTypeOK ==
  /\ variant \in [Variants -> [state : {"none", "there", "gone"}, color : Colors \cup {Unset},
                               image : Urls \cup {Unset}, media : Urls \cup {Unset}]]
  /\ {price, quoted} \subseteq [Variants -> [Channels -> PriceRows]]
  /\ onSale \in [Variants -> SUBSET (0..NVariantEdits)]
  /\ \A e \in VariantEdits : vedit[e].pc \in {"new", "read", "locked", "switched", "done", "failed"}
  /\ crossing \subseteq Variants

\* However requests interleave, a variant never has two active sale prices on
\* a channel: an order charges the lower, while the list shows the newer one.
OneSalePrice == \A v \in Variants : Cardinality(onSale[v]) <= 1

\* A column holds what the last committed request that named it asked for,
\* though every request writes all of them, unless two of one variant
\* overlapped: the later one then writes back what it had read before.
EditsSurvive ==
  \A v \in Variants \ crossing : ThereIs(v) =>
    /\ variant[v].color = wanted[v].color
    /\ wanted[v].image # Unset => variant[v].image = wanted[v].image

\* "SetPrice sets or replaces the selling price for a variant on a specific
\* channel. If a price already exists for that (variant, channel) pair it is
\* overwritten."  The upsert leaves effective_until as it was.
SetPriceReplaces == \A v \in Variants, c \in Channels : GetPrice(v, c) = InForce(quoted[v][c])
=============================================================================
