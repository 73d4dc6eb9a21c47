------------------------------ MODULE Catalogue ------------------------------
(***************************************************************************)
(* Products, their slugs, and the categories and collections they are in.  *)
(*                                                                         *)
(* A slug is searched for inside the transaction that writes it, at read   *)
(* committed, so two of them may find the same one; the unique index       *)
(* uq_products_slug then refuses the later.  Memberships are replaced by a *)
(* delete and inserts in one transaction, from the product's side          *)
(* (UpdateProduct, once for collections and once for categories, each      *)
(* after the patch of the row has committed) or from the group's side.     *)
(*                                                                         *)
(* A draft and an active product are both "listed" here, which only an     *)
(* archived one is not.  All requests come from one tenant; the groups of  *)
(* ForeignGroups belong to another.                                        *)
(* The variants of a product are VariantPrices and Inventory.              *)
(***************************************************************************)
EXTENDS Naturals, Sequences, FiniteSets, FiniteSetsExt

CONSTANTS
  NProducts,      \* products
  NEdits,         \* requests of more than one step
  NQuickEdits,    \* bound on the requests of one step
  Names,          \* names a product may be given; distinct ones have distinct slugs,
                  \* and "" stands for no name
  Categories, Collections,  \* disjoint sets of group identifiers
  ForeignGroups   \* the groups that exist already and belong to another tenant

ASSUME CatalogueAssumption ==
  /\ NProducts \in Nat \ {0} /\ NEdits \in Nat /\ NQuickEdits \in Nat
  /\ "" \notin Names
  /\ IsFiniteSet(Categories) /\ IsFiniteSet(Collections)
  /\ Categories \cap Collections = {}
  /\ ForeignGroups \subseteq Categories \cup Collections

VARIABLES
  product,   \* the products rows
  edit,      \* the requests of more than one step
  quick,     \* how many of one step there were
  group,     \* each group: "none" before it is made, "open", then "deleted"
  member,    \* product_category_ and product_collection_memberships
  asked,     \* the memberships, had every replacement been one step
  mixed,     \* pairs two overlapping replacements were both about
  overtaken  \* requests during whose search for a slug another one was written

catalogueVars == <<product, edit, quick, group, member, asked, mixed, overtaken>>

Products == 1..NProducts
Edits    == 1..NEdits
Groups   == Categories \cup Collections
MembershipPairs    == Groups \X Products

NoName    == [of |-> "", copies |-> 0]
NameOf(n) == [of |-> n, copies |-> 0]
NoSlug    == [base |-> NoName, no |-> 0]
Keep      == "keep"

NewProduct == [status |-> "free", name |-> NoName, slug |-> NoSlug]
NewEdit ==
  [pc |-> "new", id |-> 1, name |-> NoName, slug |-> NoSlug, status |-> Keep,
   cats |-> {}, todo |-> <<>>, gone |-> {}]

CatalogueInit ==
  /\ product = [p \in Products |-> NewProduct]
  /\ edit = [e \in Edits |-> NewEdit]
  /\ group \in {[g \in Groups |-> IF g \in made THEN "open" ELSE "none"] :
                  made \in {ForeignGroups, Groups}}
  /\ quick = 0 /\ member = {} /\ asked = {} /\ mixed = {} /\ overtaken = {}

Exists(p)  == product[p].status # "free"
Open(g)    == group[g] = "open"
Linkable(g) == Open(g) /\ g \notin ForeignGroups
Quickly == quick < NQuickEdits /\ quick' = quick + 1

\* What is left of a request that has answered.
Answered(pc) == [NewEdit EXCEPT !.pc = pc]
After(r, todo) == IF todo = <<>> THEN Answered("done")
                  ELSE [r EXCEPT !.pc = "syncing", !.gone = {}, !.todo = todo]
Replacing(e) == edit[e].pc = "cleared"
Due(e)       == Head(edit[e].todo)

\* Rows come in while others are being replaced, whose delete misses them.
Mix(e, pairs) == mixed' = mixed \cup UNION {pairs \cap Due(f).scope : f \in {f \in Edits \ {e} : Replacing(f)}}

UnusedProducts == {p \in Products : ~Exists(p) /\ \A e \in Edits : edit[e].pc = "resolved" => edit[e].id # p}

-----------------------------------------------------------------------------
(* Slugs.  Every other product counts, whatever its status.                *)

SlugTaken(slug, p) == \E q \in Products \ {p} : product[q].slug = slug
ResolveAmongCurrent(base, p) ==  \* a mutant: an archived product's slug is free again
  [base |-> base,
   no |-> Min({n \in 0..NProducts : \A q \in Products \ {p} :
                 product[q].slug = [base |-> base, no |-> n] => product[q].status = "archived"})]
ResolveUniqueProductSlug(base, p) ==
  [base |-> base,
   no |-> Min({n \in 0..NProducts : ~SlugTaken([base |-> base, no |-> n], p)})]

\* A slug is written: whoever still holds the answer of a search may lose it.
SlugWritten(e) == overtaken' = overtaken \cup {f \in Edits \ {e} : edit[f].pc = "resolved"}

InsertProduct(p, row) == product' = [product EXCEPT ![p] = row]
InsertDraftProduct(p) == InsertProduct(p, [NewProduct EXCEPT !.status = "listed"])

\* POST /admin/products/drafts: no name and no slug yet.
CreateDraft(p) ==
  /\ InsertDraftProduct(p) /\ Quickly
  /\ UNCHANGED <<edit, group, member, asked, mixed, overtaken>>

\* The validated input, and the slug found for it.
CreateProductWithVariants(e, p, name, cats) ==
  /\ edit[e].pc = "new"
  /\ edit' = [edit EXCEPT ![e] =
       [NewEdit EXCEPT !.pc = "resolved", !.id = p, !.name = name, !.status = "listed",
                       !.slug = ResolveUniqueProductSlug(name, p), !.cats = cats]]
  /\ UNCHANGED <<product, quick, group, member, asked, mixed, overtaken>>

\* The copy has no categories and no collections; its variants are copied too.
DraftName(name) == IF name = NoName THEN [of |-> "untitled", copies |-> 1]
                                    ELSE [name EXCEPT !.copies = @ + 1]
DuplicateProduct(e, p, source) ==
  CreateProductWithVariants(e, p, DraftName(product[source].name), {})

\* The product and its categories, in the transaction of the search.
SetProductCategories(p, cats) == /\ member' = member \cup (cats \X {p})
                                 /\ asked' = asked \cup (cats \X {p})
FinishCreate(e) == LET r == edit[e] IN
  /\ r.pc = "resolved" /\ ~Exists(r.id)
  /\ IF SlugTaken(r.slug, r.id) \/ \E c \in r.cats : ~Linkable(c)
     THEN /\ edit' = [edit EXCEPT ![e] = Answered(IF SlugTaken(r.slug, r.id) THEN "slugTaken" ELSE "failed")]
          /\ UNCHANGED <<product, member, asked, mixed, overtaken>>
     ELSE /\ InsertProduct(r.id, [status |-> r.status, name |-> r.name, slug |-> r.slug])
          /\ SetProductCategories(r.id, r.cats) /\ Mix(e, r.cats \X {r.id})
          /\ edit' = [edit EXCEPT ![e] = Answered("done")]
          /\ SlugWritten(e)
  /\ UNCHANGED <<quick, group>>

-----------------------------------------------------------------------------
(* Updates.  A replacement of memberships is due for the pairs of its      *)
(* scope; add are those that shall be there in the end.                    *)

Replacement(scope, add) == [scope |-> scope, add |-> add]
SyncOf(kind, p, groups) ==
  IF groups = {Keep} THEN <<>> ELSE <<Replacement(kind \X {p}, groups \X {p})>>

\* Without columns to patch no slug is searched for, an explicit one included.
UpdateProduct(e, p, name, status, cols, cats) ==
  /\ edit[e].pc = "new" /\ Exists(p)
  /\ ~(name = NoName /\ status = Keep /\ cols = {Keep} /\ cats = {Keep})
  /\ edit' = [edit EXCEPT ![e] =
       [NewEdit EXCEPT !.pc = IF name = NoName /\ status = Keep THEN "syncing" ELSE "resolved",
                       !.id = p, !.name = name, !.status = status,
                       !.slug = IF name = NoName THEN NoSlug ELSE ResolveUniqueProductSlug(name, p),
                       !.todo = SyncOf(Collections, p, cols) \o SyncOf(Categories, p, cats)]]
  /\ UNCHANGED <<product, quick, group, member, asked, mixed, overtaken>>

\* Only the columns the request names; then the row's transaction is over.
PatchColumns(row, r) ==
  [status |-> IF r.status = Keep THEN row.status ELSE r.status,
   name   |-> IF r.name = NoName THEN row.name ELSE r.name,
   slug   |-> IF r.name = NoName THEN row.slug ELSE r.slug]
PatchProduct(e) == LET r == edit[e] IN
  /\ r.pc = "resolved" /\ Exists(r.id)
  /\ IF r.name # NoName /\ SlugTaken(r.slug, r.id)
     THEN /\ edit' = [edit EXCEPT ![e] = Answered("slugTaken")]
          /\ UNCHANGED <<product, overtaken>>
     ELSE /\ product' = [product EXCEPT ![r.id] = PatchColumns(@, r)]
          /\ edit' = [edit EXCEPT ![e] = After(r, r.todo)]
          /\ SlugWritten(e)
  /\ UNCHANGED <<quick, group, member, asked, mixed>>

\* DELETE /admin/products/{id} archives; variants, groups and slug stay.
DeleteProduct(p) ==
  /\ Exists(p) /\ Quickly
  /\ product' = [product EXCEPT ![p] = PatchColumns(@, [NewEdit EXCEPT !.status = "archived"])]
  /\ UNCHANGED <<edit, group, member, asked, mixed, overtaken>>

-----------------------------------------------------------------------------
(* Groups.  The row of a patched group is written over another connection  *)
(* than the one whose transaction replaces its memberships: it stays when  *)
(* that one fails.  Nothing here depends on what the row then says.        *)

\* Only a manual category lists its products; a smart one goes by conditions.
Listed(type, ps) == IF type = "manual" THEN ps ELSE {}

LinkProducts(g, ps) == /\ member' = member \cup ({g} \X ps)
                       /\ asked' = asked \cup ({g} \X ps)
                       /\ Mix(0, {g} \X ps)
CreateGroup(g, ps) ==
  /\ group[g] = "none" /\ Quickly
  /\ group' = [group EXCEPT ![g] = "open"]
  /\ LinkProducts(g, ps)
  /\ UNCHANGED <<product, edit, overtaken>>
CreateCategory(c, type, ps) == CreateGroup(c, Listed(type, ps))
CreateCollection(k, ps)     == CreateGroup(k, ps)

PatchGroup(e, g, ps) ==
  /\ edit[e].pc = "new" /\ Linkable(g)
  /\ edit' = [edit EXCEPT ![e] =
       [NewEdit EXCEPT !.pc = "syncing", !.todo = <<Replacement({g} \X Products, {g} \X ps)>>]]
  /\ UNCHANGED <<product, quick, group, member, asked, mixed, overtaken>>
PatchCategory(e, c, type, ps) == PatchGroup(e, c, Listed(type, ps))
PatchCollection(e, k, ps)     == PatchGroup(e, k, ps)

\* The foreign keys of the memberships cascade.
DeleteGroup(g) ==
  /\ Linkable(g) /\ Quickly
  /\ group' = [group EXCEPT ![g] = "deleted"]
  /\ member' = member \ ({g} \X Products) /\ asked' = asked \ ({g} \X Products)
  /\ UNCHANGED <<product, edit, mixed, overtaken>>
DeleteCategory(c)   == DeleteGroup(c)
DeleteCollection(k) == DeleteGroup(k)

-----------------------------------------------------------------------------
(* Replacements.  The rows a transaction has deleted are locked until it   *)
(* ends: another one deletes or inserts them only then.                    *)

LockedFor(e) == UNION {edit[f].gone : f \in {f \in Edits \ {e} : Replacing(f)}}

ClearNothing(scope)     == {}  \* a mutant: the groups asked for are added
ClearMemberships(scope) == member \cap scope

\* A group that is not there, or another tenant's, ends the transaction.
BeginReplace(e) ==
  /\ edit[e].pc = "syncing"
  /\ member \cap Due(e).scope \cap LockedFor(e) = {}
  /\ IF \A m \in Due(e).add : Linkable(m[1])
     THEN /\ edit' = [edit EXCEPT ![e].pc = "cleared", ![e].gone = ClearMemberships(Due(e).scope)]
          /\ Mix(e, Due(e).scope)
     ELSE /\ edit' = [edit EXCEPT ![e] = Answered("failed")]
          /\ UNCHANGED mixed
  /\ UNCHANGED <<product, quick, group, member, asked, overtaken>>

\* The inserts, and the commit.  A group deleted meanwhile breaks a foreign key.
EndReplace(e) ==
  /\ Replacing(e) /\ Due(e).add \cap LockedFor(e) = {}
  /\ IF \A m \in Due(e).add : Open(m[1])
     THEN /\ member' = (member \ edit[e].gone) \cup Due(e).add
          /\ asked' = (asked \ Due(e).scope) \cup Due(e).add
          /\ edit' = [edit EXCEPT ![e] = After(@, Tail(@.todo))]
     ELSE /\ edit' = [edit EXCEPT ![e] = Answered("failed")]
          /\ UNCHANGED <<member, asked>>
  /\ UNCHANGED <<product, quick, group, mixed, overtaken>>

\* A lost connection, or the victim of a deadlock: what is committed stays.
FailEdit(e) ==
  /\ edit[e].pc \in {"resolved", "syncing", "cleared"}
  /\ edit' = [edit EXCEPT ![e] = Answered("failed")]
  /\ UNCHANGED <<product, quick, group, member, asked, mixed, overtaken>>

-----------------------------------------------------------------------------
(* The routes: what a request may ask for.                                 *)

PostProduct(e) ==
  \E n \in Names, cats \in SUBSET Categories :
    /\ UnusedProducts # {}
    /\ CreateProductWithVariants(e, Min(UnusedProducts), NameOf(n), cats)
PostDuplicate(e) ==
  /\ edit[e].pc = "new"
  /\ \E source \in {p \in Products : Exists(p)} :
       UnusedProducts # {} /\ DuplicateProduct(e, Min(UnusedProducts), source)
PostDraft == UnusedProducts # {} /\ CreateDraft(Min(UnusedProducts))
PatchProductById(e) ==
  \E p \in Products, n \in {NoName} \cup {NameOf(m) : m \in Names}, st \in {Keep, "listed"},
     cols \in {{Keep}} \cup SUBSET Collections,
     cats \in {{Keep}, {}} \cup {{c} : c \in Categories} :
    UpdateProduct(e, p, n, st, cols, cats)
DeleteProductById == \E p \in Products : DeleteProduct(p)
Existing == {p \in Products : Exists(p)}
PostCategory   == \E c \in Categories, t \in {"manual", "smart"}, ps \in SUBSET Existing : CreateCategory(c, t, ps)
PostCollection == \E k \in Collections, ps \in SUBSET Existing : CreateCollection(k, ps)
PatchCategoryById(e) ==
  \E c \in Categories, t \in {"manual", "smart"}, ps \in SUBSET Existing : PatchCategory(e, c, t, ps)
PatchCollectionById(e) == \E k \in Collections, ps \in SUBSET Existing : PatchCollection(e, k, ps)
DeleteCategoryById   == \E c \in Categories : DeleteCategory(c)
DeleteCollectionById == \E k \in Collections : DeleteCollection(k)

CatalogueNext ==
  \/ PostDraft \/ DeleteProductById \/ PostCategory \/ PostCollection
  \/ DeleteCategoryById \/ DeleteCollectionById
  \/ \E e \in Edits :
       \/ PostProduct(e) \/ PostDuplicate(e) \/ FinishCreate(e)
       \/ PatchProductById(e) \/ PatchProduct(e)
       \/ PatchCategoryById(e) \/ PatchCollectionById(e)
       \/ BeginReplace(e) \/ EndReplace(e) \/ FailEdit(e)

CatalogueSpec == CatalogueInit /\ [][CatalogueNext]_catalogueVars

-----------------------------------------------------------------------------
Slugs == [base : [of : {"", "untitled"} \cup Names, copies : 0..NProducts], no : 0..NProducts]

\* Rows, requests and memberships have the shapes the code gives them.
CatalogueTypeOK ==
  /\ \A p \in Products : /\ product[p].status \in {"free", "listed", "archived"}
                         /\ product[p].slug \in Slugs
  /\ \A e \in Edits : /\ edit[e].pc \in {"new", "resolved", "syncing", "cleared", "done", "slugTaken", "failed"}
                      /\ edit[e].id \in Products /\ edit[e].slug \in Slugs
                      /\ edit[e].gone \subseteq MembershipPairs
  /\ \A g \in Groups : group[g] \in {"none", "open", "deleted"}
  /\ {member, asked, mixed} \subseteq SUBSET MembershipPairs
  /\ quick \in 0..NQuickEdits /\ overtaken \subseteq Edits

\* A request is refused over its slug, with an internal error, only when
\* another wrote one between its ResolveUniqueProductSlug and its own write.
SlugLostToRace == \A e \in Edits : edit[e].pc = "slugTaken" => e \in overtaken

\* A product is in the groups the replacements ask for in the order of their
\* commits, whichever side each came from, except where two of them were
\* under way at once: those both miss the other's rows and add up.
MembershipsAsAsked == \A m \in MembershipPairs \ mixed : m \in member <=> m \in asked
=============================================================================
