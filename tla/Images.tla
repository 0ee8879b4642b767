-------------------------------- MODULE Images --------------------------------
(***************************************************************************)
(* The pictures of the platform's categories, of the grocery shelves and   *)
(* their products, and of the users: a column of the row says where the    *)
(* picture is, Cloudinary keeps it.                                        *)
(*                                                                         *)
(* Whoever replaces or deletes a row's picture sends Cloudinary the        *)
(* deletion of the one it had READ, and does not wait for the answer.  A   *)
(* client may also upload first and send the address, or name a picture to *)
(* be deleted.  Only a row's picture is modelled of it; a picture whose    *)
(* deletion was sent counts as deleted, even if Cloudinary fails.          *)
(***************************************************************************)
EXTENDS Naturals, FiniteSets

CONSTANTS
  Category,  \* the platform's categories
  Shelf,     \* the grocery categories
  Product,   \* the grocery products
  User,
  Caller,    \* the requests in flight at once
  MaxImages, \* bound: the pictures uploaded; they are numbered
  MaxNamed   \* bound: the pictures named by clients

ImagesAssumption == {MaxImages, MaxNamed} \subseteq Nat

VARIABLES
  row,     \* ids are not used again: a row that is gone does not come back
  image,   \* a row's picture; 0 for none or one that is not at Cloudinary
  shelf,   \* KiranaProduct.categoryId
  linked,  \* the categories that sellers or orders refer to
  added,   \* the number of pictures uploaded
  stored,  \* the pictures Cloudinary has and no deletion was sent for
  loose,   \* history: those a client named, a category was given back, or an avatar
           \* was to leave and did not
  call     \* what each request is doing

rowVars == <<row, image, shelf, linked>>
cloudVars == <<added, stored>>
vars == <<rowVars, cloudVars, loose, call>>

Row == Category \cup Shelf \cup Product \cup User
Image == 1 .. MaxImages
Idle == [stage |-> "idle"]

\* old is the row's picture when it was read, new the one sent, if one was.
Call == [stage : {"create", "category", "catalogue", "avatar", "avatarRow", "count", "remove"},
         row : Row, old : Image \cup {0}, sent : BOOLEAN, new : Image \cup {0}]

ImagesTypeOK ==
  /\ row \in [Row -> {"none", "there", "gone"}]
  /\ image \in [Row -> Image \cup {0}]
  /\ shelf \in [Product -> Shelf]
  /\ linked \in SUBSET Category
  /\ added \in Image \cup {0}
  /\ stored \in SUBSET (1 .. added)
  /\ loose \in SUBSET (Image \cup {0})
  /\ call \in [Caller -> Call \cup {Idle}]

Init ==
  /\ row \in {f \in [Row -> {"none", "there", "gone"}] :
                 \A r \in Row : f[r] = "there" => r \in User}
  /\ image = [r \in Row |-> 0]
  /\ shelf \in [Product -> Shelf]
  /\ linked = {}
  /\ added = 0
  /\ stored = {}
  /\ loose = {}
  /\ call = [c \in Caller |-> Idle]

At(c, stage) == call[c].stage = stage
There(r) == row[r] = "there"

Goes(c, stage) == call' = [call EXCEPT ![c].stage = stage]
Done(c) == call' = [call EXCEPT ![c] = Idle]

-----------------------------------------------------------------------------
(***************************************************************************)
(* Cloudinary.                                                             *)
(***************************************************************************)

\* A picture nobody else knows of yet.
Upload(i) ==
  /\ i = added + 1
  /\ i \in Image
  /\ added' = i
  /\ stored' = stored \cup {i}

\* Nobody waits for it.
DeleteFromCloudinary(images) == stored' = stored \ images

(***************************************************************************)
(* What a client may do with addresses.                                    *)
(***************************************************************************)

\* The address goes to the client, which may send it with any later request.
UploadUrl ==
  /\ \E i \in Image : Upload(i)
  /\ UNCHANGED <<rowVars, loose, call>>

Named(i) ==
  /\ loose' = loose \cup {i}
  /\ Cardinality(loose') <= MaxNamed

\* With an upload, or alone.
Unwanted(i) ==
  /\ i \in stored
  /\ DeleteFromCloudinary({i})
  /\ Named(i)
  /\ UNCHANGED <<rowVars, added, call>>

(***************************************************************************)
(* A request that may bring a picture: nothing; a file that is uploaded,   *)
(* or kept in the row when the upload fails; an address.  Files are        *)
(* uploaded before or after the row is read: nobody sees the difference.   *)
(***************************************************************************)
Sends(c, stage, r) ==
  LET Begin(sent, i) ==
        call' = [call EXCEPT ![c] = [stage |-> stage, row |-> r, old |-> image[r],
                                     sent |-> sent, new |-> i]]
  IN
  /\ call[c] = Idle
  /\ \/ \E sent \in BOOLEAN : Begin(sent, 0) /\ UNCHANGED <<added, stored, loose>>
     \/ \E i \in Image : Upload(i) /\ Begin(TRUE, i) /\ UNCHANGED loose
     \/ \E i \in 1 .. added :
          Begin(TRUE, i) /\ Named(i) /\ UNCHANGED <<added, stored>>
  /\ UNCHANGED rowVars

Create(c) == \E r \in Row : row[r] = "none" /\ Sends(c, "create", r)

CreateRow(c, r) ==
  /\ At(c, "create") /\ call[c].row = r
  /\ row[r] = "none"
  /\ row' = [row EXCEPT ![r] = "there"]
  /\ image' = [image EXCEPT ![r] = call[c].new]
  /\ Done(c)
  /\ UNCHANGED <<linked, cloudVars, loose>>

CreateCategory(c) == \E r \in Category : CreateRow(c, r) /\ UNCHANGED shelf

CreateShelf(c) == \E r \in Shelf : CreateRow(c, r) /\ UNCHANGED shelf

CreateProduct(c) ==
  \E r \in Product, f \in Shelf :
    There(f) /\ CreateRow(c, r) /\ shelf' = [shelf EXCEPT ![r] = f]

Update(c) ==
  \/ \E r \in Category : There(r) /\ Sends(c, "category", r)
  \/ \E r \in Shelf \cup Product : There(r) /\ Sends(c, "catalogue", r)

\* Mutant of Replaced: also if none was sent.
ReplacedAnyway(c) == {call[c].old} \ ({call[c].new} \ {0})

\* The deletion of the picture that was read, if another was sent.
Replaced(c) == IF call[c].sent THEN {call[c].old} \ {call[c].new} ELSE {}

\* A category that is sent no picture is given the one it had when it was read.
UpdateCategory(c) ==
  LET k == call[c] IN
  /\ At(c, "category")
  /\ There(k.row)
  /\ image' = [image EXCEPT ![k.row] = IF k.sent THEN k.new ELSE k.old]
  /\ DeleteFromCloudinary(Replaced(c))
  /\ loose' = IF ~k.sent /\ image[k.row] # k.old THEN loose \cup {k.old} ELSE loose
  /\ Done(c)
  /\ UNCHANGED <<row, shelf, linked, added>>

UpdateImage(c) ==
  /\ At(c, "catalogue")
  /\ There(call[c].row)
  /\ image' = IF call[c].sent THEN [image EXCEPT ![call[c].row] = call[c].new] ELSE image
  /\ DeleteFromCloudinary(Replaced(c))
  /\ Done(c)
  /\ UNCHANGED <<row, linked, added, loose>>

UpdateShelf(c) == call[c] # Idle /\ call[c].row \in Shelf /\ UpdateImage(c) /\ UNCHANGED shelf

\* It may be moved to another shelf.
UpdateProduct(c) ==
  /\ call[c] # Idle /\ call[c].row \in Product
  /\ UpdateImage(c)
  /\ \E f \in Shelf :
       /\ f = shelf[call[c].row] \/ There(f)
       /\ shelf' = [shelf EXCEPT ![call[c].row] = f]

(***************************************************************************)
(* A user's photo: the deletion is sent before the row is written.         *)
(***************************************************************************)

UploadProfilePhoto(c) ==
  /\ \E r \in User : Sends(c, "avatar", r)
  /\ call'[c].sent

ReplaceAvatar(c) ==
  /\ At(c, "avatar")
  /\ DeleteFromCloudinary(Replaced(c))
  /\ Goes(c, "avatarRow")
  /\ UNCHANGED <<rowVars, added, loose>>

UpdateUser(c) ==
  /\ At(c, "avatarRow")
  /\ image' = [image EXCEPT ![call[c].row] = call[c].new]
  /\ Done(c)
  /\ UNCHANGED <<row, shelf, linked, cloudVars, loose>>

(***************************************************************************)
(* Deleting a row.                                                         *)
(***************************************************************************)

Delete(c, r) ==
  /\ call[c] = Idle
  /\ There(r) /\ r \notin User
  /\ call' = [call EXCEPT ![c] = [stage |-> IF r \in Category THEN "count" ELSE "remove",
                                  row |-> r, old |-> image[r], sent |-> FALSE, new |-> 0]]
  /\ UNCHANGED <<rowVars, cloudVars, loose>>

Link(r) ==
  /\ There(r)
  /\ linked' = linked \cup {r}
  /\ UNCHANGED <<row, image, shelf, cloudVars, loose, call>>

\* A category that is referred to is only made inactive.
CountLinks(c) ==
  /\ At(c, "count")
  /\ IF call[c].row \in linked THEN Done(c) ELSE Goes(c, "remove")
  /\ UNCHANGED <<rowVars, cloudVars, loose>>

\* A shelf takes its products with it, whose pictures stay at Cloudinary.
Cascade(r) == {r} \cup {p \in Product : There(p) /\ shelf[p] = r}

RemoveRow(c) ==
  LET gone == Cascade(call[c].row) IN
  /\ There(call[c].row)
  /\ row' = [r \in Row |-> IF r \in gone THEN "gone" ELSE row[r]]
  /\ image' = [r \in Row |-> IF r \in gone THEN 0 ELSE image[r]]
  /\ DeleteFromCloudinary({call[c].old})
  /\ Done(c)
  /\ UNCHANGED <<shelf, linked, added, loose>>

RemoveCategory(c) == At(c, "remove") /\ call[c].row \in Category /\ RemoveRow(c)

RemoveShelf(c) == At(c, "remove") /\ call[c].row \in Shelf /\ RemoveRow(c)

RemoveProduct(c) == At(c, "remove") /\ call[c].row \in Product /\ RemoveRow(c)

\* An error of the database, a row that is gone, a restart: a deletion that was sent
\* is not called back.
CallDies(c) ==
  /\ call[c] # Idle
  /\ loose' = IF At(c, "avatarRow") THEN loose \cup Replaced(c) ELSE loose
  /\ Done(c)
  /\ UNCHANGED <<rowVars, cloudVars>>

-----------------------------------------------------------------------------
Next ==
  \/ \E c \in Caller :
       \/ Create(c) \/ CreateCategory(c) \/ CreateShelf(c) \/ CreateProduct(c)
       \/ Update(c) \/ UpdateCategory(c) \/ UpdateShelf(c) \/ UpdateProduct(c)
       \/ UploadProfilePhoto(c) \/ ReplaceAvatar(c) \/ UpdateUser(c)
       \/ \E r \in Row : Delete(c, r)
       \/ CountLinks(c)
       \/ RemoveCategory(c) \/ RemoveShelf(c) \/ RemoveProduct(c)
       \/ CallDies(c)
  \/ \E r \in Category : Link(r)
  \/ UploadUrl \/ \E i \in Image : Unwanted(i)

Spec == Init /\ [][Next]_vars

(***************************************************************************)
(* Property                                                                *)
(***************************************************************************)

\* A picture that only the calls of its row ever handled is at Cloudinary, and stays,
\* while a row shows it, however updates, deletions and uploads race.  Except that a
\* user's old photo goes before the row is written.
ShownImageExists ==
  \A r \in Row :
    /\ There(r)
    /\ image[r] \notin {0} \cup loose
    /\ \A c \in Caller : At(c, "avatarRow") => call[c].old # image[r]
    => image[r] \in stored
===============================================================================
