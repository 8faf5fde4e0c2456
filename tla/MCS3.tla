-------------------------------- MODULE MCS3 --------------------------------
(***************************************************************************)
(* The client of S3 and its test server: uploads in parts, buckets and     *)
(* objects while requests and replies get lost, and listings.  instance    *)
(* says which of the small instances below a behaviour is of; the          *)
(* variables of the others stay as they are.                               *)
(***************************************************************************)
EXTENDS S3Store

CONSTANTS c1, c2, b1, b2, k1, d1, d2, None

VARIABLES
    instance,
    server, client, lost, made,
    objects, req, contents, common, page, kept, ever, changes

Files == {<<>>, <<1, 2>>, <<1, 1, 2>>, <<1, 2, 2, 1>>, <<2, 1, 1>>}
Resumed == INSTANCE S3Multi WITH
    Clients <- {c1}, Contents <- Files, PartSizes <- {1, 2}, ListMax <- 1, Others <- 1,
    Tries <- 2, MaxFaults <- 1, MaxCalls <- 4, MaxUploads <- 4, faults <- lost, calls <- made
\* Two clients that upload the same key
Shared == INSTANCE S3Multi WITH
    Clients <- {c1, c2}, Contents <- {<<1, 2, 3>>, <<1, 2, 4>>}, PartSizes <- {2}, ListMax <- 2, Others <- 0,
    Tries <- 2, MaxFaults <- 1, MaxCalls <- 3, MaxUploads <- 4, faults <- lost, calls <- made

\* Two clients of a bucket lose requests and replies; or one stores objects with
\* digests, right or not, and names a bucket that cannot be.
Digested == INSTANCE S3Store WITH
    Buckets <- {b1, b2}, Datas <- {d1, d2}, Conflicts <- TRUE,
    Headers <- {{}, {"Content-Type"}, {"x-amz-acl"}},
    Digests <- {"none", "right", "wrong", "base64"}, Wrapped <- TRUE, MaxFaults <- 1

\* 1 is the delimiter, which comes before the letters.
Still == INSTANCE S3List WITH
    Names <- {<<2>>, <<3>>, <<2, 1>>, <<2, 1, 2>>, <<2, 1, 3>>, <<2, 2>>, <<2, 1, 2, 1, 2>>},
    Begins <- {<<>>, <<2>>, <<2, 1>>}, Delims <- {<<>>, <<1>>}, Maxes <- {0, 1, 2, 3},
    Default <- 5, MaxChanges <- 0
\* Objects come and go between two pages; longer delimiters.
Changing == INSTANCE S3List WITH
    Names <- {<<2>>, <<2, 1, 2>>, <<2, 1, 3>>, <<3>>, <<2, 3, 2>>},
    Begins <- {<<>>}, Delims <- {<<1>>, <<3>>, <<1, 2>>}, Maxes <- {1, 2}, Default <- 5, MaxChanges <- 2

ASSUME InstancesAssumption ==
    /\ Resumed!MultiAssumption /\ Shared!MultiAssumption /\ StoreAssumption /\ Digested!StoreAssumption
    /\ Still!ListAssumption /\ Changing!ListAssumption

multiVars == <<server, client, lost, made>>
listVars == <<objects, req, contents, common, page, kept, ever, changes>>
NoMulti == server = None /\ client = None /\ lost = None /\ made = None
NoList ==
    /\ objects = None /\ req = None /\ contents = None /\ common = None /\ page = None
    /\ kept = None /\ ever = None /\ changes = None

AnyInit ==
    \/ StoreInit /\ NoList /\ \/ instance = "resumed" /\ Resumed!Init
                              \/ instance = "shared" /\ Shared!Init
    \/ NoMulti /\ NoList /\ \/ instance = "losing" /\ StoreInit
                            \/ instance = "digested" /\ Digested!StoreInit
    \/ StoreInit /\ NoMulti /\ \/ instance = "still" /\ Still!Init
                               \/ instance = "changing" /\ Changing!Init

AnyNext ==
    \/ instance = "resumed" /\ Resumed!Next /\ UNCHANGED <<instance, storeVars, listVars>>
    \/ instance = "shared" /\ Shared!Next /\ UNCHANGED <<instance, storeVars, listVars>>
    \/ instance = "losing" /\ StoreNext /\ UNCHANGED <<instance, multiVars, listVars>>
    \/ instance = "digested" /\ Digested!StoreNext /\ call'[c2] = call[c2] /\ UNCHANGED <<instance, multiVars, listVars>>
    \/ instance = "still" /\ Still!Next /\ UNCHANGED <<instance, multiVars, storeVars>>
    \/ instance = "changing" /\ Changing!Next /\ UNCHANGED <<instance, multiVars, storeVars>>

AnySpec == AnyInit /\ [][AnyNext]_<<instance, multiVars, storeVars, listVars>>

\* What an upload in parts leaves is the file that was given, though parts of earlier
\* uploads are used again, and only what is new is sent.
Uploaded ==
    /\ instance = "resumed" => Resumed!ObjectIsContent /\ Resumed!OwnUpload /\ Resumed!NotAgain /\ Resumed!OldInOrder
    /\ instance = "shared" => Shared!ObjectIsContent

\* The pages of a listing hold everything that was there all the time, once and in
\* order.
ListedOnce ==
    /\ instance = "still" => Still!Complete /\ Still!InOrder /\ Still!PageSize
    /\ instance = "changing" => Changing!Complete /\ Changing!InOrder

Symmetry == Permutations({c1, c2})
=============================================================================
