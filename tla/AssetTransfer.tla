---------------------------- MODULE AssetTransfer ----------------------------
(* An asset on its way from send_store_asset_message in the client to the   *)
(* StoreAsset branch of handle_uni in the proxy: compression, the length    *)
(* announced as a u32, the limit, and how much of the data must come.      *)
EXTENDS Integers

CONSTANTS LengthCount,       \* the number of values of a u32
          AssetSizeLimit,    \* ASSET_SIZE_LIMIT
          MinCompression     \* MINIMUM_COMPRESSION_SIZE

ASSUME AssetTransferAssumption ==
    /\ LengthCount \in Nat \ {0}
    /\ AssetSizeLimit \in Nat /\ MinCompression \in Nat
    /\ MinCompression <= AssetSizeLimit /\ AssetSizeLimit < LengthCount

Compressed(size) == size >= MinCompression

\* zipped: what gzip makes of the asset, which may be more than it was.
Transferred(size, zipped) == IF Compressed(size) THEN zipped ELSE size

AnnouncedLength(size, zipped) == Transferred(size, zipped) % LengthCount

\* Mutant: the limit is tested and then all the data is read.
StoredUnlimited(size, zipped, sent) ==
    /\ AnnouncedLength(size, zipped) <= AssetSizeLimit
    /\ Compressed(size) => sent = Transferred(size, zipped)

\* The stream ends after sent bytes, at finish or because the call that was
\* sending has been dropped, which finishes a quinn stream too.  read_to_end
\* fails on more than was announced but not on less, and gzip data that breaks
\* off does not decompress.
Stored(size, zipped, sent) ==
    /\ AnnouncedLength(size, zipped) <= AssetSizeLimit
    /\ sent <= AnnouncedLength(size, zipped)
    /\ Compressed(size) => sent = Transferred(size, zipped)

\* Bytes in asset_store and in total_assets_size.
StoredSize(size, sent) == IF Compressed(size) THEN size ELSE sent

-----------------------------------------------------------------------------
(* Properties.                                                             *)

\* An asset that was sent whole is stored whole, unless its transfer is beyond
\* the limit, also where the announced length wraps; one that breaks off
\* is not stored, except that a short one, which goes uncompressed, is cut.
WholeOrNotAtAll(size, zipped, sent) ==
    LET all == Transferred(size, zipped)
    IN  /\ sent = all => /\ (Stored(size, zipped, sent) <=> all <= AssetSizeLimit)
                         /\ StoredSize(size, sent) = size
        /\ sent < all /\ Stored(size, zipped, sent) => size < MinCompression
=============================================================================
