----------------------------- MODULE MCFunctions -----------------------------
(***************************************************************************)
(* The pure parts of the program for TLC: one step asks one of the          *)
(* functions for a result, with inputs from small sets, and the invariants  *)
(* compare it with what it should be.  Beside these calls stands the        *)
(* specification of Framing.                                               *)
(***************************************************************************)
EXTENDS Framing, PortSelection, AssetTransfer, AssetPaths, TLC

VARIABLE asked   \* the call and its arguments

\* A link to a file outside, one to a directory of assets, a name not in UTF-8.
MCDirs == {<<>>, <<"a">>, <<"a", "b">>}
MCFiles == {<<"b">>, <<"a", "a">>, <<"a", "b", "a">>, <<"a", "x">>}
MCLinks == <<"a", "c">> :> <<"b">> @@ <<"a", "b", "c">> :> <<"a", "b">>
MCAssetsPath == <<"a">>
MCNotUtf8 == {"x"}

\* What stands between the slashes of a path.
Component == {"", ".", "..", "a", "b", "c", "x"}

MCInit == Init /\ asked = [call |-> "none"]

Ask(q) == asked' = q /\ UNCHANGED vars

AskPort ==
    \E first, last \in Ports, hash \in [1..BindAttempts -> Ports], free \in SUBSET Ports :
        Ask([call |-> "create_proxy_endpoint", first |-> first, last |-> last,
             hash |-> hash, free |-> free])

AskAsset ==
    \E size \in 0..(MinCompression + 1), zipped \in 1..(3 * LengthCount) :
        \E some \in 0..Transferred(size, zipped) :
            Ask([call |-> "store_asset", size |-> size, zipped |-> zipped, sent |-> some])

AskPath ==
    \E path \in SeqOf(Component, 4) \ {<<>>} :
        Ask([call |-> "load_asset_data", path |-> path])

AskFile == \E file \in Files : Ask([call |-> "path_to_key", file |-> file])

AskHeader ==
    \E header \in SeqOf(Byte, CountValues - 1), data \in SeqOf(Byte, 2) :
        \E maxSize \in 0..(CountValues - 1) :
            Ask([call |-> "read_framed", header |-> header, data |-> data,
                 maxSize |-> maxSize])

MCNext == \/ asked.call = "none" /\ Next /\ UNCHANGED asked
          \/ /\ asked.call = "none" /\ sent = <<>> /\ ~polled
             /\ AskPort \/ AskAsset \/ AskPath \/ AskFile \/ AskHeader

MCSpec == MCInit /\ [][MCNext]_<<vars, asked>>

-----------------------------------------------------------------------------
(* Properties.                                                             *)

\* create_proxy_endpoint tries ports of the range, and every port of it, without
\* overflow or division by zero.
PortsInRange ==
    asked.call = "create_proxy_endpoint" => PortInRange(asked.first, asked.last)

\* Servers of one project at one address get different ports, until all the ports
\* are taken that create_proxy_endpoint tries for them.
PortsOfOneProject ==
    asked.call = "create_proxy_endpoint" /\ ProperRange(asked.first, asked.last) =>
        ServersOfOneProject(asked.first, asked.last, asked.hash, asked.free)

\* What send_store_asset_message sends is stored whole, refused for its size, or
\* lost with its stream: never cut or grown, but for short data.
AssetsWhole ==
    asked.call = "store_asset" => WholeOrNotAtAll(asked.size, asked.zipped, asked.sent)

\* What pre-caching stores for a file is what a request of its key would load, and
\* only names that are not UTF-8 keep a file from having one.
FilesFoundByKey == asked.call = "path_to_key" => FileFoundByItsKey(asked.file)

\* A request loads assets only, and the same by any path to a file as by its key.
KeysKeepFiles == asked.call = "load_asset_data" => KeyKeepsFile(asked.path)

\* Headers of streams and prefixes of datagrams are read as they were written,
\* and the data behind them stays whole.
HeadersRead ==
    asked.call = "read_framed" =>
        /\ HeaderThenData(asked.header, asked.data, asked.maxSize)
        /\ DatagramIntact(asked.header, asked.data)
=============================================================================
