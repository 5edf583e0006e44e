--------------------------- MODULE MCVodDownload ---------------------------
(* Instances of VodDownload for TLC: two sections with the same fragmented   *)
(* MP4 header, one with another header, one of MPEG-TS packets.              *)
EXTENDS VodDownload

CONSTANTS m1, m2, m3, t1, mp4, mp4other, ts

MCMaps       == {m1, m2, m3, t1}
MCContents   == {mp4, mp4other, ts}
MCTsContents == {ts}
MCMapBytes   == [m \in MCMaps |-> CASE m = m3 -> mp4other
                                    [] m = t1 -> ts
                                    [] OTHER  -> mp4]
=============================================================================
