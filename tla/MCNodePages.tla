---- MODULE MCNodePages ----
EXTENDS NodePages

\* Leaves of one to four entries; three or four pivots to a node.
MCLeafSize == <<5, 5, 10, 20, 8, 12, 20, 20, 20, 20, 20>>
MCPivotSize == <<5, 5, 5, 5, 4, 5, 5, 5, 5, 5, 5>>
\* 5 is a prefix of 6 to 11.
MCKeyBytes == <<<<1, 1>>, <<1, 2>>, <<1, 3>>, <<1, 4>>, <<2>>,
                <<2, 1>>, <<2, 2>>, <<2, 3>>, <<2, 4>>, <<2, 5>>, <<2, 6>>>>
MCValueLen == <<0, 0, 5, 14, 4, 7, 14, 14, 14, 14, 14>>
\* Nothing, and trees of one to three levels; the first file is compressed,
\* the second encrypted.
MCLoads == {<<>>, <<1, 3, 6>>, <<1, 2, 3, 5, 6, 7, 8, 9>>, <<3, 5, 4, 7, 8, 9, 10, 11>>,
            <<2, 4, 6, 8, 10, 1, 3, 5, 7, 9, 11>>}
MCFormatOf == [load \in MCLoads |-> IF load = <<>> THEN 1 ELSE IF load = <<1, 3, 6>> THEN 2 ELSE 0]
====
