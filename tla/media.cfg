SPECIFICATION FairSpec
CONSTANTS
  Star = Star
  Slash = Slash
  Nowhere = Nowhere
  video = video
  music = music
  nohost = nohost
  shorts = shorts
  low = low
  high = high
  Above <- MusicIsVideo
  Aliases <- Alone
  Www <- Itself
  Bare <- NoQueries
  Protected = {}
  Host = {video, music}
  Elsewhere = nohost
  Page <- Pages
  Tab = {1}
  Lists <- Served
  Slot = {1, 2}
  MaxMoves = 2
INVARIANT TypeOK
PROPERTY MediaSettles
PROPERTY RefreshKeepsStripped
