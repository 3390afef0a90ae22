SPECIFICATION RouterSpec
CONSTANTS
    RoutePaths <- ShortPaths
    RequestPaths <- LongPaths
    MaxRoutes = 2
INVARIANTS
    MostSpecific
    StripKeepsSegments
CHECK_DEADLOCK FALSE
