SPECIFICATION Spec
CONSTANTS
    MaxHeight = 8
    MaxItems = 3
    MaxLines = 6
    MaxDropped = 3
    MaxScroll = 14
    Page = 5
PROPERTIES
    EndShowsTheEnd
